--------------------------- MODULE Dispatch_proofs ---------------------------
(***************************************************************************)
(* Theorems about Dispatch and LogTriage in their composition TierTriage,  *)
(* for any tiers, executors, payloads, callers, lengths of a chain, words  *)
(* and sweeps, and a log that grows or is cut short anywhere.              *)
(*                                                                         *)
(* First the calls; then the text: recursion over sequences (Iterates,     *)
(* Folds), the lines of gates in it and what is found of their verdicts    *)
(* (VerdictsHonoured), its summary and what is read of a count             *)
(* (CountsHonoured); at the end what a triage has answered (Faithful).     *)
(***************************************************************************)
EXTENDS TierTriage, SequenceTheorems, FiniteSetTheorems, TLAPS

Reports == {TriageLog(SubSeq(Text(s), 1, n)) : s \in Sweeps, n \in Nat}

Answers == [by : Executors, served : Tiers]
           \cup [by : Executors, served : Tiers, result : Reports]

Errors == {"none", "ErrEmptyChain", "ErrChainExhausted", "ErrNoExecutorForTier", "backend",
           "read", "ErrLogTriagePayloadType", "ErrLogTriagePathEmpty"}

Causes == [tier : Tiers, by : Executors \cup {Nobody}, error : Errors]

CallRecords ==
    [at : {"idle", "lookup", "running", "done"}, chain : BOOLEAN, order : Seq(Tiers),
     n : Nat, payload : Payloads \cup {Nothing}, exec : Executors \cup {Nobody},
     cancelled : BOOLEAN, causes : Seq(Causes),
     response : [tier : Tiers \cup {NoTier}, payload : Answers \cup {Nothing}],
     err : Errors, before : [Tiers -> Executors \cup {Nobody}]]

Typed ==
    /\ executors \in [Tiers -> Executors \cup {Nobody}]
    /\ calls \in [Callers -> CallRecords]
    /\ sweep \in Sweeps
    /\ written \in Nat

(***************************************************************************)
(* The strengthening, for one call and the executors ex of the registry:   *)
(* where the call is in its order, that an executor once registered stays, *)
(* and that a cause other than a missing executor has an executor.         *)
(***************************************************************************)
Placed(k, ex) ==
    /\ Len(k.causes) <= Len(k.order)
    /\ ~ k.chain /\ k.at # "idle" => Len(k.order) = 1
    /\ k.at = "idle" => k = NoCall
    /\ k.at \in {"lookup", "running"} =>
          /\ k.n = Len(k.causes) + 1
          /\ k.n <= Len(k.order)
          /\ k.response = NoResponse
          /\ k.err = "none"
    /\ k.at = "running" => k.exec \in Executors /\ k.exec = ex[k.order[k.n]]
    /\ k.at # "idle" => \A t \in Tiers : k.before[t] # Nobody => ex[t] = k.before[t]

Blames(k, ex) ==
    \A i \in 1 .. Len(k.causes) :
       /\ k.causes[i].tier = k.order[i]
       /\ IF k.causes[i].error = "ErrNoExecutorForTier"
          THEN k.before[k.order[i]] = Nobody
          ELSE k.causes[i].by \in Executors /\ k.causes[i].by = ex[k.order[i]]

Credits(k, ex) ==
    Answered(k) => /\ k.at = "done"
                   /\ k.err = "none"
                   /\ Len(k.causes) < Len(k.order)
                   /\ k.response.tier = k.order[Len(k.causes) + 1]
                   /\ k.response.payload.by \in Executors
                   /\ k.response.payload.by = ex[k.response.tier]
                   /\ k.response.payload.served = k.response.tier

Exhausted(k) ==
    k.at = "done" /\ ~ Answered(k) =>
       /\ Len(k.causes) = Len(k.order)
       /\ k.err = IF Len(k.causes) = 0 THEN "ErrEmptyChain"
                  ELSE IF k.chain THEN "ErrChainExhausted" ELSE k.causes[1].error

Sound(k, ex) == Placed(k, ex) /\ Blames(k, ex) /\ Credits(k, ex) /\ Exhausted(k)

Honest == Typed /\ \A c \in Callers : Sound(calls[c], executors)

LEMMA NoCallTyped == NoCall \in CallRecords
<1>1. NoResponse \in [tier : Tiers \cup {NoTier}, payload : Answers \cup {Nothing}]
  BY DEF NoResponse
<1>2. <<>> \in Seq(Causes) /\ <<>> \in Seq(Tiers) /\ "none" \in Errors
  BY DEF Errors
<1> QED
  BY <1>1, <1>2 DEF NoCall, CallRecords

LEMMA NoCallSound == \A ex : Sound(NoCall, ex)
<1>1. NoCall.at = "idle" /\ NoCall.causes = <<>> /\ NoCall.order = <<>>
      /\ NoCall.response = NoResponse
  BY DEF NoCall
<1> QED
  BY <1>1 DEF Sound, Placed, Blames, Credits, Exhausted, Answered

LEMMA InitHonest == TriageInit => Honest
<1> SUFFICES ASSUME TriageInit PROVE Honest
  OBVIOUS
<1>1. NoCall \in CallRecords
  BY NoCallTyped
<1>2. Typed
  BY <1>1 DEF TriageInit, DispatchInit, LogInit, Typed
<1>3. ASSUME NEW c \in Callers PROVE Sound(calls[c], executors)
  <2>1. calls[c] = NoCall
    BY DEF TriageInit, DispatchInit
  <2> QED
    BY <2>1, NoCallSound
<1> QED
  BY <1>2, <1>3 DEF Honest

(* A step of the call of c alone.                                          *)
LEMMA CallStepHonest ==
    ASSUME Honest, NEW c \in Callers, NEW k \in CallRecords,
           calls' = [calls EXCEPT ![c] = k], executors' = executors,
           sweep' \in Sweeps, written' \in Nat, Sound(k, executors)
    PROVE  Honest'
<1>1. Typed'
  BY DEF Honest, Typed
<1>2. ASSUME NEW d \in Callers PROVE Sound(calls'[d], executors)
  <2>1. calls \in [Callers -> CallRecords] /\ Sound(calls[d], executors)
    BY DEF Honest, Typed
  <2> QED
    BY <2>1
<1>3. \A d \in Callers : Sound(calls[d], executors)'
  BY <1>2 DEF Sound, Placed, Blames, Credits, Exhausted, Answered
<1> QED
  BY <1>1, <1>3 DEF Honest

(* An executor that is registered replaces none.                           *)
LEMMA RegisterHonest ==
    ASSUME Honest, NEW name \in Tiers, NEW exec \in Executors, Register(name, exec),
           UNCHANGED logVars
    PROVE  Honest'
<1>1. /\ executors[name] = Nobody /\ calls' = calls
      /\ executors' = [executors EXCEPT ![name] = exec]
      /\ sweep' = sweep /\ written' = written
  BY DEF Register, logVars
<1>2. executors \in [Tiers -> Executors \cup {Nobody}]
  BY DEF Honest, Typed
<1>3. Typed'
  BY <1>1, <1>2 DEF Honest, Typed
<1>4. \A t \in Tiers : executors[t] # Nobody => executors'[t] = executors[t]
  BY <1>1, <1>2
<1>5. ASSUME NEW c \in Callers PROVE Sound(calls[c], executors')
  <2> DEFINE k == calls[c]
  <2>1. k \in CallRecords /\ Sound(k, executors)
    BY DEF Honest, Typed
  <2>2. k.order \in Seq(Tiers) /\ k.before \in [Tiers -> Executors \cup {Nobody}]
        /\ k.causes \in Seq(Causes) /\ k.n \in Nat
    BY <2>1 DEF CallRecords
  <2>3. Nobody \notin Executors
    BY DispatchAssumption
  <2> HIDE DEF k
  <2>4. Placed(k, executors')
    BY <1>4, <2>1, <2>2, <2>3 DEF Sound, Placed
  <2>5. Blames(k, executors')
    <3> SUFFICES ASSUME NEW i \in 1 .. Len(k.causes)
                 PROVE  /\ k.causes[i].tier = k.order[i]
                        /\ IF k.causes[i].error = "ErrNoExecutorForTier"
                           THEN k.before[k.order[i]] = Nobody
                           ELSE /\ k.causes[i].by \in Executors
                                /\ k.causes[i].by = executors'[k.order[i]]
      BY DEF Blames
    <3>1. i \in 1 .. Len(k.order)
      BY <2>1, <2>2 DEF Sound, Placed
    <3>2. k.order[i] \in Tiers
      BY <2>2, <3>1
    <3> QED
      BY <1>4, <2>1, <2>3, <3>2 DEF Sound, Blames
  <2>6. Credits(k, executors')
    <3> SUFFICES ASSUME Answered(k)
                 PROVE  executors'[k.response.tier] = executors[k.response.tier]
      BY <2>1 DEF Sound, Credits
    <3>1. Len(k.causes) + 1 \in 1 .. Len(k.order)
      BY <2>1, <2>2 DEF Sound, Credits
    <3>2. k.response.tier \in Tiers
      BY <2>1, <2>2, <3>1 DEF Sound, Credits
    <3> QED
      BY <1>4, <2>1, <2>3, <3>2 DEF Sound, Credits
  <2> QED
    BY <2>1, <2>4, <2>5, <2>6 DEF Sound, k
<1> QED
  BY <1>1, <1>3, <1>5 DEF Honest, Sound, Placed, Blames, Credits, Exhausted, Answered

(* The beginning of a call.                                                *)
LEMMA BeginHonest ==
    ASSUME Honest, NEW c \in Callers, Dispatch(c) \/ DispatchChain(c), UNCHANGED logVars
    PROVE  Honest'
<1>1. PICK chain \in BOOLEAN, order \in Seq(Tiers), payload \in Payloads :
        Calls(c, chain, order, payload) /\ (~ chain => Len(order) = 1)
  <2>1. CASE Dispatch(c)
    <3>1. PICK t \in Tiers, payload \in Payloads : Calls(c, FALSE, <<t>>, payload)
      BY <2>1 DEF Dispatch
    <3>2. <<t>> \in Seq(Tiers) /\ Len(<<t>>) = 1
      OBVIOUS
    <3> QED
      BY <3>1, <3>2
  <2>2. CASE DispatchChain(c)
    <3>1. PICK n \in 0 .. MaxOrder : \E order \in [1 .. n -> Tiers], payload \in Payloads :
            Calls(c, TRUE, order, payload)
      BY <2>2 DEF DispatchChain
    <3>2. [1 .. n -> Tiers] \subseteq Seq(Tiers)
      BY DispatchAssumption, SeqDef
    <3> QED
      BY <3>1, <3>2
  <2> QED
    BY <2>1, <2>2
<1>2. PICK at \in {"done", "lookup"} : at = IF order = <<>> THEN "done" ELSE "lookup"
  OBVIOUS
<1>3. PICK err \in Errors : err = IF order = <<>> THEN "ErrEmptyChain" ELSE "none"
  BY DEF Errors
<1>4. PICK k : k = [NoCall EXCEPT !.at = at, !.err = err, !.chain = chain, !.order = order,
                                  !.n = 1, !.payload = payload, !.before = executors]
  OBVIOUS
<1>5. calls' = [calls EXCEPT ![c] = k] /\ executors' = executors
      /\ sweep' = sweep /\ written' = written
  BY <1>1, <1>2, <1>3, <1>4 DEF Calls, Dispatch, DispatchChain, logVars
<1>6. NoCall \in CallRecords
  BY NoCallTyped
<1>7. k \in CallRecords
  BY <1>4, <1>6 DEF CallRecords, Honest, Typed
<1>8. /\ k.at = at /\ k.err = err /\ k.chain = chain /\ k.order = order
      /\ k.n = 1 /\ k.before = executors /\ k.causes = <<>> /\ k.response = NoResponse
  BY <1>4 DEF NoCall
<1>9. Sound(k, executors)
  <2>1. order = <<>> <=> Len(order) = 0
    OBVIOUS
  <2> QED
    BY <1>1, <1>2, <1>3, <1>8, <2>1 DEF Sound, Placed, Blames, Credits, Exhausted, Answered
<1> QED
  BY <1>5, <1>7, <1>9, CallStepHonest DEF Honest, Typed

(* The tier that is tried is one of the order.                             *)
LEMMA Trying ==
    ASSUME Honest, NEW c \in Callers, calls[c].at \in {"lookup", "running"}
    PROVE  /\ calls[c] \in CallRecords /\ Sound(calls[c], executors)
           /\ TierOf(c) \in Tiers
           /\ TierOf(c) = calls[c].order[Len(calls[c].causes) + 1]
           /\ calls[c].n \in 1 .. Len(calls[c].order)
           /\ calls[c].n = Len(calls[c].causes) + 1
<1>1. calls[c] \in CallRecords /\ Sound(calls[c], executors)
  BY DEF Honest, Typed
<1>2. calls[c].order \in Seq(Tiers) /\ calls[c].causes \in Seq(Causes)
  BY <1>1 DEF CallRecords
<1>3. calls[c].n = Len(calls[c].causes) + 1 /\ calls[c].n <= Len(calls[c].order)
  BY <1>1 DEF Sound, Placed
<1> QED
  BY <1>1, <1>2, <1>3 DEF TierOf

(* A tier that failed has its cause, and the walk goes on or is over.      *)
LEMMA FailsHonest ==
    ASSUME Honest, NEW c \in Callers, calls[c].at \in {"lookup", "running"},
           NEW by \in Executors \cup {Nobody}, NEW error \in Errors, Fails(c, by, error),
           IF error = "ErrNoExecutorForTier" THEN executors[TierOf(c)] = Nobody
           ELSE by \in Executors /\ by = executors[TierOf(c)],
           executors' = executors, sweep' \in Sweeps, written' \in Nat
    PROVE  Honest'
<1> DEFINE old == calls[c]
<1>1. /\ old \in CallRecords /\ Sound(old, executors)
      /\ TierOf(c) \in Tiers /\ TierOf(c) = old.order[Len(old.causes) + 1]
      /\ old.n \in 1 .. Len(old.order) /\ old.n = Len(old.causes) + 1
  BY Trying
<1>2. /\ old.order \in Seq(Tiers) /\ old.causes \in Seq(Causes)
      /\ old.before \in [Tiers -> Executors \cup {Nobody}]
  BY <1>1 DEF CallRecords
<1>3. old.response = NoResponse /\ old.err = "none"
      /\ (~ old.chain => Len(old.order) = 1)
      /\ \A t \in Tiers : old.before[t] # Nobody => executors[t] = old.before[t]
  BY <1>1 DEF Sound, Placed
<1>4. PICK over \in BOOLEAN : over <=> old.n = Len(old.order)
  BY Zenon
<1>5. PICK cause : cause = [tier |-> TierOf(c), by |-> by, error |-> error]
  OBVIOUS
<1>6. cause \in Causes /\ cause.tier = TierOf(c) /\ cause.by = by /\ cause.error = error
  BY <1>1, <1>5 DEF Causes
<1>7. PICK causes : causes = Append(old.causes, cause)
  OBVIOUS
<1>8. /\ causes \in Seq(Causes) /\ Len(causes) = Len(old.causes) + 1
      /\ causes[Len(causes)] = cause
      /\ \A i \in 1 .. Len(old.causes) : causes[i] = old.causes[i]
  BY <1>2, <1>6, <1>7
<1>9. PICK at \in {"done", "lookup"} : at = IF over THEN "done" ELSE "lookup"
  OBVIOUS
<1>10. PICK n : n = IF over THEN old.n ELSE old.n + 1
  OBVIOUS
<1>11. PICK err \in Errors : err = IF ~ over THEN "none"
                                  ELSE IF old.chain THEN "ErrChainExhausted" ELSE error
  BY DEF Errors
<1>12. PICK k : k = [old EXCEPT !.at = at, !.n = n, !.exec = Nobody, !.causes = causes,
                                !.err = err]
  OBVIOUS
<1>13. calls' = [calls EXCEPT ![c] = k]
  <2>1. calls \in [Callers -> CallRecords]
    BY DEF Honest, Typed
  <2> QED
    BY <2>1, <1>4, <1>5, <1>7, <1>9, <1>10, <1>11, <1>12 DEF Fails
<1>14. n \in Nat
  BY <1>1, <1>2, <1>10
<1>15. /\ k \in CallRecords
       /\ k.at = at /\ k.n = n /\ k.causes = causes /\ k.err = err
       /\ k.order = old.order /\ k.chain = old.chain /\ k.before = old.before
       /\ k.response = old.response
  BY <1>1, <1>8, <1>12, <1>14 DEF CallRecords
<1> HIDE DEF old
<1>16. Placed(k, executors)
  BY <1>1, <1>2, <1>3, <1>4, <1>8, <1>9, <1>10, <1>11, <1>15 DEF Placed
<1>17. Blames(k, executors)
  <2> SUFFICES ASSUME NEW i \in 1 .. Len(causes)
               PROVE  /\ causes[i].tier = old.order[i]
                      /\ IF causes[i].error = "ErrNoExecutorForTier"
                         THEN old.before[old.order[i]] = Nobody
                         ELSE causes[i].by \in Executors
                              /\ causes[i].by = executors[old.order[i]]
    BY <1>15 DEF Blames
  <2>1. CASE i = Len(causes)
    BY <1>1, <1>3, <1>6, <1>8, <2>1 DEF old
  <2>2. CASE i # Len(causes)
    <3>1. i \in 1 .. Len(old.causes)
      BY <1>2, <1>8, <2>2
    <3> QED
      BY <1>1, <1>8, <3>1 DEF Sound, Blames
  <2> QED
    BY <2>1, <2>2
<1>18. Credits(k, executors)
  BY <1>3, <1>15 DEF Credits, Answered
<1>19. Exhausted(k)
  <2> SUFFICES ASSUME over
               PROVE  /\ Len(causes) = Len(old.order)
                      /\ err = IF Len(causes) = 0 THEN "ErrEmptyChain"
                               ELSE IF old.chain THEN "ErrChainExhausted" ELSE causes[1].error
    BY <1>9, <1>15 DEF Exhausted
  <2>1. Len(causes) = Len(old.order) /\ Len(causes) > 0
    BY <1>1, <1>2, <1>4, <1>8
  <2>2. ~ old.chain => causes[1].error = error
    BY <1>3, <1>6, <1>8, <2>1
  <2> QED
    BY <1>11, <2>1, <2>2
<1> QED
  BY <1>13, <1>15, <1>16, <1>17, <1>18, <1>19, CallStepHonest DEF Sound

(* The executor of a tier that answers ends the call.                      *)
LEMMA SucceedsHonest ==
    ASSUME Honest, NEW c \in Callers, calls[c].at = "running",
           NEW payload \in Answers, payload.by = calls[c].exec, payload.served = TierOf(c),
           Succeeds(c, payload), executors' = executors, sweep' \in Sweeps, written' \in Nat
    PROVE  Honest'
<1> DEFINE old == calls[c]
<1>1. /\ old \in CallRecords /\ Sound(old, executors)
      /\ TierOf(c) \in Tiers /\ TierOf(c) = old.order[Len(old.causes) + 1]
      /\ old.n \in 1 .. Len(old.order) /\ old.n = Len(old.causes) + 1
  BY Trying
<1>2. old.order \in Seq(Tiers) /\ old.causes \in Seq(Causes)
  BY <1>1 DEF CallRecords
<1>3. /\ old.err = "none" /\ (~ old.chain => Len(old.order) = 1)
      /\ old.exec \in Executors /\ old.exec = executors[TierOf(c)]
      /\ \A t \in Tiers : old.before[t] # Nobody => executors[t] = old.before[t]
  BY <1>1 DEF Sound, Placed, TierOf
<1>4. PICK response : response = [tier |-> TierOf(c), payload |-> payload]
  OBVIOUS
<1>5. /\ response \in [tier : Tiers \cup {NoTier}, payload : Answers \cup {Nothing}]
      /\ response.tier = TierOf(c) /\ response.payload = payload
  BY <1>1, <1>4
<1>6. response # NoResponse
  BY <1>1, <1>5, DispatchAssumption DEF NoResponse
<1>7. PICK k : k = [old EXCEPT !.at = "done", !.exec = Nobody, !.response = response]
  OBVIOUS
<1>8. calls' = [calls EXCEPT ![c] = k]
  <2>1. calls \in [Callers -> CallRecords]
    BY DEF Honest, Typed
  <2> QED
    BY <2>1, <1>4, <1>7 DEF Succeeds
<1>9. /\ k \in CallRecords
      /\ k.at = "done" /\ k.n = old.n /\ k.causes = old.causes /\ k.err = old.err
      /\ k.order = old.order /\ k.chain = old.chain /\ k.before = old.before
      /\ k.response = response
  BY <1>1, <1>5, <1>7 DEF CallRecords
<1>10. payload.by = old.exec
  OBVIOUS
<1> HIDE DEF old
<1>11. Placed(k, executors)
  BY <1>1, <1>2, <1>3, <1>9 DEF Sound, Placed
<1>12. Blames(k, executors)
  BY <1>1, <1>9 DEF Sound, Blames
<1>13. Credits(k, executors) /\ Exhausted(k)
  BY <1>1, <1>2, <1>3, <1>5, <1>6, <1>9, <1>10 DEF Credits, Exhausted, Answered
<1> QED
  BY <1>8, <1>9, <1>11, <1>12, <1>13, CallStepHonest DEF Sound

(* Every step of a call, of the registry and of the harness.               *)
LEMMA WalkHonest ==
    ASSUME Honest, NEW c \in Callers,
           Cancel(c) \/ LookupMissing(c) \/ LookupFound(c) \/ Return(c), UNCHANGED logVars
    PROVE  Honest'
<1> DEFINE old == calls[c]
<1>1. old \in CallRecords /\ Sound(old, executors) /\ calls \in [Callers -> CallRecords]
      /\ executors \in [Tiers -> Executors \cup {Nobody}]
  BY DEF Honest, Typed
<1>2. executors' = executors /\ sweep' \in Sweeps /\ written' \in Nat
  BY DEF Cancel, LookupMissing, LookupFound, Return, logVars, Honest, Typed
<1>3. CASE Cancel(c)
  <2>1. PICK k : k = [old EXCEPT !.cancelled = TRUE]
    OBVIOUS
  <2>2. calls' = [calls EXCEPT ![c] = k]
    BY <1>1, <1>3, <2>1 DEF Cancel
  <2>3. /\ k \in CallRecords
        /\ k.at = old.at /\ k.n = old.n /\ k.causes = old.causes /\ k.err = old.err
        /\ k.order = old.order /\ k.chain = old.chain /\ k.before = old.before
        /\ k.response = old.response /\ k.exec = old.exec
    BY <1>1, <2>1 DEF CallRecords
  <2>4. old.at # "idle"
    BY <1>3 DEF Cancel
  <2> HIDE DEF old
  <2>5. Sound(k, executors)
    BY <1>1, <2>3, <2>4 DEF Sound, Placed, Blames, Credits, Exhausted, Answered
  <2> QED
    BY <1>2, <2>2, <2>3, <2>5, CallStepHonest
<1>4. CASE LookupMissing(c)
  <2>1. /\ old.at = "lookup" /\ executors[TierOf(c)] = Nobody
        /\ Fails(c, Nobody, "ErrNoExecutorForTier") /\ "ErrNoExecutorForTier" \in Errors
    BY <1>4 DEF LookupMissing, Errors
  <2> QED
    BY <1>2, <2>1, FailsHonest
<1>5. CASE LookupFound(c)
  <2>1. old.at = "lookup" /\ executors[TierOf(c)] # Nobody
    BY <1>5 DEF LookupFound
  <2>2. TierOf(c) \in Tiers /\ TierOf(c) = old.order[old.n]
    BY <2>1, Trying DEF TierOf
  <2>3. PICK exec \in Executors : exec = executors[TierOf(c)]
    BY <1>1, <2>1, <2>2
  <2>4. PICK k : k = [old EXCEPT !.at = "running", !.exec = exec]
    OBVIOUS
  <2>5. calls' = [calls EXCEPT ![c] = k]
    BY <1>1, <1>5, <2>3, <2>4 DEF LookupFound
  <2>6. /\ k \in CallRecords
        /\ k.at = "running" /\ k.n = old.n /\ k.causes = old.causes /\ k.err = old.err
        /\ k.order = old.order /\ k.chain = old.chain /\ k.before = old.before
        /\ k.response = old.response /\ k.exec = exec
    BY <1>1, <2>4 DEF CallRecords
  <2> HIDE DEF old
  <2>7. Sound(k, executors)
    BY <1>1, <2>1, <2>2, <2>3, <2>6 DEF Sound, Placed, Blames, Credits, Exhausted, Answered
  <2> QED
    BY <1>2, <2>5, <2>6, <2>7, CallStepHonest
<1>6. CASE Return(c)
  <2>1. calls' = [calls EXCEPT ![c] = NoCall]
    BY <1>6 DEF Return
  <2> QED
    BY <1>2, <2>1, NoCallTyped, NoCallSound, CallStepHonest
<1> QED
  BY <1>3, <1>4, <1>5, <1>6

LEMMA ExecuteHonest ==
    ASSUME Honest, NEW c \in Callers,
           \/ \E e \in Executors \ {Triage} : ExecuteOk(c, e) \/ ExecuteFails(c, e)
           \/ TriageRefuses(c) \/ ReadFails(c) \/ logTriageExecute(c),
           UNCHANGED logVars
    PROVE  Honest'
<1>1. calls[c].at = "running" /\ executors' = executors
      /\ sweep' \in Sweeps /\ written' \in Nat
  BY DEF ExecuteOk, ExecuteFails, TriageRefuses, ReadFails, logTriageExecute, Runs, logVars,
         Honest, Typed
<1>2. /\ TierOf(c) \in Tiers
      /\ calls[c].exec \in Executors /\ calls[c].exec = executors[TierOf(c)]
  BY <1>1, Trying DEF Sound, Placed, TierOf
<1>3. \/ \E error \in Errors : /\ error # "ErrNoExecutorForTier"
                              /\ Fails(c, calls[c].exec, error)
      \/ \E payload \in Answers : /\ payload.by = calls[c].exec
                                  /\ payload.served = TierOf(c)
                                  /\ Succeeds(c, payload)
  <2>1. ASSUME NEW e \in Executors, ExecuteOk(c, e) PROVE <1>3
    <3>1. PICK payload : payload = [by |-> e, served |-> TierOf(c)]
      OBVIOUS
    <3>2. payload \in Answers /\ payload.by = e /\ payload.served = TierOf(c)
      BY <1>2, <3>1 DEF Answers
    <3> QED
      BY <2>1, <3>1, <3>2 DEF ExecuteOk, Runs
  <2>2. ASSUME NEW e \in Executors, ExecuteFails(c, e) PROVE <1>3
    BY <2>2 DEF ExecuteFails, Runs, Errors
  <2>3. CASE TriageRefuses(c) \/ ReadFails(c)
    BY <2>3 DEF TriageRefuses, ReadFails, Runs, Errors
  <2>4. CASE logTriageExecute(c)
    <3>1. PICK report : report = TriageLog(log)
      OBVIOUS
    <3>2. report \in Reports
      BY <3>1 DEF Reports, log, Honest, Typed
    <3>3. PICK payload : payload = [by |-> Triage, served |-> TierOf(c), result |-> report]
      OBVIOUS
    <3>4. Triage = calls[c].exec
      BY <2>4 DEF logTriageExecute, Runs
    <3>5. payload \in Answers /\ payload.by = calls[c].exec /\ payload.served = TierOf(c)
      BY <1>2, <3>2, <3>3, <3>4 DEF Answers
    <3> QED
      BY <2>4, <3>1, <3>3, <3>5 DEF logTriageExecute
  <2> QED
    BY <2>1, <2>2, <2>3, <2>4
<1> QED
  BY <1>1, <1>2, <1>3, FailsHonest, SucceedsHonest

LEMMA NextHonest == Honest /\ [TriageNext]_triageVars => Honest'
<1> SUFFICES ASSUME Honest, [TriageNext]_triageVars PROVE Honest'
  OBVIOUS
<1>1. CASE UNCHANGED triageVars
  BY <1>1 DEF triageVars, dispatchVars, logVars, Honest, Typed, Sound, Placed, Blames,
              Credits, Exhausted, Answered
<1>2. ASSUME NEW t \in Tiers, NEW e \in Executors, Register(t, e), UNCHANGED logVars
      PROVE  Honest'
  BY <1>2, RegisterHonest
<1>3. ASSUME NEW c \in Callers, CallStep(c), UNCHANGED logVars PROVE Honest'
  BY <1>3, BeginHonest, WalkHonest DEF CallStep
<1>4. ASSUME NEW c \in Callers,
             \/ \E e \in Executors \ {Triage} : ExecuteOk(c, e) \/ ExecuteFails(c, e)
             \/ TriageRefuses(c) \/ ReadFails(c) \/ logTriageExecute(c),
             UNCHANGED logVars
      PROVE  Honest'
  BY <1>4, ExecuteHonest
<1>5. CASE HarnessWrites /\ UNCHANGED dispatchVars
  <2>1. sweep' \in Sweeps /\ written' \in Nat /\ executors' = executors /\ calls' = calls
    BY <1>5 DEF HarnessWrites, dispatchVars, Honest, Typed
  <2> QED
    BY <2>1 DEF Honest, Typed, Sound, Placed, Blames, Credits, Exhausted, Answered
<1>6. \/ \E t \in Tiers, e \in Executors : Register(t, e) /\ UNCHANGED logVars
      \/ \E c \in Callers : CallStep(c) /\ UNCHANGED logVars
      \/ \E c \in Callers :
            /\ \/ \E e \in Executors \ {Triage} : ExecuteOk(c, e) \/ ExecuteFails(c, e)
               \/ TriageRefuses(c) \/ ReadFails(c) \/ logTriageExecute(c)
            /\ UNCHANGED logVars
      \/ HarnessWrites /\ UNCHANGED dispatchVars
      \/ UNCHANGED triageVars
  BY DEF TriageNext, TriageRefuses, ReadFails, logTriageExecute
<1> QED
  BY <1>1, <1>2, <1>3, <1>4, <1>5, <1>6

(***************************************************************************)
(* Nothing is swallowed and no response is fabricated: for any chains,     *)
(* executors and callers, whoever is registered, cancelled or fails        *)
(* meanwhile (dispatch.go:35-41, registry.go:167-175).                     *)
(***************************************************************************)
THEOREM NothingSwallowed == TriageSpec => []ChainHonest
<1>1. Honest => ChainHonest
  <2> SUFFICES ASSUME Honest, NEW c \in Callers
               PROVE  LET k == calls[c]
                          tried == Len(k.causes)
                      IN  /\ \A i \in 1 .. tried :
                                /\ k.causes[i].tier = k.order[i]
                                /\ IF k.causes[i].error = "ErrNoExecutorForTier"
                                   THEN k.before[k.order[i]] = Nobody
                                   ELSE k.causes[i].by = executors[k.order[i]]
                          /\ Answered(k) =>
                                /\ k.err = "none"
                                /\ k.response.tier = k.order[tried + 1]
                                /\ k.response.payload.by = executors[k.response.tier]
                                /\ k.response.payload.served = k.response.tier
                          /\ k.at = "done" /\ ~ Answered(k) =>
                                /\ tried = Len(k.order)
                                /\ k.err = IF tried = 0 THEN "ErrEmptyChain"
                                           ELSE IF k.chain THEN "ErrChainExhausted"
                                           ELSE k.causes[1].error
    BY DEF ChainHonest
  <2>1. Sound(calls[c], executors)
    BY DEF Honest
  <2> QED
    BY <2>1 DEF Sound, Blames, Credits, Exhausted
<1> QED
  BY <1>1, InitHonest, NextHonest, PTL DEF TriageSpec

-----------------------------------------------------------------------------
(* The order of the natural numbers, as a relation.                        *)
Below == {p \in Nat \X Nat : p[1] < p[2]}

LEMMA LeastNatural ==
    ASSUME NEW T, T \subseteq Nat, T # {}
    PROVE  \E x \in T : \A y \in T : x <= y
<1>1. IsWellFoundedOn(Below, Nat)
  BY NatLessThanWellFounded DEF OpToRel, Below
<1>2. PICK x \in T : \A y \in T : ~ (<<y, x>> \in Below)
  BY <1>1, WFMin
<1>3. ASSUME NEW y \in T PROVE x <= y
  <2>1. x \in Nat /\ y \in Nat
    OBVIOUS
  <2>2. y < x => <<y, x>> \in Below
    BY <2>1 DEF Below
  <2> QED
    BY <1>2, <2>1, <2>2
<1> QED
  BY <1>3

(* Induction, stated with a set where the library has an operator.         *)
LEMMA NumberInduction ==
    ASSUME NEW Q, 0 \in Q, \A n \in Nat : n \in Q => n + 1 \in Q
    PROVE  Nat \subseteq Q
<1> SUFFICES ASSUME Nat \ Q # {} PROVE FALSE
  OBVIOUS
<1>1. PICK n \in Nat \ Q : \A m \in Nat \ Q : n <= m
  BY LeastNatural
<1>2. n # 0 /\ n - 1 \in Nat
  BY <1>1
<1>3. n - 1 \in Q
  BY <1>1, <1>2
<1> QED
  BY <1>1, <1>2, <1>3

(* f is the iteration of step from base.                                   *)
Iterates(f, V, base, step) ==
    /\ f \in [Nat -> V] /\ f[0] = base
    /\ \A n \in Nat : f[n + 1] = step[<<n, f[n]>>]

LEMMA NumberRecursion ==
    ASSUME NEW V, NEW base \in V, NEW step \in [Nat \X V -> V]
    PROVE  \E f : Iterates(f, V, base, step)
<1> DEFINE Good(n, g) == /\ g \in [Nat -> V] /\ g[0] = base
                         /\ \A i \in Nat : i < n => g[i + 1] = step[<<i, g[i]>>]
           Upto == {n \in Nat : \E g : Good(n, g)}
           pick(n) == CHOOSE g : Good(n, g)
           f == [n \in Nat |-> pick(n)[n]]
<1>1. 0 \in Upto
  <2>1. Good(0, [n \in Nat |-> base])
    OBVIOUS
  <2> QED
    BY <2>1
<1>2. ASSUME NEW n \in Nat, n \in Upto PROVE n + 1 \in Upto
  <2>1. PICK g : Good(n, g)
    BY <1>2
  <2> DEFINE h == [g EXCEPT ![n + 1] = step[<<n, g[n]>>]]
  <2>2. h \in [Nat -> V] /\ h[0] = base
    BY <2>1
  <2>3. ASSUME NEW i \in Nat, i < n + 1 PROVE h[i + 1] = step[<<i, h[i]>>]
    BY <2>1, <2>3
  <2> HIDE DEF h
  <2> QED
    BY <2>2, <2>3
<1>3. \A n \in Nat : Good(n, pick(n))
  <2>1. Nat \subseteq Upto
    <3> HIDE DEF Upto
    <3> QED
      BY <1>1, <1>2, NumberInduction
  <2> QED
    BY <2>1
<1> HIDE DEF pick
<1>4. ASSUME NEW n \in Nat PROVE pick(n + 1)[n] = pick(n)[n]
  <2> DEFINE Same == {i \in Nat : i <= n => pick(n + 1)[i] = pick(n)[i]}
  <2>1. Good(n, pick(n)) /\ Good(n + 1, pick(n + 1))
    BY <1>3
  <2>2. 0 \in Same
    BY <2>1
  <2>3. ASSUME NEW i \in Nat, i \in Same PROVE i + 1 \in Same
    <3>1. CASE i + 1 <= n
      <4>1. /\ pick(n)[i + 1] = step[<<i, pick(n)[i]>>]
            /\ pick(n + 1)[i + 1] = step[<<i, pick(n + 1)[i]>>]
            /\ pick(n + 1)[i] = pick(n)[i]
        BY <2>1, <2>3, <3>1
      <4> QED
        BY <4>1
    <3>2. CASE ~(i + 1 <= n)
      BY <3>2
    <3> QED
      BY <3>1, <3>2
  <2>4. n \in Same
    <3> HIDE DEF Same
    <3> QED
      BY <2>2, <2>3, NumberInduction
  <2> QED
    BY <2>4
<1>5. f \in [Nat -> V] /\ f[0] = base
  BY <1>3
<1>6. ASSUME NEW n \in Nat PROVE f[n + 1] = step[<<n, f[n]>>]
  <2>1. pick(n + 1)[n + 1] = step[<<n, pick(n + 1)[n]>>]
    BY <1>3
  <2> QED
    BY <1>4, <2>1
<1> HIDE DEF f
<1> QED
  BY <1>5, <1>6 DEF Iterates

(***************************************************************************)
(* Sequences: induction, and functions by recursion on the last element.   *)
(***************************************************************************)
LEMMA Shorter ==
    ASSUME NEW V, NEW s \in Seq(V), NEW n \in Nat, n < Len(s)
    PROVE  /\ SubSeq(s, 1, n) \in Seq(V) /\ Len(SubSeq(s, 1, n)) = n
           /\ s[n + 1] \in V
           /\ SubSeq(s, 1, n + 1) = Append(SubSeq(s, 1, n), s[n + 1])
<1>1. Len(s) \in Nat /\ n + 1 \in 1 .. Len(s) /\ \A i \in 1 .. Len(s) : s[i] \in V
  BY LenProperties, ElementOfSeq
<1>2. SubSeq(s, 1, n) \in Seq(V) /\ Len(SubSeq(s, 1, n)) = n
  BY <1>1, SubSeqProperties
<1> QED
  BY <1>1, <1>2

LEMMA SequenceInduction ==
    ASSUME NEW V, NEW Q, <<>> \in Q,
           \A s \in Seq(V), e \in V : s \in Q => Append(s, e) \in Q
    PROVE  Seq(V) \subseteq Q
<1> DEFINE P == {n \in Nat : \A s \in Seq(V) : Len(s) = n => s \in Q}
<1>1. 0 \in P
  <2>1. \A s \in Seq(V) : Len(s) = 0 => s = <<>>
    BY EmptySeq
  <2> QED
    BY <2>1
<1>2. ASSUME NEW n \in Nat, n \in P PROVE n + 1 \in P
  <2> SUFFICES ASSUME NEW s \in Seq(V), Len(s) = n + 1 PROVE s \in Q
    OBVIOUS
  <2>1. /\ SubSeq(s, 1, n) \in Seq(V) /\ Len(SubSeq(s, 1, n)) = n
        /\ s[n + 1] \in V
        /\ SubSeq(s, 1, n + 1) = Append(SubSeq(s, 1, n), s[n + 1])
    BY Shorter
  <2>2. SubSeq(s, 1, n + 1) = s
    BY SubSeqFull
  <2>3. SubSeq(s, 1, n) \in Q
    BY <1>2, <2>1
  <2> QED
    BY <2>1, <2>2, <2>3
<1>3. Nat \subseteq P
  <2> HIDE DEF P
  <2> QED
    BY <1>1, <1>2, NumberInduction
<1>4. \A s \in Seq(V) : Len(s) \in P
  BY <1>3, LenProperties
<1> QED
  BY <1>4

(* Two functions that go on alike are alike.                               *)
LEMMA GoOnAlike ==
    ASSUME NEW n \in Nat, NEW f, NEW g, f[0] = g[0],
           \A i \in 1 .. n : f[i - 1] = g[i - 1] => f[i] = g[i]
    PROVE  f[n] = g[n]
<1> DEFINE Same == {i \in Nat : i <= n => f[i] = g[i]}
<1>1. 0 \in Same
  OBVIOUS
<1>2. ASSUME NEW i \in Nat, i \in Same PROVE i + 1 \in Same
  <2>1. CASE i + 1 <= n
    <3>1. i + 1 \in 1 .. n /\ (i + 1) - 1 = i /\ f[i] = g[i]
      BY <1>2, <2>1
    <3> QED
      BY <3>1
  <2>2. CASE ~(i + 1 <= n)
    BY <2>2
  <2> QED
    BY <2>1, <2>2
<1>3. n \in Same
  <2> HIDE DEF Same
  <2> QED
    BY <1>1, <1>2, NumberInduction
<1> QED
  BY <1>3

(* g is what step makes of a sequence of V, element by element.            *)
Folds(g, V, W, base, step) ==
    /\ g \in [Seq(V) -> W] /\ g[<<>>] = base
    /\ \A s \in Seq(V), e \in V : g[Append(s, e)] = step[<<g[s], e>>]

LEMMA SequenceRecursion ==
    ASSUME NEW V, NEW W, NEW base \in W, NEW step \in [W \X V -> W]
    PROVE  \E g : Folds(g, V, W, base, step)
<1> DEFINE move == [p \in Nat \X [Seq(V) -> W] |->
                       [s \in Seq(V) |-> IF Len(s) = p[1] + 1
                                         THEN step[<<p[2][SubSeq(s, 1, p[1])], s[p[1] + 1]>>]
                                         ELSE p[2][s]]]
           none == [s \in Seq(V) |-> base]
<1>1. none \in [Seq(V) -> W]
  OBVIOUS
<1>2. ASSUME NEW n \in Nat, NEW h \in [Seq(V) -> W]
      PROVE  /\ move[<<n, h>>] \in [Seq(V) -> W]
             /\ \A s \in Seq(V) : move[<<n, h>>][s] = IF Len(s) = n + 1
                                     THEN step[<<h[SubSeq(s, 1, n)], s[n + 1]>>] ELSE h[s]
  <2>1. <<n, h>> \in Nat \X [Seq(V) -> W]
    OBVIOUS
  <2>2. move[<<n, h>>] = [s \in Seq(V) |-> IF Len(s) = n + 1
                                           THEN step[<<h[SubSeq(s, 1, n)], s[n + 1]>>] ELSE h[s]]
    BY <2>1
  <2>3. \A s \in Seq(V) : Len(s) = n + 1 => SubSeq(s, 1, n) \in Seq(V) /\ s[n + 1] \in V
    BY Shorter
  <2>4. \A s \in Seq(V) : Len(s) = n + 1 => step[<<h[SubSeq(s, 1, n)], s[n + 1]>>] \in W
    BY <2>3
  <2> HIDE DEF move
  <2> QED
    BY <2>2, <2>4
<1>3. move \in [Nat \X [Seq(V) -> W] -> [Seq(V) -> W]]
  <2>1. \A p \in Nat \X [Seq(V) -> W] : p = <<p[1], p[2]>> /\ p[1] \in Nat /\ p[2] \in [Seq(V) -> W]
    OBVIOUS
  <2>2. \A p \in Nat \X [Seq(V) -> W] : move[p] \in [Seq(V) -> W]
    <3> HIDE DEF move
    <3> QED
      BY <1>2, <2>1
  <2>3. DOMAIN move = Nat \X [Seq(V) -> W] /\ move = [p \in DOMAIN move |-> move[p]]
    OBVIOUS
  <2> HIDE DEF move
  <2> QED
    BY <2>2, <2>3
<1> HIDE DEF move, none
<1>4. PICK f : Iterates(f, [Seq(V) -> W], none, move)
  BY <1>1, <1>3, NumberRecursion
<1> DEFINE g == [s \in Seq(V) |-> f[Len(s)][s]]
<1>5. \A s \in Seq(V) : Len(s) \in Nat
  BY LenProperties
<1>6. g \in [Seq(V) -> W]
  BY <1>4, <1>5 DEF Iterates
<1>7. g[<<>>] = base
  BY <1>4, EmptySeq DEF Iterates, none
<1>8. ASSUME NEW s \in Seq(V), NEW e \in V PROVE g[Append(s, e)] = step[<<g[s], e>>]
  <2> DEFINE t == Append(s, e)
             n == Len(s)
  <2>1. t \in Seq(V) /\ Len(t) = n + 1 /\ t[n + 1] = e /\ n \in Nat
    BY <1>5, AppendProperties
  <2>2. SubSeq(t, 1, n) = s
    OBVIOUS
  <2>3. f[n] \in [Seq(V) -> W] /\ f[n + 1] = move[<<n, f[n]>>]
    BY <1>4, <2>1 DEF Iterates
  <2>4. f[n + 1][t] = step[<<f[n][s], e>>]
    <3> DEFINE h == f[n]
               k == f[n + 1]
    <3>1. n \in Nat /\ h \in [Seq(V) -> W] /\ k = move[<<n, h>>] /\ t \in Seq(V)
      BY <2>1, <2>3
    <3> HIDE DEF h, k, t, n
    <3>2. k[t] = IF Len(t) = n + 1 THEN step[<<h[SubSeq(t, 1, n)], t[n + 1]>>] ELSE h[t]
      BY <1>2, <3>1
    <3>3. k[t] = step[<<h[s], e>>]
      BY <2>1, <2>2, <3>2
    <3> QED
      BY <3>3 DEF h, k
  <2>5. g[t] = f[Len(t)][t] /\ g[s] = f[n][s]
    BY <2>1
  <2>6. g[t] = step[<<g[s], e>>]
    <3> HIDE DEF g, t, n
    <3> QED
      BY <2>1, <2>4, <2>5
  <2> QED
    BY <2>6
<1> HIDE DEF g
<1> QED
  BY <1>6, <1>7, <1>8 DEF Folds
-----------------------------------------------------------------------------
(***************************************************************************)
(* The recursive functions of Kept, Lines and GateLines exist: what they   *)
(* make of a sequence follows from what they make of all but its end.      *)
(***************************************************************************)
LEMMA Upto ==
    ASSUME NEW V, NEW s \in Seq(V), NEW i \in 1 .. Len(s)
    PROVE  /\ SubSeq(s, 1, i - 1) \in Seq(V) /\ s[i] \in V
           /\ SubSeq(s, 1, i) = Append(SubSeq(s, 1, i - 1), s[i])
<1>1. i - 1 \in Nat /\ i - 1 < Len(s) /\ (i - 1) + 1 = i
  BY LenProperties
<1> QED
  BY <1>1, Shorter

Keeps(g, V, S) ==
    /\ g \in [Seq(V) -> Seq(V)] /\ g[<<>>] = <<>>
    /\ \A s \in Seq(V), e \in V :
          g[Append(s, e)] = IF e \in S THEN Append(g[s], e) ELSE g[s]
    /\ \A s \in Seq(V) : Kept(s, S) = g[s]

LEMMA KeptFolds == ASSUME NEW V, NEW S PROVE \E g : Keeps(g, V, S)
<1> DEFINE step == [p \in Seq(V) \X V |-> IF p[2] \in S THEN Append(p[1], p[2]) ELSE p[1]]
<1>1. <<>> \in Seq(V) /\ step \in [Seq(V) \X V -> Seq(V)]
  BY EmptySeq, AppendProperties
<1>2. PICK g : Folds(g, V, Seq(V), <<>>, step)
  BY <1>1, SequenceRecursion
<1>3. /\ g \in [Seq(V) -> Seq(V)] /\ g[<<>>] = <<>>
      /\ \A s \in Seq(V), e \in V :
            g[Append(s, e)] = IF e \in S THEN Append(g[s], e) ELSE g[s]
  BY <1>2 DEF Folds
<1>4. ASSUME NEW s \in Seq(V) PROVE Kept(s, S) = g[s]
  <2> DEFINE Body(f) == [n \in 0 .. Len(s) |->
                            IF n = 0 THEN <<>>
                            ELSE IF s[n] \in S THEN Append(f[n - 1], s[n]) ELSE f[n - 1]]
             f0 == [n \in 0 .. Len(s) |-> g[SubSeq(s, 1, n)]]
             f1 == CHOOSE f : f = Body(f)
  <2>1. Len(s) \in Nat /\ SubSeq(s, 1, 0) = <<>> /\ SubSeq(s, 1, Len(s)) = s
    BY LenProperties, SubSeqEmpty, SubSeqFull
  <2>2. ASSUME NEW i \in 1 .. Len(s)
        PROVE  f0[i] = IF s[i] \in S THEN Append(f0[i - 1], s[i]) ELSE f0[i - 1]
    <3>1. i - 1 \in 0 .. Len(s) /\ i \in 0 .. Len(s)
      BY <2>1
    <3>2. f0[i] = g[SubSeq(s, 1, i)] /\ f0[i - 1] = g[SubSeq(s, 1, i - 1)]
      BY <3>1
    <3>3. /\ SubSeq(s, 1, i - 1) \in Seq(V) /\ s[i] \in V
          /\ SubSeq(s, 1, i) = Append(SubSeq(s, 1, i - 1), s[i])
      BY Upto
    <3>4. g[SubSeq(s, 1, i)] = IF s[i] \in S THEN Append(g[SubSeq(s, 1, i - 1)], s[i])
                              ELSE g[SubSeq(s, 1, i - 1)]
      BY <1>3, <3>3
    <3> HIDE DEF f0
    <3> QED
      BY <3>2, <3>4
  <2>3. f0[0] = <<>>
    <3>1. f0[0] = g[SubSeq(s, 1, 0)]
      BY <2>1
    <3> QED
      BY <1>3, <2>1, <3>1
  <2>4. f0 = Body(f0)
    <3>1. \A n \in 0 .. Len(s) : f0[n] = Body(f0)[n]
      <4> HIDE DEF f0
      <4> QED
        BY <2>1, <2>2, <2>3
    <3>2. f0 = [n \in 0 .. Len(s) |-> f0[n]]
      OBVIOUS
    <3>3. \A h : (\A n \in 0 .. Len(s) : h[n] = Body(f0)[n]) /\ h = [n \in 0 .. Len(s) |-> h[n]]
                  => h = Body(f0)
      <4> HIDE DEF f0
      <4> QED
        OBVIOUS
    <3> HIDE DEF f0, Body
    <3> QED
      BY <3>1, <3>2, <3>3
  <2>5. f1 = Body(f1)
    <3> HIDE DEF Body, f0
    <3> QED
      BY <2>4
  <2>6. Kept(s, S) = f1[Len(s)]
    BY DEF Kept
  <2> HIDE DEF f1
  <2>7. 0 \in 0 .. Len(s) /\ \A n \in 1 .. Len(s) : n \in 0 .. Len(s) /\ n # 0
    BY <2>1
  <2>8. /\ f1[0] = <<>>
        /\ \A i \in 1 .. Len(s) :
              f1[i] = IF s[i] \in S THEN Append(f1[i - 1], s[i]) ELSE f1[i - 1]
    BY <2>5, <2>7
  <2> HIDE DEF f0, Body
  <2>9. \A i \in 1 .. Len(s) : f1[i - 1] = f0[i - 1] => f1[i] = f0[i]
    BY <2>2, <2>8
  <2>10. f1[Len(s)] = f0[Len(s)]
    BY <2>1, <2>3, <2>8, <2>9, GoOnAlike
  <2>11. f0[Len(s)] = g[SubSeq(s, 1, Len(s))]
    BY <2>1 DEF f0
  <2> QED
    BY <2>1, <2>6, <2>10, <2>11
<1> QED
  BY <1>3, <1>4 DEF Keeps

LEMMA KeptGrows ==
    ASSUME NEW V, NEW S
    PROVE  /\ Kept(<<>>, S) = <<>>
           /\ \A s \in Seq(V) : Kept(s, S) \in Seq(V)
           /\ \A s \in Seq(V), e \in V :
                 Kept(Append(s, e), S) = IF e \in S THEN Append(Kept(s, S), e) ELSE Kept(s, S)
<1>1. PICK g : Keeps(g, V, S)
  BY KeptFolds
<1>2. <<>> \in Seq(V) /\ \A s \in Seq(V), e \in V : Append(s, e) \in Seq(V)
  BY EmptySeq, AppendProperties
<1> QED
  BY <1>1, <1>2 DEF Keeps

LEMMA KeptAppend ==
    ASSUME NEW V, NEW S, NEW s \in Seq(V), NEW e \in V
    PROVE  /\ Kept(s, S) \in Seq(V)
           /\ Kept(Append(s, e), S) = IF e \in S THEN Append(Kept(s, S), e) ELSE Kept(s, S)
<1>1. \A u \in Seq(V) : Kept(u, S) \in Seq(V)
  BY KeptGrows
<1>2. \A u \in Seq(V), x \in V :
         Kept(Append(u, x), S) = IF x \in S THEN Append(Kept(u, S), x) ELSE Kept(u, S)
  BY KeptGrows
<1> QED
  BY <1>1, <1>2

Extended(lines, token) ==
    IF token = "NL" THEN Append(lines, <<>>)
    ELSE [lines EXCEPT ![Len(lines)] = Append(@, token)]

Split == Seq(Seq(Tokens)) \ {<<>>}

LEMMA ExtendedSplit ==
    ASSUME NEW lines \in Split, NEW e \in Tokens
    PROVE  Extended(lines, e) \in Split
<1>1. <<>> \in Seq(Tokens) /\ lines \in Seq(Seq(Tokens))
  BY EmptySeq DEF Split
<1>2. CASE e = "NL"
  BY <1>1, <1>2, AppendProperties DEF Extended, Split
<1>3. CASE e # "NL"
  <2>1. Len(lines) \in 1 .. Len(lines)
    BY EmptySeq DEF Split
  <2>2. Append(lines[Len(lines)], e) \in Seq(Tokens)
    BY <1>1, <2>1, ElementOfSeq, AppendProperties
  <2>3. Extended(lines, e) = [lines EXCEPT ![Len(lines)] = Append(lines[Len(lines)], e)]
    BY <1>3 DEF Extended
  <2>4. Extended(lines, e) \in Seq(Seq(Tokens)) /\ Len(Extended(lines, e)) = Len(lines)
    <3> DEFINE n == Len(lines)
               x == Append(lines[n], e)
               T == Seq(Tokens)
    <3>1. lines \in Seq(T) /\ n \in 1 .. Len(lines) /\ x \in T
      BY <1>1, <2>1, <2>2
    <3> HIDE DEF n, x, T
    <3>2. [lines EXCEPT ![n] = x] \in Seq(T) /\ Len([lines EXCEPT ![n] = x]) = Len(lines)
      BY <3>1, ExceptSeq
    <3> QED
      BY <2>3, <3>2 DEF n, x, T
  <2>5. Len(lines) # 0
    BY <2>1
  <2> QED
    BY <2>4, <2>5, EmptySeq DEF Split
<1> QED
  BY <1>2, <1>3
Splits(g) ==
    /\ g \in [Seq(Tokens) -> Split] /\ g[<<>>] = << <<>> >>
    /\ \A s \in Seq(Tokens), e \in Tokens : g[Append(s, e)] = Extended(g[s], e)
    /\ \A s \in Seq(Tokens) : Lines(s) = g[s]

LEMMA LinesFold == \E g : Splits(g)
<1> DEFINE step == [p \in Split \X Tokens |-> Extended(p[1], p[2])]
<1>1. step \in [Split \X Tokens -> Split]
  BY ExtendedSplit
<1>2. << <<>> >> \in Split
  <2>1. <<>> \in Seq(Tokens)
    BY EmptySeq
  <2> DEFINE T == Seq(Tokens)
  <2> HIDE DEF T
  <2>2. \A t \in T : <<t>> \in Seq(T) /\ <<t>> # <<>>
    OBVIOUS
  <2> QED
    BY <2>1, <2>2 DEF Split, T
<1>3. PICK g : Folds(g, Tokens, Split, << <<>> >>, step)
  <2> HIDE DEF step
  <2> QED
    BY <1>1, <1>2, SequenceRecursion
<1>4. /\ g \in [Seq(Tokens) -> Split] /\ g[<<>>] = << <<>> >>
      /\ \A s \in Seq(Tokens), e \in Tokens : g[Append(s, e)] = Extended(g[s], e)
  <2>1. /\ g \in [Seq(Tokens) -> Split] /\ g[<<>>] = << <<>> >>
        /\ \A s \in Seq(Tokens), e \in Tokens : g[Append(s, e)] = step[<<g[s], e>>]
    <3> HIDE DEF step
    <3> QED
      BY <1>3 DEF Folds
  <2> QED
    BY <2>1
<1>5. ASSUME NEW s \in Seq(Tokens) PROVE Lines(s) = g[s]
  <2> DEFINE Body(f) == [n \in 0 .. Len(s) |->
                            IF n = 0 THEN << <<>> >>
                            ELSE LET lines == f[n - 1]
                                 IN  IF s[n] = "NL" THEN Append(lines, <<>>)
                                     ELSE [lines EXCEPT ![Len(lines)] = Append(@, s[n])]]
             Next1(f) == [n \in 0 .. Len(s) |->
                            IF n = 0 THEN << <<>> >> ELSE Extended(f[n - 1], s[n])]
             f0 == [n \in 0 .. Len(s) |-> g[SubSeq(s, 1, n)]]
             f1 == CHOOSE f : f = Body(f)
  <2>1. Len(s) \in Nat /\ SubSeq(s, 1, 0) = <<>> /\ SubSeq(s, 1, Len(s)) = s
    BY LenProperties, SubSeqEmpty, SubSeqFull
  <2>2. ASSUME NEW i \in 1 .. Len(s)
        PROVE  f0[i] = Extended(f0[i - 1], s[i])
    <3>1. i - 1 \in 0 .. Len(s) /\ i \in 0 .. Len(s)
      BY <2>1
    <3>2. f0[i] = g[SubSeq(s, 1, i)] /\ f0[i - 1] = g[SubSeq(s, 1, i - 1)]
      BY <3>1
    <3>3. /\ SubSeq(s, 1, i - 1) \in Seq(Tokens) /\ s[i] \in Tokens
          /\ SubSeq(s, 1, i) = Append(SubSeq(s, 1, i - 1), s[i])
      BY Upto
    <3>4. g[SubSeq(s, 1, i)] = Extended(g[SubSeq(s, 1, i - 1)], s[i])
      BY <1>4, <3>3
    <3> HIDE DEF f0
    <3> QED
      BY <3>2, <3>4
  <2>3. f0[0] = << <<>> >>
    <3>1. f0[0] = g[SubSeq(s, 1, 0)]
      BY <2>1
    <3> QED
      BY <1>4, <2>1, <3>1
  <2>4. \A f : Body(f) = Next1(f)
    BY DEF Extended
  <2>5. f0 = Next1(f0)
    <3>1. f0 = [n \in 0 .. Len(s) |-> f0[n]]
      OBVIOUS
    <3>2. \A n \in 0 .. Len(s) : n # 0 => n \in 1 .. Len(s)
      BY <2>1
    <3>3. \A n \in 0 .. Len(s) : f0[n] = IF n = 0 THEN << <<>> >> ELSE Extended(f0[n - 1], s[n])
      <4> HIDE DEF f0
      <4> QED
        BY <2>2, <2>3, <3>2
    <3> HIDE DEF f0
    <3> QED
      BY <3>1, <3>3
  <2>6. f1 = Next1(f1)
    <3>1. f1 = Body(f1)
      <4> HIDE DEF Body, Next1, f0
      <4> QED
        BY <2>4, <2>5
    <3> HIDE DEF Body, Next1, f1
    <3> QED
      BY <2>4, <3>1
  <2>7. Lines(s) = f1[Len(s)]
    BY DEF Lines
  <2> HIDE DEF f1
  <2>8. 0 \in 0 .. Len(s) /\ \A n \in 1 .. Len(s) : n \in 0 .. Len(s) /\ n # 0
    BY <2>1
  <2>9. /\ f1[0] = << <<>> >>
        /\ \A i \in 1 .. Len(s) : f1[i] = Extended(f1[i - 1], s[i])
    BY <2>6, <2>8
  <2> HIDE DEF f0, Body, Next1
  <2>10. \A i \in 1 .. Len(s) : f1[i - 1] = f0[i - 1] => f1[i] = f0[i]
    BY <2>2, <2>9
  <2>11. f1[Len(s)] = f0[Len(s)]
    BY <2>1, <2>3, <2>9, <2>10, GoOnAlike
  <2>12. f0[Len(s)] = g[SubSeq(s, 1, Len(s))]
    BY <2>1 DEF f0
  <2> QED
    BY <2>1, <2>7, <2>11, <2>12
<1> QED
  BY <1>4, <1>5 DEF Splits

LEMMA LinesGrow ==
    /\ Lines(<<>>) = << <<>> >>
    /\ \A s \in Seq(Tokens) : Lines(s) \in Split
    /\ \A s \in Seq(Tokens), e \in Tokens : Lines(Append(s, e)) = Extended(Lines(s), e)
<1>1. PICK g : Splits(g)
  BY LinesFold
<1>2. <<>> \in Seq(Tokens) /\ \A s \in Seq(Tokens), e \in Tokens : Append(s, e) \in Seq(Tokens)
  BY EmptySeq, AppendProperties
<1> QED
  BY <1>1, <1>2 DEF Splits

Joins(g) ==
    /\ g \in [Seq(Gates) -> Seq(Tokens)] /\ g[<<>>] = <<>>
    /\ \A gates \in Seq(Gates), e \in Gates : g[Append(gates, e)] = g[gates] \o GateLine(e)
    /\ \A gates \in Seq(Gates) : GateLines(gates) = g[gates]

(* A gate's line, without its end.                                         *)
Core(g) == <<g.name, ": ">> \o g.description \o <<"SGR", g.verdict, "SGR">>

Body(g) == Core(g) \o (IF g.reason = NoReason THEN <<>> ELSE <<g.reason>>)

LEMMA TokensAre ==
    /\ Words \subseteq Tokens /\ Verdicts \subseteq Tokens /\ Labels \subseteq Tokens
    /\ ToSet(Digits) \subseteq Tokens /\ {": ", "SGR", "NL", Marker} \subseteq Tokens
    /\ ToSet(Digits) = {"0", "1", "2", "3", "4", "5", "6", "7", "8", "9"}
    /\ {"SGR", "NL"} \cap Words = {}
<1>1. ToSet(Digits) = {"0", "1", "2", "3", "4", "5", "6", "7", "8", "9"}
  BY DEF ToSet, Digits
<1> QED
  BY <1>1, TriageAssumption DEF Tokens

LEMMA GateTyped ==
    ASSUME NEW g \in Gates
    PROVE  /\ g.name \in Words /\ g.name \notin {"NL", "SGR", ": "}
           /\ g.description \in Seq(Tokens) /\ Len(g.description) \in Nat
           /\ \A i \in 1 .. Len(g.description) : g.description[i] \notin {"NL", "SGR"}
           /\ g.verdict \in Verdicts
           /\ g.reason = NoReason \/ g.reason \in Words
           /\ g.reason \notin {"NL", "SGR"} \cup Verdicts
           /\ Core(g) \in Seq(Tokens) /\ Body(g) \in Seq(Tokens)
           /\ GateLine(g) \in Seq(Tokens)
           /\ GateLine(g) = Append(Body(g), "NL")
<1>1. /\ g.name \in Words \ {": "} /\ g.description \in Seq(Words)
      /\ g.verdict \in Verdicts
      /\ g.reason \in {NoReason} \cup (Words \ (Verdicts \cup ToSet(Digits)))
  BY DEF Gates
<1>2. g.name \in Words /\ g.name \notin {"NL", "SGR", ": "}
  BY <1>1, TokensAre
<1>3. /\ g.reason = NoReason \/ g.reason \in Words
      /\ g.reason \notin {"NL", "SGR"} \cup Verdicts
  <2>1. NoReason \notin {"NL", "SGR"} \cup Verdicts
    BY DEF NoReason, Verdicts
  <2> QED
    BY <1>1, <2>1, TokensAre
<1>4. \A i \in 1 .. Len(g.description) : g.description[i] \in Words
  BY <1>1, ElementOfSeq
<1>5. g.description \in Seq(Tokens) /\ Len(g.description) \in Nat
  BY <1>1, TokensAre, SeqMonotonic, LenProperties
<1>6. \A i \in 1 .. Len(g.description) : g.description[i] \notin {"NL", "SGR"}
  BY <1>4, TokensAre
<1> DEFINE A == <<g.name, ": ">>
           B == g.description
           C == <<"SGR", g.verdict, "SGR">>
           D == IF g.reason = NoReason THEN <<>> ELSE <<g.reason>>
<1>7. A \in Seq(Tokens) /\ B \in Seq(Tokens) /\ C \in Seq(Tokens) /\ D \in Seq(Tokens)
  <2>1. /\ g.name \in Tokens /\ ": " \in Tokens /\ "SGR" \in Tokens /\ g.verdict \in Tokens
        /\ g.reason # NoReason => g.reason \in Tokens
    BY <1>1, <1>2, <1>3, TokensAre
  <2>2. \A x, y, z \in Tokens : /\ <<x, y>> \in Seq(Tokens) /\ <<x, y, z>> \in Seq(Tokens)
                               /\ <<x>> \in Seq(Tokens) /\ <<>> \in Seq(Tokens)
    <3> DEFINE T == Tokens
    <3> HIDE DEF T
    <3>1. \A x, y, z \in T : /\ <<x, y>> \in Seq(T) /\ <<x, y, z>> \in Seq(T)
                            /\ <<x>> \in Seq(T) /\ <<>> \in Seq(T)
      OBVIOUS
    <3> QED
      BY <3>1 DEF T
  <2> QED
    BY <1>5, <2>1, <2>2
<1>8. Core(g) = A \o B \o C /\ Body(g) = A \o B \o C \o D /\ GateLine(g) = A \o B \o C \o D \o <<"NL">>
  BY DEF Core, Body, GateLine
<1> HIDE DEF A, B, C, D
<1>9. Core(g) \in Seq(Tokens) /\ Body(g) \in Seq(Tokens)
  BY <1>7, <1>8, ConcatProperties
<1>10. GateLine(g) = Append(Body(g), "NL") /\ "NL" \in Tokens
  BY <1>8, <1>9, AppendIsConcat, TokensAre
<1>11. GateLine(g) \in Seq(Tokens)
  BY <1>9, <1>10, AppendProperties
<1> QED
  BY <1>1, <1>2, <1>3, <1>5, <1>6, <1>9, <1>10, <1>11

LEMMA GateLinesFold == \E g : Joins(g)
<1> DEFINE T == Seq(Tokens)
           step == [p \in T \X Gates |-> p[1] \o GateLine(p[2])]
<1>1. step \in [T \X Gates -> T] /\ <<>> \in T
  BY GateTyped, ConcatProperties, EmptySeq
<1>2. PICK g : Folds(g, Gates, T, <<>>, step)
  <2> HIDE DEF step, T
  <2> QED
    BY <1>1, SequenceRecursion
<1>3. /\ g \in [Seq(Gates) -> T] /\ g[<<>>] = <<>>
      /\ \A s \in Seq(Gates), e \in Gates : g[Append(s, e)] = g[s] \o GateLine(e)
  <2>1. /\ g \in [Seq(Gates) -> T] /\ g[<<>>] = <<>>
        /\ \A s \in Seq(Gates), e \in Gates : g[Append(s, e)] = step[<<g[s], e>>]
    <3> HIDE DEF step, T
    <3> QED
      BY <1>2 DEF Folds
  <2> QED
    BY <2>1
<1>4. ASSUME NEW s \in Seq(Gates) PROVE GateLines(s) = g[s]
  <2> DEFINE Rule(f) == [n \in 0 .. Len(s) |-> IF n = 0 THEN <<>> ELSE f[n - 1] \o GateLine(s[n])]
             f0 == [n \in 0 .. Len(s) |-> g[SubSeq(s, 1, n)]]
             f1 == CHOOSE f : f = Rule(f)
  <2>1. Len(s) \in Nat /\ SubSeq(s, 1, 0) = <<>> /\ SubSeq(s, 1, Len(s)) = s
    BY LenProperties, SubSeqEmpty, SubSeqFull
  <2>2. ASSUME NEW i \in 1 .. Len(s)
        PROVE  f0[i] = f0[i - 1] \o GateLine(s[i])
    <3>1. i - 1 \in 0 .. Len(s) /\ i \in 0 .. Len(s)
      BY <2>1
    <3>2. f0[i] = g[SubSeq(s, 1, i)] /\ f0[i - 1] = g[SubSeq(s, 1, i - 1)]
      BY <3>1
    <3>3. /\ SubSeq(s, 1, i - 1) \in Seq(Gates) /\ s[i] \in Gates
          /\ SubSeq(s, 1, i) = Append(SubSeq(s, 1, i - 1), s[i])
      BY Upto
    <3>4. g[SubSeq(s, 1, i)] = g[SubSeq(s, 1, i - 1)] \o GateLine(s[i])
      BY <1>3, <3>3
    <3> HIDE DEF f0
    <3> QED
      BY <3>2, <3>4
  <2>3. f0[0] = <<>>
    <3>1. f0[0] = g[SubSeq(s, 1, 0)]
      BY <2>1
    <3> QED
      BY <1>3, <2>1, <3>1
  <2>4. f0 = Rule(f0)
    <3>1. f0 = [n \in 0 .. Len(s) |-> f0[n]]
      OBVIOUS
    <3>2. \A n \in 0 .. Len(s) : n # 0 => n \in 1 .. Len(s)
      BY <2>1
    <3>3. \A n \in 0 .. Len(s) : f0[n] = IF n = 0 THEN <<>> ELSE f0[n - 1] \o GateLine(s[n])
      <4> HIDE DEF f0
      <4> QED
        BY <2>2, <2>3, <3>2
    <3> HIDE DEF f0
    <3> QED
      BY <3>1, <3>3
  <2>5. f1 = Rule(f1)
    <3> HIDE DEF Rule, f0
    <3> QED
      BY <2>4
  <2>6. GateLines(s) = f1[Len(s)]
    BY DEF GateLines
  <2> HIDE DEF f1
  <2>7. 0 \in 0 .. Len(s) /\ \A n \in 1 .. Len(s) : n \in 0 .. Len(s) /\ n # 0
    BY <2>1
  <2>8. f1[0] = <<>> /\ \A i \in 1 .. Len(s) : f1[i] = f1[i - 1] \o GateLine(s[i])
    BY <2>5, <2>7
  <2> HIDE DEF f0, Rule
  <2>9. \A i \in 1 .. Len(s) : f1[i - 1] = f0[i - 1] => f1[i] = f0[i]
    BY <2>2, <2>8
  <2>10. f1[Len(s)] = f0[Len(s)]
    BY <2>1, <2>3, <2>8, <2>9, GoOnAlike
  <2>11. f0[Len(s)] = g[SubSeq(s, 1, Len(s))]
    BY <2>1 DEF f0
  <2> QED
    BY <2>1, <2>6, <2>10, <2>11
<1> QED
  BY <1>3, <1>4 DEF Joins

LEMMA GateLinesGrow ==
    /\ GateLines(<<>>) = <<>>
    /\ \A gates \in Seq(Gates) : GateLines(gates) \in Seq(Tokens)
    /\ \A gates \in Seq(Gates), g \in Gates :
          GateLines(Append(gates, g)) = GateLines(gates) \o GateLine(g)
<1>1. PICK g : Joins(g)
  BY GateLinesFold
<1>2. <<>> \in Seq(Gates) /\ \A s \in Seq(Gates), e \in Gates : Append(s, e) \in Seq(Gates)
  BY EmptySeq, AppendProperties
<1> QED
  BY <1>1, <1>2 DEF Joins
-----------------------------------------------------------------------------
(***************************************************************************)
(* What is kept of two sequences, one after the other.                     *)
(***************************************************************************)
LEMMA Grown ==
    ASSUME NEW V, NEW s \in Seq(V), NEW t \in Seq(V), NEW e \in V
    PROVE  s \o Append(t, e) = Append(s \o t, e) /\ s \o t \in Seq(V) /\ Append(t, e) \in Seq(V)
<1>1. s \o t \in Seq(V) /\ Append(t, e) = t \o <<e>> /\ <<e>> \in Seq(V)
  BY ConcatProperties, AppendIsConcat
<1>2. s \o (t \o <<e>>) = (s \o t) \o <<e>>
  BY <1>1, ConcatAssociative
<1>3. Append(s \o t, e) = (s \o t) \o <<e>>
  BY <1>1, AppendIsConcat
<1> QED
  BY <1>1, <1>2, <1>3, AppendProperties

LEMMA Joined ==
    ASSUME NEW V, NEW s \in Seq(V), NEW t \in Seq(V)
    PROVE  /\ s \o t \in Seq(V) /\ Len(s \o t) = Len(s) + Len(t)
           /\ Len(s) \in Nat /\ Len(t) \in Nat
           /\ \A i \in 1 .. Len(s) : (s \o t)[i] = s[i]
           /\ \A i \in 1 .. Len(t) : (s \o t)[Len(s) + i] = t[i]
           /\ \A i \in 1 .. Len(s) + Len(t) :
                 i \in 1 .. Len(s) \/ (i - Len(s) \in 1 .. Len(t) /\ (s \o t)[i] = t[i - Len(s)])
<1> DEFINE n == Len(s)
           m == Len(t)
<1>1. n \in Nat /\ m \in Nat
  BY LenProperties
<1>2. /\ s \o t \in Seq(V) /\ Len(s \o t) = n + m
      /\ \A i \in 1 .. n + m : (s \o t)[i] = IF i <= n THEN s[i] ELSE t[i - n]
  BY ConcatProperties
<1> HIDE DEF n, m
<1>3. \A i \in 1 .. n : (s \o t)[i] = s[i]
  <2>1. \A i \in 1 .. n : i \in 1 .. n + m /\ i <= n
    BY <1>1
  <2> QED
    BY <1>2, <2>1
<1>4. \A i \in 1 .. m : (s \o t)[n + i] = t[i]
  <2>1. \A i \in 1 .. m : n + i \in 1 .. n + m /\ ~ (n + i <= n) /\ (n + i) - n = i
    BY <1>1
  <2> QED
    BY <1>2, <2>1
<1>5. \A i \in 1 .. n + m : i \in 1 .. n \/ (i - n \in 1 .. m /\ (s \o t)[i] = t[i - n])
  <2>1. \A i \in 1 .. n + m : i \in 1 .. n \/ (i - n \in 1 .. m /\ ~ (i <= n))
    BY <1>1
  <2> QED
    BY <1>2, <2>1
<1> QED
  BY <1>1, <1>2, <1>3, <1>4, <1>5 DEF n, m

LEMMA KeptTogether ==
    ASSUME NEW V, NEW S, NEW s \in Seq(V), NEW t \in Seq(V)
    PROVE  Kept(s \o t, S) = Kept(s, S) \o Kept(t, S)
<1> DEFINE Q == {u \in Seq(V) : Kept(s \o u, S) = Kept(s, S) \o Kept(u, S)}
<1>1. \A u \in Seq(V) : Kept(u, S) \in Seq(V)
  BY KeptGrows
<1>2. <<>> \in Q
  BY <1>1, KeptGrows, ConcatEmptySeq, EmptySeq
<1>3. ASSUME NEW u \in Seq(V), NEW e \in V, u \in Q PROVE Append(u, e) \in Q
  <2>1. s \o Append(u, e) = Append(s \o u, e) /\ s \o u \in Seq(V) /\ Append(u, e) \in Seq(V)
    BY Grown
  <2>2. Kept(s, S) \in Seq(V) /\ Kept(u, S) \in Seq(V)
    BY <1>1
  <2>3. Kept(s, S) \o Append(Kept(u, S), e) = Append(Kept(s, S) \o Kept(u, S), e)
    BY <2>2, Grown
  <2>4. Kept(Append(u, e), S) = IF e \in S THEN Append(Kept(u, S), e) ELSE Kept(u, S)
    BY KeptAppend
  <2>5. Kept(Append(s \o u, e), S) = IF e \in S THEN Append(Kept(s \o u, S), e) ELSE Kept(s \o u, S)
    <3> DEFINE w == s \o u
    <3>1. w \in Seq(V)
      BY <2>1
    <3> HIDE DEF w
    <3>2. Kept(Append(w, e), S) = IF e \in S THEN Append(Kept(w, S), e) ELSE Kept(w, S)
      BY <3>1, KeptAppend
    <3> QED
      BY <3>2 DEF w
  <2>6. Kept(s \o u, S) = Kept(s, S) \o Kept(u, S)
    BY <1>3
  <2>7. Kept(s \o Append(u, e), S) = Kept(s, S) \o Kept(Append(u, e), S)
    <3>1. CASE e \in S
      BY <2>1, <2>3, <2>4, <2>5, <2>6, <3>1
    <3>2. CASE e \notin S
      BY <2>1, <2>4, <2>5, <2>6, <3>2
    <3> QED
      BY <3>1, <3>2
  <2> QED
    BY <2>1, <2>7
<1>4. Seq(V) \subseteq Q
  <2> HIDE DEF Q
  <2> QED
    BY <1>2, <1>3, SequenceInduction
<1> QED
  BY <1>4

LEMMA KeptAlike ==
    ASSUME NEW V, NEW S, NEW T, NEW s \in Seq(V), \A i \in 1 .. Len(s) : s[i] \in S <=> s[i] \in T
    PROVE  Kept(s, S) = Kept(s, T)
<1> DEFINE Alike(u) == \A i \in 1 .. Len(u) : u[i] \in S <=> u[i] \in T
           Q == {u \in Seq(V) : Alike(u) => Kept(u, S) = Kept(u, T)}
<1>1. <<>> \in Q
  BY KeptGrows, EmptySeq
<1>2. ASSUME NEW u \in Seq(V), NEW e \in V, u \in Q PROVE Append(u, e) \in Q
  <2> SUFFICES ASSUME Alike(Append(u, e)) PROVE Kept(Append(u, e), S) = Kept(Append(u, e), T)
    BY AppendProperties
  <2>1. Alike(u) /\ (e \in S <=> e \in T)
    <3>1. /\ Len(u) \in Nat /\ Len(Append(u, e)) = Len(u) + 1 /\ Append(u, e)[Len(u) + 1] = e
          /\ \A i \in 1 .. Len(u) : Append(u, e)[i] = u[i] /\ i \in 1 .. Len(u) + 1
      BY LenProperties, AppendProperties
    <3> QED
      BY <3>1
  <2>2. Kept(Append(u, e), S) = IF e \in S THEN Append(Kept(u, S), e) ELSE Kept(u, S)
    BY KeptAppend
  <2>3. Kept(Append(u, e), T) = IF e \in T THEN Append(Kept(u, T), e) ELSE Kept(u, T)
    BY KeptAppend
  <2> QED
    BY <1>2, <2>1, <2>2, <2>3
<1>3. Seq(V) \subseteq Q
  <2> HIDE DEF Q
  <2> QED
    BY <1>1, <1>2, SequenceInduction
<1> QED
  BY <1>3

LEMMA KeptWhole ==
    ASSUME NEW V, NEW S, NEW s \in Seq(V), \A i \in 1 .. Len(s) : s[i] \in S
    PROVE  Kept(s, S) = s
<1> DEFINE Inside(u) == \A i \in 1 .. Len(u) : u[i] \in S
           Q == {u \in Seq(V) : Inside(u) => Kept(u, S) = u}
<1>1. <<>> \in Q
  BY KeptGrows, EmptySeq
<1>2. ASSUME NEW u \in Seq(V), NEW e \in V, u \in Q PROVE Append(u, e) \in Q
  <2> SUFFICES ASSUME Inside(Append(u, e)) PROVE Kept(Append(u, e), S) = Append(u, e)
    BY AppendProperties
  <2>1. Inside(u) /\ e \in S
    <3>1. /\ Len(u) \in Nat /\ Len(Append(u, e)) = Len(u) + 1 /\ Append(u, e)[Len(u) + 1] = e
          /\ \A i \in 1 .. Len(u) : Append(u, e)[i] = u[i] /\ i \in 1 .. Len(u) + 1
      BY LenProperties, AppendProperties
    <3> QED
      BY <3>1
  <2>2. Kept(Append(u, e), S) = IF e \in S THEN Append(Kept(u, S), e) ELSE Kept(u, S)
    BY KeptAppend
  <2> QED
    BY <1>2, <2>1, <2>2
<1>3. Seq(V) \subseteq Q
  <2> HIDE DEF Q
  <2> QED
    BY <1>1, <1>2, SequenceInduction
<1> QED
  BY <1>3

(* The members of what is kept are those of the sequence that are in S.    *)
LEMMA KeptMembers ==
    ASSUME NEW V, NEW S, NEW s \in Seq(V), NEW x
    PROVE  (\E i \in 1 .. Len(Kept(s, S)) : Kept(s, S)[i] = x)
           <=> x \in S /\ \E i \in 1 .. Len(s) : s[i] = x
<1> DEFINE In(u) == \E i \in 1 .. Len(u) : u[i] = x
           Q == {u \in Seq(V) : In(Kept(u, S)) <=> x \in S /\ In(u)}
<1>1. <<>> \in Q
  BY KeptGrows, EmptySeq
<1>2. ASSUME NEW u \in Seq(V), NEW e \in V PROVE In(Append(u, e)) <=> x = e \/ In(u)
  <2>1. /\ Len(u) \in Nat /\ Len(Append(u, e)) = Len(u) + 1 /\ Append(u, e)[Len(u) + 1] = e
        /\ \A i \in 1 .. Len(u) : Append(u, e)[i] = u[i] /\ i \in 1 .. Len(u) + 1
        /\ Len(u) + 1 \in 1 .. Len(u) + 1
        /\ \A i \in 1 .. Len(u) + 1 : i \in 1 .. Len(u) \/ i = Len(u) + 1
    BY LenProperties, AppendProperties
  <2> QED
    BY <2>1
<1>3. ASSUME NEW u \in Seq(V), NEW e \in V, u \in Q PROVE Append(u, e) \in Q
  <2>1. Kept(Append(u, e), S) = IF e \in S THEN Append(Kept(u, S), e) ELSE Kept(u, S)
    BY KeptAppend
  <2>2. Kept(u, S) \in Seq(V) /\ Append(u, e) \in Seq(V)
    BY KeptGrows, AppendProperties
  <2>3. In(Append(Kept(u, S), e)) <=> x = e \/ In(Kept(u, S))
    BY <1>2, <2>2
  <2>4. In(Append(u, e)) <=> x = e \/ In(u)
    BY <1>2
  <2>5. In(Kept(u, S)) <=> x \in S /\ In(u)
    BY <1>3
  <2> HIDE DEF In
  <2> QED
    BY <2>1, <2>2, <2>3, <2>4, <2>5
<1>4. Seq(V) \subseteq Q
  <2> HIDE DEF Q
  <2> QED
    BY <1>1, <1>3, SequenceInduction
<1> QED
  BY <1>4

(***************************************************************************)
(* What is written after the end of a line goes on new lines.              *)
(***************************************************************************)
Closed(x) == x = <<>> \/ x[Len(x)] = "NL"

LEMMA LinesApart ==
    ASSUME NEW x \in Seq(Tokens), NEW before \in Seq(Seq(Tokens)), Lines(x) = Append(before, <<>>),
           NEW y \in Seq(Tokens)
    PROVE  Lines(x \o y) = before \o Lines(y)
<1> DEFINE T == Seq(Tokens)
           Q == {u \in T : Lines(x \o u) = before \o Lines(u)}
<1>1. <<>> \in Q
  <2>1. before \o << <<>> >> = Append(before, <<>>) /\ <<>> \in T
    <3> HIDE DEF T
    <3>1. \A t \in T : before \o <<t>> = Append(before, t)
      BY AppendIsConcat DEF T
    <3>2. <<>> \in T
      BY EmptySeq DEF T
    <3> QED
      BY <3>1, <3>2
  <2> QED
    BY <2>1, LinesGrow, ConcatEmptySeq
<1>2. ASSUME NEW u \in T, NEW e \in Tokens, u \in Q PROVE Append(u, e) \in Q
  <2>1. x \o Append(u, e) = Append(x \o u, e) /\ x \o u \in T /\ Append(u, e) \in T
    BY Grown
  <2>2. /\ Lines(Append(u, e)) = Extended(Lines(u), e)
        /\ Lines(x \o Append(u, e)) = Extended(before \o Lines(u), e)
    BY <1>2, <2>1, LinesGrow
  <2>3. Extended(before \o Lines(u), e) = before \o Extended(Lines(u), e)
    <3> DEFINE l == Lines(u)
               n == Len(l)
               b == Len(before)
    <3>1. l \in Seq(T) /\ l # <<>> /\ n \in 1 .. n /\ b \in Nat /\ before \in Seq(T)
          /\ <<>> \in T /\ \A i \in 1 .. n : l[i] \in T
      <4>1. l \in Split
        BY LinesGrow
      <4>2. l \in Seq(T) /\ l # <<>>
        BY <4>1 DEF Split
      <4> HIDE DEF l
      <4> QED
        BY <4>2, EmptySeq, LenProperties, ElementOfSeq
    <3> SUFFICES Extended(before \o l, e) = before \o Extended(l, e)
      OBVIOUS
    <3> HIDE DEF l, n, b, T
    <3>2. CASE e = "NL"
      <4>1. before \o Append(l, <<>>) = Append(before \o l, <<>>)
        BY <3>1, Grown
      <4> QED
        BY <3>2, <4>1 DEF Extended
    <3>3. CASE e # "NL"
      <4> DEFINE z == Append(l[n], e)
                 w == [l EXCEPT ![n] = z]
                 v == [(before \o l) EXCEPT ![b + n] = z]
      <4>1. z \in T
        BY <3>1, AppendProperties DEF T
      <4>2. w \in Seq(T) /\ Len(w) = n /\ \A j \in 1 .. n : w[j] = IF j = n THEN z ELSE l[j]
        <5> HIDE DEF z
        <5> QED
          BY <3>1, <4>1, ExceptSeq DEF n
      <4>3. /\ before \o l \in Seq(T) /\ Len(before \o l) = b + n
            /\ \A i \in 1 .. b + n : (before \o l)[i] = IF i <= b THEN before[i] ELSE l[i - b]
        BY <3>1, ConcatProperties DEF b, n
      <4>4. b + n \in 1 .. b + n /\ (b + n) - b = n /\ ~ (b + n <= b)
        BY <3>1
      <4>5. (before \o l)[b + n] = l[n]
        BY <4>3, <4>4
      <4>6. /\ v \in Seq(T) /\ Len(v) = b + n
            /\ \A j \in 1 .. b + n : v[j] = IF j = b + n THEN z ELSE (before \o l)[j]
        <5> DEFINE a == before \o l
                   k == b + n
        <5>1. a \in Seq(T) /\ k \in 1 .. Len(a) /\ k = Len(a) /\ z \in T
          BY <4>1, <4>3, <4>4
        <5> HIDE DEF z, a, k
        <5>2. /\ [a EXCEPT ![k] = z] \in Seq(T) /\ Len([a EXCEPT ![k] = z]) = Len(a)
              /\ \A j \in 1 .. Len(a) : [a EXCEPT ![k] = z][j] = IF j = k THEN z ELSE a[j]
          BY <5>1, ExceptSeq
        <5> QED
          BY <5>1, <5>2 DEF a, k
      <4>7. /\ before \o w \in Seq(T) /\ Len(before \o w) = b + n
            /\ \A i \in 1 .. b + n : (before \o w)[i] = IF i <= b THEN before[i] ELSE w[i - b]
        <5> HIDE DEF w
        <5> QED
          BY <3>1, <4>2, ConcatProperties DEF b
      <4>8. Extended(before \o l, e) = v /\ Extended(l, e) = w
        BY <3>3, <4>3, <4>5 DEF Extended, n
      <4> HIDE DEF v, w, z
      <4>9. \A j \in 1 .. b + n : v[j] = (before \o w)[j]
        <5> TAKE j \in 1 .. b + n
        <5>1. CASE j <= b
          <6>1. j # b + n /\ j \in Nat
            BY <3>1, <5>1
          <6> QED
            BY <4>3, <4>6, <4>7, <5>1, <6>1
        <5>2. CASE ~(j <= b)
          <6>1. j - b \in 1 .. n /\ (j - b = n <=> j = b + n)
            BY <3>1, <5>2
          <6> QED
            BY <4>2, <4>3, <4>6, <4>7, <5>2, <6>1
        <5> QED
          BY <5>1, <5>2
      <4>10. v = before \o w
        BY <4>6, <4>7, <4>9, SeqEqual
      <4> HIDE DEF b, n
      <4> QED
        BY <4>8, <4>10
    <3> QED
      BY <3>2, <3>3
  <2> QED
    BY <2>1, <2>2, <2>3
<1>3. T \subseteq Q
  <2> HIDE DEF Q
  <2> QED
    BY <1>1, <1>2, SequenceInduction
<1> QED
  BY <1>3
-----------------------------------------------------------------------------
(***************************************************************************)
(* The line of a gate: where its tokens are, in the log and without the    *)
(* escape sequences.                                                       *)
(***************************************************************************)
LEMMA SmallSequences ==
    ASSUME NEW V, NEW x \in V, NEW y \in V, NEW z \in V
    PROVE  /\ <<x>> \in Seq(V) /\ <<x, y>> \in Seq(V) /\ <<x, y, z>> \in Seq(V)
           /\ <<x>> = Append(<<>>, x) /\ <<x, y>> = Append(<<x>>, y)
           /\ <<x, y, z>> = Append(<<x, y>>, z) /\ <<>> \in Seq(V)
OBVIOUS

LEMMA CoreShape ==
    ASSUME NEW g \in Gates
    PROVE  LET d == Len(g.description)
               c == Core(g)
           IN  /\ d \in Nat /\ c \in Seq(Tokens) /\ Len(c) = 5 + d
               /\ c[1] = g.name /\ c[2] = ": "
               /\ \A i \in 1 .. d : c[2 + i] = g.description[i]
               /\ c[3 + d] = "SGR" /\ c[4 + d] = g.verdict /\ c[5 + d] = "SGR"
<1> DEFINE A == <<g.name, ": ">>
           B == g.description
           C == <<"SGR", g.verdict, "SGR">>
           d == Len(B)
<1>1. B \in Seq(Tokens) /\ d \in Nat /\ Core(g) \in Seq(Tokens)
  BY GateTyped
<1>2. /\ A \in Seq(Tokens) /\ Len(A) = 2 /\ A[1] = g.name /\ A[2] = ": "
      /\ C \in Seq(Tokens) /\ Len(C) = 3 /\ C[1] = "SGR" /\ C[2] = g.verdict /\ C[3] = "SGR"
  <2>1. g.name \in Tokens /\ ": " \in Tokens /\ "SGR" \in Tokens /\ g.verdict \in Tokens
    BY GateTyped, TokensAre
  <2>2. A \in Seq(Tokens) /\ C \in Seq(Tokens)
    BY <2>1, SmallSequences
  <2> QED
    BY <2>2
<1>3. Core(g) = A \o B \o C
  BY DEF Core
<1> HIDE DEF A, C
<1> DEFINE D == A \o B
<1>4. /\ D \in Seq(Tokens) /\ Len(D) = 2 + d
      /\ \A i \in 1 .. 2 : D[i] = A[i]
      /\ \A i \in 1 .. d : D[2 + i] = B[i]
  <2> HIDE DEF B
  <2>1. /\ D \in Seq(Tokens) /\ Len(D) = Len(A) + Len(B)
        /\ \A i \in 1 .. Len(A) : D[i] = A[i]
        /\ \A i \in 1 .. Len(B) : D[Len(A) + i] = B[i]
    <3>1. A \in Seq(Tokens) /\ B \in Seq(Tokens)
      BY <1>1, <1>2
    <3> QED
      BY <3>1, Joined
  <2> HIDE DEF D
  <2> QED
    BY <1>2, <2>1
<1> HIDE DEF D
<1>5. /\ Len(D \o C) = (2 + d) + 3
      /\ \A i \in 1 .. 2 + d : (D \o C)[i] = D[i]
      /\ \A i \in 1 .. 3 : (D \o C)[(2 + d) + i] = C[i]
  <2> DEFINE E == D \o C
  <2>1. /\ Len(E) = Len(D) + Len(C)
        /\ \A i \in 1 .. Len(D) : E[i] = D[i]
        /\ \A i \in 1 .. Len(C) : E[Len(D) + i] = C[i]
    <3>1. D \in Seq(Tokens) /\ C \in Seq(Tokens)
      BY <1>2, <1>4
    <3> QED
      BY <3>1, Joined
  <2> HIDE DEF E
  <2>2. /\ Len(E) = (2 + d) + 3
        /\ \A i \in 1 .. 2 + d : E[i] = D[i]
        /\ \A i \in 1 .. 3 : E[(2 + d) + i] = C[i]
    BY <1>2, <1>4, <2>1
  <2> QED
    BY <2>2 DEF E
<1>6. Core(g) = D \o C
  BY <1>3 DEF D
<1> HIDE DEF B
<1>7. /\ 1 \in 1 .. 2 + d /\ 2 \in 1 .. 2 + d /\ 1 \in 1 .. 2 /\ 2 \in 1 .. 2
      /\ \A i \in 1 .. d : 2 + i \in 1 .. 2 + d
      /\ (2 + d) + 1 = 3 + d /\ (2 + d) + 2 = 4 + d /\ (2 + d) + 3 = 5 + d
      /\ 1 \in 1 .. 3 /\ 2 \in 1 .. 3 /\ 3 \in 1 .. 3
  BY <1>1
<1>8. /\ Core(g)[1] = g.name /\ Core(g)[2] = ": " /\ \A i \in 1 .. d : Core(g)[2 + i] = B[i]
  BY <1>2, <1>4, <1>5, <1>6, <1>7
<1>9. Core(g)[3 + d] = "SGR" /\ Core(g)[4 + d] = g.verdict /\ Core(g)[5 + d] = "SGR"
  BY <1>2, <1>5, <1>6, <1>7
<1> QED
  BY <1>1, <1>5, <1>6, <1>7, <1>8, <1>9 DEF B

LEMMA BodyShape ==
    ASSUME NEW g \in Gates
    PROVE  LET d == Len(g.description)
               b == Body(g)
           IN  /\ b \in Seq(Tokens)
               /\ Len(b) = IF g.reason = NoReason THEN 5 + d ELSE 6 + d
               /\ \A i \in 1 .. 5 + d : b[i] = Core(g)[i]
               /\ g.reason # NoReason => b[6 + d] = g.reason
               /\ g.reason = NoReason => b = Core(g)
<1> DEFINE d == Len(g.description)
           c == Core(g)
<1>1. d \in Nat /\ c \in Seq(Tokens) /\ Len(c) = 5 + d
  BY CoreShape
<1>2. Body(g) \in Seq(Tokens)
  BY GateTyped
<1>3. CASE g.reason = NoReason
  <2>1. Body(g) = c
    BY <1>1, <1>3, ConcatEmptySeq DEF Body
  <2> QED
    BY <1>1, <1>2, <1>3, <2>1
<1>4. CASE g.reason # NoReason
  <2>1. g.reason \in Tokens
    BY <1>4, GateTyped, TokensAre
  <2>2. Body(g) = Append(c, g.reason)
    BY <1>1, <1>4, <2>1, AppendIsConcat DEF Body
  <2>3. /\ Len(Body(g)) = Len(c) + 1 /\ Body(g)[Len(c) + 1] = g.reason
        /\ \A i \in 1 .. Len(c) : Body(g)[i] = c[i]
    <3> HIDE DEF c
    <3> QED
      BY <1>1, <2>1, <2>2, AppendProperties
  <2>4. Len(c) + 1 = 6 + d
    BY <1>1
  <2> QED
    BY <1>1, <1>2, <1>4, <2>3, <2>4
<1> QED
  BY <1>3, <1>4

(* Escape sequences are on both sides of the verdict, and nowhere else.    *)
LEMMA BodyTokens ==
    ASSUME NEW g \in Gates
    PROVE  LET d == Len(g.description)
               b == Body(g)
           IN  \A i \in 1 .. Len(b) : /\ b[i] # "NL"
                                      /\ b[i] = "SGR" <=> i \in {3 + d, 5 + d}
<1> DEFINE d == Len(g.description)
           b == Body(g)
<1> SUFFICES ASSUME NEW i \in 1 .. Len(b)
             PROVE  /\ b[i] # "NL"
                    /\ b[i] = "SGR" <=> i \in {3 + d, 5 + d}
  OBVIOUS
<1>1. /\ d \in Nat /\ b[1] = g.name /\ b[2] = ": " /\ \A j \in 1 .. d : b[2 + j] = g.description[j]
      /\ b[3 + d] = "SGR" /\ b[4 + d] = g.verdict /\ b[5 + d] = "SGR"
      /\ Len(b) = IF g.reason = NoReason THEN 5 + d ELSE 6 + d
      /\ g.reason # NoReason => b[6 + d] = g.reason
  <2>1. d \in Nat
    BY CoreShape
  <2>2. /\ 1 \in 1 .. 5 + d /\ 2 \in 1 .. 5 + d /\ 3 + d \in 1 .. 5 + d /\ 4 + d \in 1 .. 5 + d
        /\ 5 + d \in 1 .. 5 + d /\ \A j \in 1 .. d : 2 + j \in 1 .. 5 + d
    BY <2>1
  <2> QED
    BY <2>2, CoreShape, BodyShape
<1>2. /\ g.name \notin {"NL", "SGR", ": "}
      /\ \A j \in 1 .. d : g.description[j] \notin {"NL", "SGR"}
      /\ g.verdict \in Verdicts /\ g.reason \notin {"NL", "SGR"}
  BY GateTyped
<1>3. {": ", "SGR"} \cup Verdicts \subseteq {": ", "SGR", "PASS", "WARN", "FAIL"}
  BY DEF Verdicts
<1>4. i \in Nat /\ (i \in {1, 2, 3 + d, 4 + d, 5 + d} \/ i - 2 \in 1 .. d \/ (i = 6 + d /\ g.reason # NoReason))
  <2> DEFINE n == Len(b)
  <2>1. n = 5 + d \/ (n = 6 + d /\ g.reason # NoReason)
    BY <1>1
  <2>2. i \in 1 .. n /\ d \in Nat
    BY <1>1
  <2> HIDE DEF b, d, n
  <2> QED
    BY <2>1, <2>2
<1> HIDE DEF b, d
<1>5. CASE i = 1
  BY <1>1, <1>2, <1>5
<1>6. CASE i \in {2, 3 + d, 4 + d, 5 + d}
  <2>1. b[i] # "NL"
    BY <1>1, <1>2, <1>3, <1>6
  <2>2. b[i] = "SGR" <=> i \in {3 + d, 5 + d}
    <3>1. g.verdict # "SGR"
      BY <1>2 DEF Verdicts
    <3> QED
      BY <1>1, <1>6, <3>1
  <2> QED
    BY <2>1, <2>2
<1>7. CASE i - 2 \in 1 .. d
  <2>1. i = 2 + (i - 2) /\ i \notin {1, 3 + d, 5 + d}
    <3>1. d \in Nat /\ i \in Nat /\ i - 2 \in 1 .. d
      BY <1>1, <1>4, <1>7
    <3> QED
      BY <3>1
  <2>2. b[2 + (i - 2)] = g.description[i - 2]
    BY <1>1, <1>7
  <2> QED
    BY <1>2, <1>7, <2>1, <2>2
<1>8. CASE i = 6 + d /\ g.reason # NoReason
  BY <1>1, <1>2, <1>8
<1> QED
  BY <1>4, <1>5, <1>6, <1>7, <1>8 DEF b, d

(* The verdict is found once both its escape sequences are there.          *)
LEMMA VerdictFound ==
    ASSUME NEW g \in Gates, NEW k \in 0 .. Len(Body(g)), NEW word
    PROVE  LET y == SubSeq(Body(g), 1, k)
           IN  /\ y \in Seq(Tokens)
               /\ \A i \in 1 .. Len(y) : y[i] # "NL"
               /\ tokenRE(y, word) <=> word = g.verdict /\ k >= 5 + Len(g.description)
               /\ tokenRE(y, word) => y = Core(g) \/ y = Body(g)
<1> DEFINE d == Len(g.description)
           b == Body(g)
           y == SubSeq(b, 1, k)
<1>1. /\ d \in Nat /\ b \in Seq(Tokens) /\ Len(b) \in Nat /\ Core(g) \in Seq(Tokens)
      /\ Len(Core(g)) = 5 + d /\ Len(b) = IF g.reason = NoReason THEN 5 + d ELSE 6 + d
      /\ \A i \in 1 .. 5 + d : b[i] = Core(g)[i]
  BY CoreShape, BodyShape, LenProperties
<1>2. \A i \in 1 .. Len(b) : b[i] \in Tokens /\ b[i] # "NL" /\ (b[i] = "SGR" <=> i \in {3 + d, 5 + d})
  BY <1>1, BodyTokens, ElementOfSeq
<1>3. b[3 + d] = "SGR" /\ b[4 + d] = g.verdict /\ b[5 + d] = "SGR"
  <2>1. 3 + d \in 1 .. 5 + d /\ 4 + d \in 1 .. 5 + d /\ 5 + d \in 1 .. 5 + d
    BY <1>1
  <2> QED
    BY <1>1, <2>1, CoreShape
<1> HIDE DEF b
<1>4. y \in Seq(Tokens) /\ Len(y) = k /\ \A i \in 1 .. k : y[i] = b[i]
  <2>1. k \in Int /\ 1 \in Int /\ \A i \in 1 .. k : b[i] \in Tokens
    BY <1>1, <1>2 DEF b
  <2>2. /\ y \in Seq(Tokens) /\ Len(y) = (IF 1 <= k THEN k - 1 + 1 ELSE 0)
        /\ \A i \in 1 .. k - 1 + 1 : y[i] = b[1 + i - 1]
    BY <2>1, SubSeqProperties
  <2> QED
    BY <2>1, <2>2
<1>5. \A i \in 1 .. k : i \in 1 .. Len(b)
  BY <1>1 DEF b
<1> HIDE DEF y
<1>6. ASSUME NEW i \in 1 .. k - 2
      PROVE  SubSeq(y, i, i + 2) = <<"SGR", word, "SGR">>
             <=> y[i] = "SGR" /\ y[i + 1] = word /\ y[i + 2] = "SGR"
  <2>1. i \in 1 .. k /\ i + 1 \in 1 .. k /\ i + 2 \in 1 .. k
    OBVIOUS
  <2>2. SubSeq(y, i, i + 2) = <<y[i], y[i + 1], y[i + 2]>>
    <3> DEFINE x == SubSeq(y, i, i + 2)
    <3>1. \A j \in i .. i + 2 : y[j] \in Tokens
      BY <1>4, <2>1, ElementOfSeq
    <3>2. /\ x \in Seq(Tokens) /\ Len(x) = (IF i <= i + 2 THEN (i + 2) - i + 1 ELSE 0)
          /\ \A j \in 1 .. (i + 2) - i + 1 : x[j] = y[i + j - 1]
      BY <3>1, SubSeqProperties
    <3> HIDE DEF x
    <3>3. Len(x) = 3 /\ x[1] = y[i] /\ x[2] = y[i + 1] /\ x[3] = y[i + 2]
      BY <3>2
    <3>4. x = <<x[1], x[2], x[3]>>
      BY <3>2, <3>3
    <3> QED
      BY <3>3, <3>4 DEF x
  <2> QED
    BY <2>2
<1>7. tokenRE(y, word) <=> \E i \in 1 .. k - 2 : y[i] = "SGR" /\ y[i + 1] = word /\ y[i + 2] = "SGR"
  BY <1>4, <1>6 DEF tokenRE
<1>8. tokenRE(y, word) <=> word = g.verdict /\ k >= 5 + d
  <2>1. ASSUME NEW i \in 1 .. k - 2, y[i] = "SGR", y[i + 1] = word, y[i + 2] = "SGR"
        PROVE  word = g.verdict /\ k >= 5 + d
    <3>1. i \in 1 .. k /\ i + 1 \in 1 .. k /\ i + 2 \in 1 .. k
      OBVIOUS
    <3>2. i \in {3 + d, 5 + d} /\ i + 2 \in {3 + d, 5 + d}
      BY <1>2, <1>4, <1>5, <2>1, <3>1
    <3>3. i = 3 + d
      BY <1>1, <3>2
    <3>4. y[i + 1] = b[4 + d]
      <4>1. i + 1 = 4 + d
        BY <1>1, <3>3
      <4> QED
        BY <1>4, <3>1, <4>1
    <3> QED
      BY <1>1, <1>3, <2>1, <3>1, <3>3, <3>4
  <2>2. ASSUME word = g.verdict, k >= 5 + d
        PROVE  \E i \in 1 .. k - 2 : y[i] = "SGR" /\ y[i + 1] = word /\ y[i + 2] = "SGR"
    <3>1. 3 + d \in 1 .. k - 2 /\ 3 + d \in 1 .. k /\ 4 + d \in 1 .. k /\ 5 + d \in 1 .. k
          /\ (3 + d) + 1 = 4 + d /\ (3 + d) + 2 = 5 + d
      BY <1>1, <2>2
    <3>2. y[3 + d] = "SGR" /\ y[4 + d] = word /\ y[5 + d] = "SGR"
      BY <1>3, <1>4, <2>2, <3>1
    <3> QED
      BY <3>1, <3>2
  <2> QED
    BY <1>7, <2>1, <2>2
<1>9. k >= 5 + d => y = Core(g) \/ y = b
  <2> SUFFICES ASSUME k >= 5 + d PROVE y = Core(g) \/ y = b
    OBVIOUS
  <2>1. CASE k = Len(b)
    <3>1. y = b
      BY <1>1, <1>4, <2>1, SeqEqual
    <3> QED
      BY <3>1
  <2>2. CASE k # Len(b)
    <3>1. k = 5 + d
      BY <1>1, <2>2 DEF b
    <3>2. y = Core(g)
      <4>1. Len(y) = Len(Core(g)) /\ \A i \in 1 .. Len(y) : y[i] = Core(g)[i]
        BY <1>1, <1>4, <3>1
      <4> QED
        BY <1>1, <1>4, <4>1, SeqEqual
    <3> QED
      BY <3>2
  <2> QED
    BY <2>1, <2>2
<1>10. y \in Seq(Tokens) /\ \A i \in 1 .. Len(y) : y[i] # "NL"
  BY <1>2, <1>4, <1>5
<1> QED
  BY <1>8, <1>9, <1>10 DEF y, b
LEMMA StrippedTyped ==
    ASSUME NEW x \in Seq(Tokens), NEW y \in Seq(Tokens)
    PROVE  Stripped(x) \in Seq(Tokens) /\ Stripped(x \o y) = Stripped(x) \o Stripped(y)
<1>1. Kept(x, Tokens \ {"SGR"}) \in Seq(Tokens)
  BY KeptGrows
<1>2. Kept(x \o y, Tokens \ {"SGR"}) = Kept(x, Tokens \ {"SGR"}) \o Kept(y, Tokens \ {"SGR"})
  BY KeptTogether
<1> QED
  BY <1>1, <1>2 DEF Stripped

LEMMA StrippedPlain ==
    ASSUME NEW x \in Seq(Tokens), \A i \in 1 .. Len(x) : x[i] # "SGR"
    PROVE  Stripped(x) = x
<1>1. \A i \in 1 .. Len(x) : x[i] \in Tokens \ {"SGR"}
  BY ElementOfSeq
<1>2. Kept(x, Tokens \ {"SGR"}) = x
  BY <1>1, KeptWhole
<1> QED
  BY <1>2 DEF Stripped

LEMMA StrippedVerdict ==
    ASSUME NEW v \in Verdicts
    PROVE  Stripped(<<"SGR", v, "SGR">>) = <<v>>
<1> DEFINE S == Tokens \ {"SGR"}
<1>1. v \in Tokens /\ "SGR" \in Tokens /\ v # "SGR"
  BY TokensAre DEF Verdicts
<1>2. v \in S /\ "SGR" \notin S
  BY <1>1
<1>3. \A x, y \in Tokens : x \notin S /\ y \in S => Kept(<<x, y, x>>, S) = <<y>>
  <2> HIDE DEF S
  <2> SUFFICES ASSUME NEW x \in Tokens, NEW y \in Tokens, x \notin S, y \in S
               PROVE  Kept(<<x, y, x>>, S) = <<y>>
    OBVIOUS
  <2> DEFINE p == <<>>
             q == <<x>>
             r == <<x, y>>
             t == <<x, y, x>>
             z == <<y>>
  <2>1. /\ p \in Seq(Tokens) /\ q \in Seq(Tokens) /\ r \in Seq(Tokens)
        /\ q = Append(p, x) /\ r = Append(q, y) /\ t = Append(r, x) /\ z = Append(p, y)
    BY SmallSequences
  <2>2. Kept(p, S) = p
    BY KeptGrows
  <2> HIDE DEF p, q, r, t, z
  <2>3. Kept(q, S) = p
    BY <2>1, <2>2, KeptAppend
  <2>4. Kept(r, S) = z
    BY <2>1, <2>3, KeptAppend
  <2>5. Kept(t, S) = z
    <3>1. Kept(Append(r, x), S) = IF x \in S THEN Append(Kept(r, S), x) ELSE Kept(r, S)
      <4>1. r \in Seq(Tokens) /\ x \in Tokens
        BY <2>1
      <4> QED
        BY <4>1, KeptAppend
    <3> QED
      BY <2>1, <2>4, <3>1
  <2> QED
    BY <2>5 DEF t, z
<1>4. Kept(<<"SGR", v, "SGR">>, S) = <<v>>
  BY <1>1, <1>2, <1>3
<1> QED
  BY <1>4 DEF Stripped

LEMMA CoreStripped ==
    ASSUME NEW g \in Gates
    PROVE  LET d == Len(g.description)
               c == Stripped(Core(g))
           IN  /\ c \in Seq(Tokens) /\ d \in Nat /\ Len(c) = 3 + d
               /\ c[1] = g.name /\ c[2] = ": " /\ c[3 + d] = g.verdict
               /\ \A i \in 1 .. d : c[2 + i] = g.description[i]
               /\ \A i \in 1 .. Len(c) : c[i] # "NL" /\ c[i] # "SGR"
<1> DEFINE A == <<g.name, ": ">>
           B == g.description
           C == <<"SGR", g.verdict, "SGR">>
           v == <<g.verdict>>
           d == Len(B)
           c == Stripped(Core(g))
<1>1. /\ B \in Seq(Tokens) /\ d \in Nat /\ g.name \notin {"NL", "SGR"}
      /\ g.verdict \in Verdicts
      /\ \A i \in 1 .. d : B[i] # "NL" /\ B[i] # "SGR"
  BY GateTyped
<1>2. /\ A \in Seq(Tokens) /\ Len(A) = 2 /\ A[1] = g.name /\ A[2] = ": "
      /\ C \in Seq(Tokens) /\ v \in Seq(Tokens) /\ Len(v) = 1 /\ v[1] = g.verdict
      /\ g.verdict \notin {"NL", "SGR"}
  <2>1. g.name \in Tokens /\ ": " \in Tokens /\ "SGR" \in Tokens /\ g.verdict \in Tokens
    BY GateTyped, TokensAre
  <2>2. A \in Seq(Tokens) /\ C \in Seq(Tokens) /\ v \in Seq(Tokens)
    BY <2>1, SmallSequences
  <2>3. g.verdict \notin {"NL", "SGR"}
    BY <1>1 DEF Verdicts
  <2> QED
    BY <2>2, <2>3
<1>3. Stripped(C) = v
  BY <1>1, StrippedVerdict
<1>4. Core(g) = A \o B \o C
  BY DEF Core
<1> HIDE DEF A, C, v, B
<1>5. Stripped(A) = A
  <2>1. \A i \in 1 .. 2 : i = 1 \/ i = 2
    OBVIOUS
  <2>2. \A i \in 1 .. Len(A) : A[i] # "SGR"
    <3>1. A[1] # "SGR" /\ A[2] # "SGR"
      BY <1>1, <1>2
    <3> QED
      BY <1>2, <2>1, <3>1
  <2> QED
    BY <1>2, <2>2, StrippedPlain
<1>6. Stripped(B) = B
  BY <1>1, StrippedPlain
<1>7. A \o B \in Seq(Tokens)
  BY <1>1, <1>2, Joined
<1>8. c = A \o B \o v
  <2> DEFINE D == A \o B
  <2>1. Stripped(D) = D
    <3>1. A \in Seq(Tokens) /\ B \in Seq(Tokens)
      BY <1>1, <1>2
    <3>2. Stripped(A \o B) = Stripped(A) \o Stripped(B)
      BY <3>1, StrippedTyped
    <3> QED
      BY <1>5, <1>6, <3>2
  <2>2. D \in Seq(Tokens) /\ Core(g) = D \o C
    BY <1>4, <1>7
  <2> HIDE DEF D
  <2>3. Stripped(D \o C) = Stripped(D) \o Stripped(C)
    BY <1>2, <2>2, StrippedTyped
  <2> QED
    BY <1>3, <2>1, <2>2, <2>3 DEF D
<1> HIDE DEF c
<1> DEFINE D == A \o B
<1>9. /\ D \in Seq(Tokens) /\ Len(D) = 2 + d
      /\ \A i \in 1 .. 2 : D[i] = A[i]
      /\ \A i \in 1 .. d : D[2 + i] = B[i]
  <2>1. /\ D \in Seq(Tokens) /\ Len(D) = Len(A) + Len(B)
        /\ \A i \in 1 .. Len(A) : D[i] = A[i]
        /\ \A i \in 1 .. Len(B) : D[Len(A) + i] = B[i]
    <3>1. A \in Seq(Tokens) /\ B \in Seq(Tokens)
      BY <1>1, <1>2
    <3> QED
      BY <3>1, Joined
  <2> HIDE DEF D
  <2> QED
    BY <1>2, <2>1
<1>10. c = D \o v
  BY <1>8
<1> HIDE DEF D, d
<1>11. /\ c \in Seq(Tokens) /\ Len(c) = (2 + d) + 1
       /\ \A i \in 1 .. 2 + d : c[i] = D[i]
       /\ c[(2 + d) + 1] = g.verdict
  <2>1. /\ D \o v \in Seq(Tokens) /\ Len(D \o v) = Len(D) + Len(v)
        /\ \A i \in 1 .. Len(D) : (D \o v)[i] = D[i]
        /\ \A i \in 1 .. Len(v) : (D \o v)[Len(D) + i] = v[i]
    <3>1. D \in Seq(Tokens) /\ v \in Seq(Tokens)
      BY <1>2, <1>9
    <3> QED
      BY <3>1, Joined
  <2>5. Len(D) = 2 + d
    BY <1>9
  <2>6. Len(v) = 1
    BY <1>2
  <2>2. 1 \in 1 .. Len(v)
    BY <2>6
  <2>3. c \in Seq(Tokens) /\ Len(c) = (2 + d) + 1 /\ \A i \in 1 .. 2 + d : c[i] = D[i]
    <3>1. \A i \in 1 .. 2 + d : (D \o v)[i] = D[i]
      BY <1>9, <2>1
    <3> QED
      BY <1>10, <2>1, <3>1, <2>5, <2>6
  <2>4. c[(2 + d) + 1] = v[1]
    BY <1>9, <1>10, <2>1, <2>2
  <2> QED
    BY <1>2, <2>3, <2>4
<1>12. d \in Nat /\ d = Len(B)
  BY <1>1 DEF d
<1>13. (2 + d) + 1 = 3 + d /\ 1 \in 1 .. 2 + d /\ 2 \in 1 .. 2 + d /\ 1 \in 1 .. 2 /\ 2 \in 1 .. 2
  BY <1>12
<1>14. c[1] = g.name /\ c[2] = ": " /\ c[3 + d] = g.verdict /\ Len(c) = 3 + d
  <2>1. c[1] = D[1] /\ c[2] = D[2] /\ D[1] = A[1] /\ D[2] = A[2]
    BY <1>9, <1>11, <1>13
  <2> QED
    BY <1>2, <1>11, <1>13, <2>1
<1>15. ASSUME NEW i \in 1 .. Len(c)
       PROVE  c[i] # "NL" /\ c[i] # "SGR"
  <2>1. i \in 1 .. 3 + d
    BY <1>14
  <2>2. i = 1 \/ i = 2 \/ i = 3 + d \/ i - 2 \in 1 .. d
    BY <1>12, <2>1
  <2>3. CASE i = 1
    BY <1>1, <1>14, <2>3
  <2>4. CASE i = 2
    <3>1. c[i] = ": "
      BY <1>14, <2>4
    <3>2. ": " # "NL" /\ ": " # "SGR"
      OBVIOUS
    <3> QED
      BY <2>4, <3>1, <3>2
  <2>5. CASE i = 3 + d
    <3>1. c[i] = g.verdict
      BY <1>14, <2>5
    <3> QED
      BY <1>2, <3>1
  <2>6. CASE i - 2 \in 1 .. d
    <3>1. i = 2 + (i - 2) /\ i \in 1 .. 2 + d
      BY <1>12, <2>1, <2>6
    <3>2. c[i] = B[i - 2]
      <4>1. D[2 + (i - 2)] = B[i - 2]
        BY <1>9, <2>6
      <4> QED
        BY <1>11, <3>1, <4>1
    <3> QED
      BY <1>1, <1>12, <2>6, <3>1, <3>2
  <2> QED
    BY <2>2, <2>3, <2>4, <2>5, <2>6
<1>16. ASSUME NEW i \in 1 .. d PROVE c[2 + i] = B[i]
  <2>1. 2 + i \in 1 .. 2 + d
    BY <1>12
  <2> QED
    BY <1>9, <1>11, <2>1
<1> QED
  BY <1>11, <1>12, <1>14, <1>15, <1>16 DEF c, d, B

LEMMA BodyStripped ==
    ASSUME NEW g \in Gates, g.reason # NoReason
    PROVE  /\ Body(g) = Append(Core(g), g.reason)
           /\ Stripped(Body(g)) = Append(Stripped(Core(g)), g.reason)
<1>1. g.reason \in Tokens /\ g.reason # "SGR" /\ Core(g) \in Seq(Tokens)
  BY GateTyped, TokensAre
<1>2. Body(g) = Append(Core(g), g.reason)
  BY <1>1, AppendIsConcat DEF Body
<1>3. g.reason \in Tokens \ {"SGR"}
  BY <1>1
<1>4. Kept(Append(Core(g), g.reason), Tokens \ {"SGR"}) = Append(Kept(Core(g), Tokens \ {"SGR"}), g.reason)
  BY <1>1, <1>3, KeptAppend
<1> QED
  BY <1>2, <1>4 DEF Stripped

LEMMA LeastIs ==
    ASSUME NEW S, NEW m \in S, \A x \in S : m <= x, S \subseteq Nat
    PROVE  Min(S) = m
<1>1. \E x \in S : \A y \in S : x <= y
  OBVIOUS
<1>2. Min(S) \in S /\ \A y \in S : Min(S) <= y
  BY <1>1 DEF Min
<1>3. Min(S) \in Nat /\ m \in Nat /\ Min(S) <= m /\ m <= Min(S)
  BY <1>2
<1> QED
  BY <1>3

Stops(x, colon) == {i \in DOMAIN x : x[i] = colon}

LEMMA NameFirst ==
    ASSUME NEW colon, NEW x \in Seq(Tokens), Len(x) >= 3, x[1] # colon, x[2] = colon
    PROVE  Stops(x, colon) # {} /\ SubSeq(x, 1, Min(Stops(x, colon)) - 1) = <<x[1]>>
<1>1. Len(x) \in Nat /\ DOMAIN x = 1 .. Len(x)
  OBVIOUS
<1>2. 1 \in DOMAIN x /\ 2 \in DOMAIN x /\ DOMAIN x \subseteq Nat \ {0}
  BY <1>1
<1>3. 2 \in Stops(x, colon) /\ 1 \notin Stops(x, colon) /\ Stops(x, colon) \subseteq Nat \ {0}
  BY <1>2 DEF Stops
<1>4. \A i \in Stops(x, colon) : 2 <= i
  BY <1>3
<1>5. Min(Stops(x, colon)) = 2
  BY <1>3, <1>4, LeastIs
<1>6. SubSeq(x, 1, 1) = <<x[1]>> /\ 2 - 1 = 1
  <2> DEFINE y == SubSeq(x, 1, 1)
  <2>1. /\ y \in Seq(Tokens) /\ Len(y) = (IF 1 <= 1 THEN 1 - 1 + 1 ELSE 0)
        /\ \A j \in 1 .. 1 - 1 + 1 : y[j] = x[1 + j - 1]
    <3>1. \A j \in 1 .. 1 : x[j] \in Tokens
      BY <1>1, ElementOfSeq
    <3> QED
      BY <3>1, SubSeqProperties
  <2> HIDE DEF y
  <2>2. Len(y) = 1 /\ y[1] = x[1] /\ y \in Seq(Tokens)
    BY <2>1
  <2>3. y = <<y[1]>>
    BY <2>2
  <2> QED
    BY <2>2, <2>3 DEF y
<1>7. SubSeq(x, 1, Min(Stops(x, colon)) - 1) = <<x[1]>>
  BY <1>5, <1>6
<1> QED
  BY <1>3, <1>7

FindingIn(x, colon) ==
    [id |-> IF Stops(x, colon) = {} THEN x ELSE SubSeq(x, 1, Min(Stops(x, colon)) - 1),
     reason |-> IF Len(x) > 0 /\ x[Len(x)] \in Reasons THEN x[Len(x)] ELSE NoReason]

LEMMA FindingIs ==
    ASSUME NEW colon, NEW x \in Seq(Tokens), Len(x) >= 3, x[1] # colon, x[2] = colon
    PROVE  FindingIn(x, colon) = [id |-> <<x[1]>>,
                                  reason |-> IF x[Len(x)] \in Reasons THEN x[Len(x)] ELSE NoReason]
<1>1. Stops(x, colon) # {} /\ SubSeq(x, 1, Min(Stops(x, colon)) - 1) = <<x[1]>>
  BY NameFirst
<1>2. Len(x) > 0
  OBVIOUS
<1> QED
  BY <1>1, <1>2 DEF FindingIn

(* A line that has its verdict has its name, and its reason if it is whole. *)
LEMMA Finding ==
    ASSUME NEW g \in Gates, g.reason = NoReason \/ g.reason \in Reasons, g.verdict \notin Reasons
    PROVE  /\ GateFinding(Core(g)) = [id |-> <<g.name>>, reason |-> NoReason]
           /\ GateFinding(Body(g)) = [id |-> <<g.name>>, reason |-> g.reason]
<1> DEFINE d == Len(g.description)
           c == Stripped(Core(g))
           b == Stripped(Body(g))
           colon == ": "
<1>1. c \in Seq(Tokens) /\ d \in Nat /\ Len(c) = 3 + d
  BY CoreStripped
<1>2. c[1] = g.name /\ c[2] = colon /\ c[3 + d] = g.verdict
  BY CoreStripped
<1>3. g.name # colon
  BY GateTyped
<1>4. GateFinding(Core(g)) = FindingIn(c, colon) /\ GateFinding(Body(g)) = FindingIn(b, colon)
  BY DEF GateFinding, FindingIn, Stops
<1> HIDE DEF c, d, colon
<1>5. Len(c) >= 3 /\ c[Len(c)] = g.verdict
  BY <1>1, <1>2
<1>6. FindingIn(c, colon) = [id |-> <<g.name>>, reason |-> NoReason]
  <2>1. FindingIn(c, colon) = [id |-> <<c[1]>>,
                               reason |-> IF c[Len(c)] \in Reasons THEN c[Len(c)] ELSE NoReason]
    BY <1>1, <1>2, <1>3, <1>5, FindingIs
  <2> QED
    BY <1>2, <1>5, <2>1
<1>7. CASE g.reason = NoReason
  <2>1. Body(g) = Core(g)
    BY <1>7, BodyShape
  <2> QED
    BY <1>4, <1>6, <1>7, <2>1
<1>8. CASE g.reason # NoReason
  <2>1. b = Append(c, g.reason) /\ g.reason \in Tokens /\ g.reason \in Reasons
    BY <1>8, BodyStripped, GateTyped, TokensAre DEF c
  <2> HIDE DEF b
  <2>2. /\ b \in Seq(Tokens) /\ Len(b) = Len(c) + 1 /\ b[Len(c) + 1] = g.reason
        /\ \A i \in 1 .. Len(c) : b[i] = c[i]
    <3>1. c \in Seq(Tokens) /\ g.reason \in Tokens
      BY <1>1, <2>1
    <3> QED
      BY <2>1, <3>1, AppendProperties
  <2>3. 1 \in 1 .. Len(c) /\ 2 \in 1 .. Len(c) /\ Len(c) + 1 >= 3
    <3>1. Len(c) = 3 + d /\ d \in Nat
      BY <1>1
    <3> QED
      BY <3>1
  <2>4. Len(b) >= 3 /\ b[Len(b)] = g.reason
    BY <2>2, <2>3
  <2>5. b[1] = g.name /\ b[2] = colon
    BY <1>2, <2>2, <2>3
  <2>6. FindingIn(b, colon) = [id |-> <<b[1]>>,
                               reason |-> IF b[Len(b)] \in Reasons THEN b[Len(b)] ELSE NoReason]
    BY <1>3, <2>2, <2>4, <2>5, FindingIs
  <2> QED
    BY <1>4, <1>6, <2>1, <2>4, <2>5, <2>6
<1> QED
  BY <1>7, <1>8
-----------------------------------------------------------------------------
(***************************************************************************)
(* The lines of gates: one of each, and those with a verdict.              *)
(***************************************************************************)
Texts == Seq(Tokens)

Hits(word) == {line \in Texts : tokenRE(line, word)}

Said(word) == {g \in Gates : g.verdict = word}

LEMMA OnlyLine ==
    ASSUME NEW T, NEW u \in T, NEW v \in T
    PROVE  /\ Len(<<u>>) = 1 /\ [<<u>> EXCEPT ![1] = v] = <<v>>
           /\ <<u>> \in Seq(T) /\ <<u>>[1] = u
OBVIOUS

LEMMA LineAlone ==
    ASSUME NEW y \in Texts, \A i \in 1 .. Len(y) : y[i] # "NL"
    PROVE  Lines(y) = <<y>> /\ Lines(Append(y, "NL")) = Append(<<y>>, <<>>)
<1> DEFINE NoEnd(u) == \A i \in 1 .. Len(u) : u[i] # "NL"
           Q == {u \in Texts : NoEnd(u) => Lines(u) = <<u>>}
<1>1. <<>> \in Q
  BY LinesGrow, EmptySeq DEF Texts
<1>2. ASSUME NEW u \in Texts, NEW e \in Tokens, u \in Q PROVE Append(u, e) \in Q
  <2>1. Append(u, e) \in Texts /\ Lines(Append(u, e)) = Extended(Lines(u), e)
    BY LinesGrow, AppendProperties DEF Texts
  <2> SUFFICES ASSUME NoEnd(Append(u, e)) PROVE Lines(Append(u, e)) = <<Append(u, e)>>
    BY <2>1
  <2>2. NoEnd(u) /\ e # "NL"
    <3>1. /\ Len(u) \in Nat /\ Len(Append(u, e)) = Len(u) + 1 /\ Append(u, e)[Len(u) + 1] = e
          /\ \A i \in 1 .. Len(u) : Append(u, e)[i] = u[i] /\ i \in 1 .. Len(u) + 1
          /\ Len(u) + 1 \in 1 .. Len(u) + 1
      BY LenProperties, AppendProperties DEF Texts
    <3> QED
      BY <3>1
  <2>3. Lines(u) = <<u>>
    BY <1>2, <2>2
  <2>4. Extended(<<u>>, e) = <<Append(u, e)>>
    <3> DEFINE v == Append(u, e)
               w == <<u>>
    <3>1. Len(w) = 1 /\ [w EXCEPT ![1] = v] = <<v>> /\ w[1] = u
      <4> HIDE DEF v
      <4> QED
        BY <2>1, OnlyLine DEF v
    <3> HIDE DEF w
    <3>2. Extended(w, e) = [w EXCEPT ![Len(w)] = Append(w[Len(w)], e)]
      BY <2>2 DEF Extended
    <3>3. Extended(w, e) = [w EXCEPT ![1] = v]
      BY <3>1, <3>2
    <3> QED
      BY <3>1, <3>3 DEF w
  <2> QED
    BY <2>1, <2>3, <2>4
<1>3. Seq(Tokens) \subseteq Q
  <2> HIDE DEF Q
  <2> QED
    BY <1>1, <1>2, SequenceInduction DEF Texts
<1>4. Lines(y) = <<y>>
  BY <1>3 DEF Texts
<1>5. Lines(Append(y, "NL")) = Extended(Lines(y), "NL")
  BY LinesGrow, TokensAre DEF Texts
<1> QED
  BY <1>4, <1>5 DEF Extended

(* before are the lines of the gates that are done.                        *)
Listing(before, done, word) ==
    LET kept == Kept(before, Hits(word))
        said == Kept(done, Said(word))
    IN  /\ before \in Seq(Texts) /\ Lines(GateLines(done)) = Append(before, <<>>)
        /\ Len(kept) = Len(said)
        /\ \A i \in 1 .. Len(said) : kept[i] = Body(said[i])

LEMMA BodyHits ==
    ASSUME NEW g \in Gates, NEW word
    PROVE  /\ Body(g) \in Texts /\ \A i \in 1 .. Len(Body(g)) : Body(g)[i] # "NL"
           /\ Body(g) \in Hits(word) <=> g \in Said(word)
<1> DEFINE b == Body(g)
           k == Len(b)
<1>1. b \in Seq(Tokens) /\ k \in Nat /\ k \in 0 .. Len(b) /\ SubSeq(b, 1, k) = b
      /\ Len(g.description) \in Nat /\ k >= 5 + Len(g.description)
  <2>1. b \in Seq(Tokens) /\ k \in Nat /\ Len(g.description) \in Nat
        /\ k = IF g.reason = NoReason THEN 5 + Len(g.description) ELSE 6 + Len(g.description)
    BY CoreShape, BodyShape, LenProperties
  <2>2. SubSeq(b, 1, k) = b
    BY <2>1, SubSeqFull
  <2>3. k \in 0 .. Len(b)
    BY <2>1
  <2>4. k >= 5 + Len(g.description)
    BY <2>1
  <2> QED
    BY <2>1, <2>2, <2>3, <2>4
<1>2. \A i \in 1 .. Len(b) : b[i] # "NL"
  BY BodyTokens
<1>3. tokenRE(SubSeq(b, 1, k), word) <=> word = g.verdict /\ k >= 5 + Len(g.description)
  BY <1>1, VerdictFound
<1>4. tokenRE(b, word) <=> word = g.verdict
  BY <1>1, <1>3
<1> HIDE DEF b
<1> QED
  BY <1>1, <1>2, <1>4 DEF Texts, Hits, Said, b

LEMMA Listed == ASSUME NEW word, NEW done \in Seq(Gates) PROVE \E before : Listing(before, done, word)
<1> DEFINE Q == {u \in Seq(Gates) : \E before : Listing(before, u, word)}
<1>1. <<>> \in Q
  <2>1. GateLines(<<>>) = <<>> /\ Lines(<<>>) = << <<>> >> /\ <<>> \in Seq(Gates) /\ <<>> \in Seq(Texts)
    BY GateLinesGrow, LinesGrow, EmptySeq
  <2>2. Kept(<<>>, Hits(word)) = <<>> /\ Kept(<<>>, Said(word)) = <<>>
    BY KeptGrows
  <2>3. << <<>> >> = Append(<<>>, <<>>) /\ Len(<<>>) = 0 /\ 1 .. 0 = {}
    <3>1. \A t : <<t>> = Append(<<>>, t)
      OBVIOUS
    <3> QED
      BY <3>1
  <2>4. Listing(<<>>, <<>>, word)
    BY <2>1, <2>2, <2>3 DEF Listing
  <2> QED
    BY <2>1, <2>4
<1>2. ASSUME NEW u \in Seq(Gates), NEW g \in Gates, u \in Q PROVE Append(u, g) \in Q
  <2> DEFINE b == Body(g)
             H == Hits(word)
             S == Said(word)
  <2>1. PICK before : Listing(before, u, word)
    BY <1>2
  <2>2. Append(u, g) \in Seq(Gates)
    BY AppendProperties
  <2>3. /\ b \in Texts /\ \A i \in 1 .. Len(b) : b[i] # "NL"
        /\ b \in H <=> g \in S
    BY BodyHits
  <2> HIDE DEF b, H, S
  <2> DEFINE kept == Kept(before, H)
             said == Kept(u, S)
             after == Append(before, b)
  <2>4. /\ before \in Seq(Texts) /\ Lines(GateLines(u)) = Append(before, <<>>)
        /\ Len(kept) = Len(said) /\ \A i \in 1 .. Len(said) : kept[i] = Body(said[i])
    BY <2>1 DEF Listing, H, S
  <2>5. after \in Seq(Texts)
    BY <2>3, <2>4, AppendProperties
  <2>6. /\ kept \in Seq(Texts) /\ Kept(after, H) = IF b \in H THEN Append(kept, b) ELSE kept
    BY <2>3, <2>4, KeptAppend
  <2>7. /\ said \in Seq(Gates) /\ Kept(Append(u, g), S) = IF g \in S THEN Append(said, g) ELSE said
    BY KeptAppend
  <2>8. Lines(GateLines(Append(u, g))) = Append(after, <<>>)
    <3> DEFINE y == Append(b, "NL")
               x == GateLines(u)
    <3>1. GateLines(Append(u, g)) = x \o y /\ x \in Texts /\ y \in Texts
      <4>1. GateLine(g) = y /\ GateLine(g) \in Texts
        BY GateTyped DEF Texts, b
      <4> QED
        BY <4>1, GateLinesGrow DEF Texts
    <3>2. Lines(y) = Append(<<b>>, <<>>)
      BY <2>3, LineAlone
    <3> HIDE DEF x, y
    <3>3. Lines(x \o y) = before \o Lines(y)
      BY <2>4, <3>1, LinesApart DEF Texts, x
    <3>4. before \o Append(<<b>>, <<>>) = Append(before \o <<b>>, <<>>)
      <4>1. \A e \in Texts : before \o Append(<<b>>, e) = Append(before \o <<b>>, e)
        <5>1. <<b>> \in Seq(Texts)
          BY <2>3, OnlyLine
        <5> DEFINE w == <<b>>
        <5> HIDE DEF w
        <5> QED
          BY <2>4, <5>1, Grown DEF w
      <4>2. <<>> \in Texts
        BY EmptySeq DEF Texts
      <4> QED
        BY <4>1, <4>2
    <3>5. before \o <<b>> = after
      BY <2>3, <2>4, AppendIsConcat
    <3> QED
      BY <3>1, <3>2, <3>3, <3>4, <3>5
  <2> HIDE DEF after, kept, said
  <2>9. Listing(after, Append(u, g), word)
    <3>1. CASE g \in S
      <4> DEFINE k == Append(kept, b)
                 s == Append(said, g)
      <4>1. Kept(after, H) = k /\ Kept(Append(u, g), S) = s
        BY <2>3, <2>6, <2>7, <3>1
      <4>2. /\ Len(k) = Len(kept) + 1 /\ k[Len(kept) + 1] = b /\ \A i \in 1 .. Len(kept) : k[i] = kept[i]
        BY <2>3, <2>6, AppendProperties
      <4>3. /\ Len(s) = Len(said) + 1 /\ s[Len(said) + 1] = g /\ \A i \in 1 .. Len(said) : s[i] = said[i]
            /\ Len(said) \in Nat
        BY <2>7, AppendProperties, LenProperties
      <4> HIDE DEF k, s
      <4>4. Len(k) = Len(s)
        BY <2>4, <4>2, <4>3 DEF kept, said
      <4>5. \A i \in 1 .. Len(s) : k[i] = Body(s[i])
        <5>1. Len(kept) = Len(said) /\ \A i \in 1 .. Len(said) : kept[i] = Body(said[i])
          BY <2>4 DEF kept, said
        <5>2. \A i \in 1 .. Len(s) : i \in 1 .. Len(said) \/ i = Len(said) + 1
          BY <4>3
        <5>3. b = Body(g)
          BY DEF b
        <5> QED
          BY <4>2, <4>3, <5>1, <5>2, <5>3
      <4> QED
        BY <2>5, <2>8, <4>1, <4>4, <4>5 DEF Listing, H, S
    <3>2. CASE g \notin S
      <4>1. Kept(after, H) = kept /\ Kept(Append(u, g), S) = said
        BY <2>3, <2>6, <2>7, <3>2
      <4>2. Len(kept) = Len(said) /\ \A i \in 1 .. Len(said) : kept[i] = Body(said[i])
        BY <2>4 DEF kept, said
      <4> QED
        BY <2>5, <2>8, <4>1, <4>2 DEF Listing, H, S
    <3> QED
      BY <3>1, <3>2
  <2> QED
    BY <2>2, <2>9
<1>3. Seq(Gates) \subseteq Q
  <2> HIDE DEF Q
  <2> QED
    BY <1>1, <1>2, SequenceInduction
<1> QED
  BY <1>3
-----------------------------------------------------------------------------
(***************************************************************************)
(* Where the log ends.                                                     *)
(***************************************************************************)
LEMMA Beginning ==
    ASSUME NEW V, NEW x \in Seq(V), NEW n \in 0 .. Len(x)
    PROVE  /\ SubSeq(x, 1, n) \in Seq(V) /\ Len(SubSeq(x, 1, n)) = n
           /\ \A i \in 1 .. n : SubSeq(x, 1, n)[i] = x[i]
           /\ \A i \in 1 .. n : i \in 1 .. Len(x)
<1>1. Len(x) \in Nat /\ n \in Nat /\ n <= Len(x)
  BY LenProperties
<1>2. \A i \in 1 .. n : i \in 1 .. Len(x)
  BY <1>1
<1>3. \A i \in 1 .. n : x[i] \in V
  BY <1>2, ElementOfSeq
<1> DEFINE y == SubSeq(x, 1, n)
<1>4. /\ y \in Seq(V) /\ Len(y) = (IF 1 <= n THEN n - 1 + 1 ELSE 0)
      /\ \A i \in 1 .. n - 1 + 1 : y[i] = x[1 + i - 1]
  BY <1>1, <1>3, SubSeqProperties
<1> HIDE DEF y
<1>5. Len(y) = n /\ \A i \in 1 .. n : y[i] = x[i]
  BY <1>1, <1>4
<1> QED
  BY <1>2, <1>4, <1>5 DEF y

LEMMA BeginningOfFirst ==
    ASSUME NEW V, NEW x \in Seq(V), NEW y \in Seq(V), NEW n \in 0 .. Len(x)
    PROVE  SubSeq(x \o y, 1, n) = SubSeq(x, 1, n)
<1> DEFINE z == x \o y
           a == SubSeq(z, 1, n)
           b == SubSeq(x, 1, n)
<1>1. /\ z \in Seq(V) /\ Len(z) = Len(x) + Len(y) /\ Len(x) \in Nat /\ Len(y) \in Nat
      /\ \A i \in 1 .. Len(x) : z[i] = x[i]
  BY Joined
<1> HIDE DEF z
<1>2. n \in 0 .. Len(z)
  BY <1>1
<1>3. a \in Seq(V) /\ Len(a) = n /\ \A i \in 1 .. n : a[i] = z[i]
  BY <1>1, <1>2, Beginning
<1>4. b \in Seq(V) /\ Len(b) = n /\ \A i \in 1 .. n : b[i] = x[i] /\ i \in 1 .. Len(x)
  BY Beginning
<1> HIDE DEF a, b
<1>5. a = b
  <2>1. Len(a) = Len(b) /\ \A i \in 1 .. Len(a) : a[i] = b[i]
    BY <1>1, <1>3, <1>4
  <2> QED
    BY <1>3, <1>4, <2>1, SeqEqual
<1> QED
  BY <1>5 DEF a, b, z

LEMMA BeginningOfBoth ==
    ASSUME NEW V, NEW x \in Seq(V), NEW y \in Seq(V), NEW n \in 0 .. Len(y)
    PROVE  SubSeq(x \o y, 1, Len(x) + n) = x \o SubSeq(y, 1, n)
<1> DEFINE z == x \o y
           m == Len(x) + n
           a == SubSeq(z, 1, m)
           c == SubSeq(y, 1, n)
           b == x \o c
<1>1. /\ z \in Seq(V) /\ Len(z) = Len(x) + Len(y) /\ Len(x) \in Nat /\ Len(y) \in Nat
      /\ \A i \in 1 .. Len(x) : z[i] = x[i]
      /\ \A i \in 1 .. Len(y) : z[Len(x) + i] = y[i]
  BY Joined
<1>2. c \in Seq(V) /\ Len(c) = n /\ \A i \in 1 .. n : c[i] = y[i] /\ i \in 1 .. Len(y)
  BY Beginning
<1> HIDE DEF z, c
<1>3. /\ b \in Seq(V) /\ Len(b) = Len(x) + n
      /\ \A i \in 1 .. Len(x) : b[i] = x[i]
      /\ \A i \in 1 .. n : b[Len(x) + i] = c[i]
  <2>1. c \in Seq(V) /\ Len(c) = n
    BY <1>2
  <2>2. /\ b \in Seq(V) /\ Len(b) = Len(x) + Len(c)
        /\ \A i \in 1 .. Len(x) : b[i] = x[i]
        /\ \A i \in 1 .. Len(c) : b[Len(x) + i] = c[i]
    <3>1. x \in Seq(V) /\ c \in Seq(V)
      BY <2>1
    <3> QED
      BY <3>1, Joined
  <2> HIDE DEF b
  <2> QED
    BY <2>1, <2>2
<1>4. m \in 0 .. Len(z)
  BY <1>1
<1> HIDE DEF m, b
<1>5. a \in Seq(V) /\ Len(a) = m /\ \A i \in 1 .. m : a[i] = z[i]
  BY <1>1, <1>4, Beginning
<1> HIDE DEF a
<1>6. \A i \in 1 .. m : i \in 1 .. Len(x) \/ (i - Len(x) \in 1 .. n /\ i = Len(x) + (i - Len(x)))
  BY <1>1 DEF m
<1>7. \A i \in 1 .. m : a[i] = b[i]
  <2> TAKE i \in 1 .. m
  <2>1. a[i] = z[i]
    BY <1>5
  <2>2. CASE i \in 1 .. Len(x)
    BY <1>1, <1>3, <2>1, <2>2
  <2>3. CASE i - Len(x) \in 1 .. n /\ i = Len(x) + (i - Len(x))
    <3> DEFINE e == i - Len(x)
    <3>1. e \in 1 .. n /\ i = Len(x) + e
      BY <2>3
    <3> HIDE DEF e
    <3>2. e \in 1 .. Len(y) /\ c[e] = y[e]
      BY <1>2, <3>1
    <3>3. z[i] = y[e] /\ b[i] = c[e]
      BY <1>1, <1>3, <3>1, <3>2
    <3> QED
      BY <2>1, <3>2, <3>3
  <2> QED
    BY <1>6, <2>2, <2>3
<1>8. a = b
  <2>1. Len(a) = Len(b)
    BY <1>3, <1>5 DEF m
  <2> QED
    BY <1>3, <1>5, <1>7, <2>1, SeqEqual
<1> QED
  BY <1>8 DEF a, b, c, m, z

(* n tokens end within the line of the gate after the j-th, which lacks    *)
(* its end.                                                                *)
EndsWithin(gates, n, j, k) ==
    /\ j \in Nat /\ j < Len(gates) /\ k \in 0 .. Len(Body(gates[j + 1]))
    /\ SubSeq(GateLines(gates), 1, n) = GateLines(SubSeq(gates, 1, j)) \o SubSeq(Body(gates[j + 1]), 1, k)

LEMMA EndsSomewhere ==
    ASSUME NEW gates \in Seq(Gates), NEW n \in Nat, n < Len(GateLines(gates))
    PROVE  \E j, k : EndsWithin(gates, n, j, k)
<1> DEFINE Ends(u) == \A m \in Nat : m < Len(GateLines(u)) => \E j, k : EndsWithin(u, m, j, k)
           Q == {u \in Seq(Gates) : Ends(u)}
<1>1. <<>> \in Q
  <2>1. GateLines(<<>>) = <<>> /\ <<>> \in Seq(Gates) /\ Len(<<>>) = 0
    BY GateLinesGrow, EmptySeq
  <2>2. \A m \in Nat : ~ (m < 0)
    OBVIOUS
  <2> QED
    BY <2>1, <2>2
<1>2. ASSUME NEW u \in Seq(Gates), NEW g \in Gates, u \in Q PROVE Append(u, g) \in Q
  <2> DEFINE v == Append(u, g)
             x == GateLines(u)
             b == Body(g)
             y == Append(b, "NL")
  <2>1. /\ v \in Seq(Gates) /\ Len(v) = Len(u) + 1 /\ v[Len(u) + 1] = g
        /\ \A i \in 1 .. Len(u) : v[i] = u[i]
    BY AppendProperties
  <2>2. /\ x \in Seq(Tokens) /\ b \in Seq(Tokens) /\ y \in Seq(Tokens) /\ GateLines(v) = x \o y
        /\ "NL" \in Tokens
    BY GateLinesGrow, GateTyped, TokensAre
  <2>3. v = u \o <<g>> /\ <<g>> \in Seq(Gates) /\ Len(u) \in Nat
    BY AppendIsConcat, LenProperties, OnlyLine
  <2>4. y = b \o <<"NL">> /\ <<"NL">> \in Seq(Tokens) /\ Len(y) = Len(b) + 1 /\ Len(b) \in Nat
    BY <2>2, AppendIsConcat, AppendProperties, LenProperties, OnlyLine
  <2>5. Len(x \o y) = Len(x) + Len(y) /\ Len(x) \in Nat
    BY <2>2, Joined
  <2> HIDE DEF v, x, y
  <2>6. ASSUME NEW m \in Nat, m < Len(GateLines(v)) PROVE \E j, k : EndsWithin(v, m, j, k)
    <3>1. CASE m < Len(x)
      <4>1. PICK j, k : EndsWithin(u, m, j, k)
        BY <1>2, <3>1 DEF x
      <4>2. /\ j \in Nat /\ j < Len(u) /\ k \in 0 .. Len(Body(u[j + 1]))
            /\ SubSeq(x, 1, m) = GateLines(SubSeq(u, 1, j)) \o SubSeq(Body(u[j + 1]), 1, k)
        BY <4>1 DEF EndsWithin, x
      <4>3. m \in 0 .. Len(x) /\ j \in 0 .. Len(u) /\ j + 1 \in 1 .. Len(u) /\ j < Len(u) + 1
        BY <2>3, <2>5, <3>1, <4>2
      <4>4. SubSeq(x \o y, 1, m) = SubSeq(x, 1, m)
        BY <2>2, <4>3, BeginningOfFirst
      <4>5. SubSeq(v, 1, j) = SubSeq(u, 1, j)
        <5> DEFINE w == <<g>>
        <5>1. w \in Seq(Gates) /\ v = u \o w
          BY <2>3
        <5> HIDE DEF w
        <5> QED
          BY <4>3, <5>1, BeginningOfFirst
      <4>6. v[j + 1] = u[j + 1]
        BY <2>1, <4>3
      <4>7. EndsWithin(v, m, j, k)
        BY <2>1, <2>2, <4>2, <4>3, <4>4, <4>5, <4>6 DEF EndsWithin
      <4> QED
        BY <4>7
    <3>2. CASE ~ (m < Len(x))
      <4> DEFINE k == m - Len(x)
                 j == Len(u)
      <4>1. k \in 0 .. Len(b) /\ k \in 0 .. Len(y) /\ m = Len(x) + k
        BY <2>2, <2>4, <2>5, <2>6, <3>2
      <4> HIDE DEF k
      <4>2. SubSeq(x \o y, 1, Len(x) + k) = x \o SubSeq(y, 1, k)
        BY <2>2, <4>1, BeginningOfBoth
      <4>3. SubSeq(y, 1, k) = SubSeq(b, 1, k)
        <5> DEFINE w == <<"NL">>
        <5>1. w \in Seq(Tokens) /\ y = b \o w
          BY <2>4
        <5> HIDE DEF w, b
        <5> QED
          BY <2>2, <4>1, <5>1, BeginningOfFirst DEF b
      <4>4. SubSeq(v, 1, j) = u
        <5> DEFINE w == <<g>>
        <5>1. w \in Seq(Gates) /\ v = u \o w
          BY <2>3
        <5> HIDE DEF w
        <5>2. Len(u) \in 0 .. Len(u)
          BY <2>3
        <5>3. SubSeq(u \o w, 1, Len(u)) = SubSeq(u, 1, Len(u))
          BY <5>1, <5>2, BeginningOfFirst
        <5> QED
          BY <5>1, <5>3, SubSeqFull
      <4>5. j \in Nat /\ j < Len(v) /\ v[j + 1] = g
        BY <2>1, <2>3
      <4> HIDE DEF j, b
      <4>6. EndsWithin(v, m, j, k)
        BY <2>2, <4>1, <4>2, <4>3, <4>4, <4>5 DEF EndsWithin, x, b
      <4> QED
        BY <4>6
    <3> QED
      BY <3>1, <3>2
  <2> QED
    BY <2>1, <2>6 DEF v
<1>3. Seq(Gates) \subseteq Q
  <2> HIDE DEF Q
  <2> QED
    BY <1>1, <1>2, SequenceInduction
<1> QED
  BY <1>3
-----------------------------------------------------------------------------
(***************************************************************************)
(* How many lines a log has.                                               *)
(***************************************************************************)
LEMMA LeastOfTwo ==
    ASSUME NEW a \in Nat, NEW b \in Nat
    PROVE  Min({a, b}) = IF a <= b THEN a ELSE b
<1>1. CASE a <= b
  <2>1. a \in {a, b} /\ {a, b} \subseteq Nat /\ \A x \in {a, b} : a <= x
    BY <1>1
  <2> QED
    BY <1>1, <2>1, LeastIs
<1>2. CASE ~ (a <= b)
  <2>1. b \in {a, b} /\ {a, b} \subseteq Nat /\ \A x \in {a, b} : b <= x
    BY <1>2
  <2> QED
    BY <1>2, <2>1, LeastIs
<1> QED
  BY <1>1, <1>2

Places(x, e) == {i \in DOMAIN x : x[i] = e}

LEMMA PlacesCounted ==
    ASSUME NEW V, NEW x \in Seq(V), NEW e
    PROVE  IsFiniteSet(Places(x, e)) /\ Cardinality(Places(x, e)) = Len(Kept(x, {e}))
<1> DEFINE Counted(u) == IsFiniteSet(Places(u, e)) /\ Cardinality(Places(u, e)) = Len(Kept(u, {e}))
           Q == {u \in Seq(V) : Counted(u)}
<1>1. <<>> \in Q
  <2>1. Places(<<>>, e) = {}
    BY DEF Places
  <2>2. Kept(<<>>, {e}) = <<>> /\ <<>> \in Seq(V) /\ Len(<<>>) = 0
    BY KeptGrows, EmptySeq
  <2>3. Counted(<<>>)
    BY <2>1, <2>2, FS_EmptySet
  <2> QED
    BY <2>2, <2>3
<1>2. ASSUME NEW u \in Seq(V), NEW f \in V, u \in Q PROVE Append(u, f) \in Q
  <2> DEFINE v == Append(u, f)
             n == Len(u)
             k == Kept(u, {e})
  <2>1. /\ v \in Seq(V) /\ DOMAIN v = 1 .. n + 1 /\ v[n + 1] = f /\ \A i \in 1 .. n : v[i] = u[i]
        /\ DOMAIN u = 1 .. n /\ n \in Nat
    BY AppendProperties, LenProperties
  <2>2. k \in Seq(V) /\ Kept(v, {e}) = IF f \in {e} THEN Append(k, f) ELSE k
    BY KeptAppend
  <2>3. IsFiniteSet(Places(u, e)) /\ Cardinality(Places(u, e)) = Len(k)
    BY <1>2
  <2> HIDE DEF v, n, k
  <2>4. \A i : i \in 1 .. n + 1 <=> i \in 1 .. n \/ i = n + 1
    BY <2>1
  <2>5. n + 1 \notin Places(u, e)
    BY <2>1 DEF Places
  <2>6. CASE f = e
    <3>1. Places(v, e) = Places(u, e) \cup {n + 1}
      BY <2>1, <2>4, <2>6 DEF Places
    <3>2. IsFiniteSet(Places(v, e)) /\ Cardinality(Places(v, e)) = Cardinality(Places(u, e)) + 1
      BY <2>3, <2>5, <3>1, FS_AddElement
    <3>3. Kept(v, {e}) = Append(k, f) /\ Len(Append(k, f)) = Len(k) + 1
      BY <2>2, <2>6, AppendProperties
    <3> QED
      BY <2>1, <2>3, <3>2, <3>3 DEF v
  <2>7. CASE f # e
    <3>1. Places(v, e) = Places(u, e)
      BY <2>1, <2>4, <2>7 DEF Places
    <3>2. Kept(v, {e}) = k
      BY <2>2, <2>7
    <3> QED
      BY <2>1, <2>3, <3>1, <3>2 DEF v
  <2> QED
    BY <2>6, <2>7
<1>3. Seq(V) \subseteq Q
  <2> HIDE DEF Q
  <2> QED
    BY <1>1, <1>2, SequenceInduction
<1> QED
  BY <1>3

LEMMA KeptNone ==
    ASSUME NEW V, NEW S, NEW s \in Seq(V), \A i \in 1 .. Len(s) : s[i] \notin S
    PROVE  Kept(s, S) = <<>>
<1> DEFINE k == Kept(s, S)
<1>1. k \in Seq(V)
  BY KeptGrows
<1>2. \A x : ~ \E i \in 1 .. Len(k) : k[i] = x
  BY KeptMembers
<1> HIDE DEF k
<1>3. 1 \notin 1 .. Len(k) /\ Len(k) \in Nat
  <2>1. ~ \E i \in 1 .. Len(k) : k[i] = k[1]
    BY <1>2
  <2>2. Len(k) \in Nat
    BY <1>1, LenProperties
  <2> QED
    BY <2>1, <2>2
<1>4. Len(k) = 0
  BY <1>3
<1> QED
  BY <1>1, <1>4, EmptySeq DEF k

LEMMA BodyUnended ==
    ASSUME NEW g \in Gates
    PROVE  \A i \in 1 .. Len(Body(g)) : Body(g)[i] \notin {"NL"}
<1>1. \A i \in 1 .. Len(Body(g)) : Body(g)[i] # "NL"
  BY BodyTokens
<1> QED
  BY <1>1

LEMMA GateEnds ==
    ASSUME NEW gates \in Seq(Gates)
    PROVE  Len(Kept(GateLines(gates), {"NL"})) = Len(gates)
<1> DEFINE S == {"NL"}
           Q == {u \in Seq(Gates) : Len(Kept(GateLines(u), S)) = Len(u)}
<1>1. <<>> \in Q
  BY KeptGrows, GateLinesGrow, EmptySeq
<1>2. ASSUME NEW u \in Seq(Gates), NEW g \in Gates, u \in Q PROVE Append(u, g) \in Q
  <2> DEFINE x == GateLines(u)
             b == Body(g)
             y == Append(b, "NL")
  <2>1. /\ x \in Texts /\ b \in Texts /\ y \in Texts /\ GateLines(Append(u, g)) = x \o y
        /\ "NL" \in Tokens /\ Append(u, g) \in Seq(Gates) /\ Len(Append(u, g)) = Len(u) + 1
    <3>1. x \in Texts /\ b \in Texts /\ y \in Texts /\ GateLines(Append(u, g)) = x \o y
      BY GateLinesGrow, GateTyped DEF Texts
    <3>2. "NL" \in Tokens
      BY TokensAre
    <3>3. Append(u, g) \in Seq(Gates) /\ Len(Append(u, g)) = Len(u) + 1
      BY AppendProperties
    <3> HIDE DEF x, b, y
    <3> QED
      BY <3>1, <3>2, <3>3
  <2>2. \A i \in 1 .. Len(b) : b[i] \notin S
    BY BodyUnended
  <2>3. "NL" \in S
    OBVIOUS
  <2> DEFINE nl == "NL"
  <2>4. nl \in Tokens /\ nl \in S /\ y = Append(b, nl)
    BY <2>1, <2>3
  <2> HIDE DEF nl, S, b, x, y
  <2>5. Kept(b, S) = <<>>
    BY <2>1, <2>2, KeptNone DEF Texts
  <2>6. Kept(y, S) = <<nl>>
    <3>1. Kept(Append(b, nl), S) = Append(Kept(b, S), nl)
      BY <2>1, <2>4, KeptAppend DEF Texts
    <3>2. <<nl>> = Append(<<>>, nl)
      BY <2>4, SmallSequences
    <3> QED
      BY <2>4, <2>5, <3>1, <3>2
  <2>7. Kept(x \o y, S) = Kept(x, S) \o <<nl>>
    <3>1. x \in Seq(Tokens) /\ y \in Seq(Tokens)
      BY <2>1 DEF Texts
    <3>2. Kept(x \o y, S) = Kept(x, S) \o Kept(y, S)
      BY <3>1, KeptTogether
    <3> QED
      BY <2>6, <3>2
  <2>8. Len(Kept(x, S) \o <<nl>>) = Len(Kept(x, S)) + 1
    <3> DEFINE k == Kept(x, S)
               w == <<nl>>
    <3>1. k \in Seq(Tokens) /\ w \in Seq(Tokens) /\ Len(w) = 1
      BY <2>1, <2>4, KeptGrows, OnlyLine DEF Texts
    <3> HIDE DEF k, w
    <3>2. Len(k \o w) = Len(k) + Len(w)
      BY <3>1, Joined
    <3> QED
      BY <3>1, <3>2 DEF k, w
  <2>9. Len(Kept(x, S)) = Len(u)
    BY <1>2 DEF x
  <2> QED
    BY <2>1, <2>7, <2>8, <2>9 DEF x, y
<1>3. Seq(Gates) \subseteq Q
  <2> HIDE DEF Q
  <2> QED
    BY <1>1, <1>2, SequenceInduction
<1> QED
  BY <1>3
-----------------------------------------------------------------------------
(***************************************************************************)
(* What follows the lines of the gates has no escape sequence.             *)
(***************************************************************************)
Colon == ": "

Plain == {Marker, "NL", Colon} \cup Labels \cup ToSet(Digits)

(* What follows a label of the summary.                                    *)
Numbered == {Colon} \cup ToSet(Digits)

LEMMA PlainAre ==
    /\ Plain \subseteq Tokens /\ "SGR" \notin Plain /\ "NL" \in Plain /\ Marker \in Plain
    /\ Labels \subseteq Plain /\ ToSet(Digits) \subseteq Plain /\ Colon \in Plain
    /\ \A l \in Labels : l \notin ToSet(Digits) /\ l # "NL" /\ l # Marker /\ l # Colon
    /\ "NL" \notin ToSet(Digits) /\ Marker \notin ToSet(Digits) /\ Marker # "NL"
    /\ Colon \notin ToSet(Digits) /\ Colon # Marker /\ Colon # "NL"
    /\ Numbered \subseteq Plain /\ ToSet(Digits) \subseteq Numbered /\ Colon \in Numbered
    /\ \A l \in Labels : l \in Tokens /\ l \notin Numbered
<1>1. ToSet(Digits) = {"0", "1", "2", "3", "4", "5", "6", "7", "8", "9"}
  BY TokensAre
<1>2. "SGR" \notin Plain
  BY <1>1 DEF Plain, Labels, Marker, Colon
<1>3. \A l \in Labels : l \notin ToSet(Digits) /\ l # "NL" /\ l # Marker /\ l # Colon
  BY <1>1 DEF Labels, Marker, Colon
<1>4. /\ "NL" \notin ToSet(Digits) /\ Marker \notin ToSet(Digits) /\ Marker # "NL"
      /\ Colon \notin ToSet(Digits) /\ Colon # Marker /\ Colon # "NL"
  BY <1>1 DEF Marker, Colon
<1>5. Colon \in Tokens
  BY TokensAre DEF Colon
<1>6. Plain \subseteq Tokens
  BY <1>5, TokensAre DEF Plain
<1> QED
  BY <1>2, <1>3, <1>4, <1>6 DEF Plain, Numbered

(* The parts of the log after the lines of the gates.                      *)
MarkerLine(s) == IF s.passed THEN <<Marker, "NL">> ELSE <<>>

LEMMA SweepTyped ==
    ASSUME NEW s \in Sweeps, NEW label \in Labels
    PROVE  /\ s.gates \in Seq(Gates) /\ GateLines(s.gates) \in Seq(Tokens)
           /\ s.counts[label] \in Seq(ToSet(Digits)) /\ s.counts[label] # <<>>
           /\ SummaryLine(s, label) \in Seq({label, Colon, "NL"} \cup ToSet(Digits))
           /\ SummaryLine(s, label) \in Seq(Plain)
           /\ MarkerLine(s) \in Seq({Marker, "NL"}) /\ MarkerLine(s) \in Seq(Plain)
<1>1. s.gates \in Seq(Gates) /\ s.counts[label] \in Seq(ToSet(Digits)) /\ s.counts[label] # <<>>
  BY TriageAssumption
<1>2. GateLines(s.gates) \in Seq(Tokens)
  BY <1>1, GateLinesGrow
<1> DEFINE nl == "NL"
           D == ToSet(Digits)
           colon == Colon
           E == {label, colon, nl} \cup D
           m == Marker
<1>3. {label, colon, nl} \cup D \subseteq Plain /\ {m, nl} \subseteq Plain
  BY PlainAre
<1> HIDE DEF nl, colon, D, m
<1>4. \A e, f \in E : <<e>> \in Seq(E) /\ <<e, f>> \in Seq(E)
  <2> HIDE DEF E
  <2> QED
    OBVIOUS
<1>5. s.counts[label] \in Seq(E)
  <2>1. D \subseteq E /\ s.counts[label] \in Seq(D)
    BY <1>1 DEF D
  <2> HIDE DEF E
  <2> QED
    BY <2>1, SeqMonotonic
<1>6. SummaryLine(s, label) \in Seq(E)
  <2>1. SummaryLine(s, label) = <<label, colon>> \o s.counts[label] \o <<nl>>
    BY DEF SummaryLine, Colon, colon, nl
  <2>2. <<label, colon>> \in Seq(E) /\ <<nl>> \in Seq(E)
    BY <1>4
  <2> DEFINE a == <<label, colon>>
             b == s.counts[label]
             c == <<nl>>
  <2> HIDE DEF a, b, c, E
  <2>3. a \in Seq(E) /\ b \in Seq(E) /\ c \in Seq(E)
    BY <1>5, <2>2 DEF a, b, c
  <2>4. a \o b \in Seq(E)
    BY <2>3, ConcatProperties
  <2>5. (a \o b) \o c \in Seq(E)
    BY <2>3, <2>4, ConcatProperties
  <2> QED
    BY <2>1, <2>5 DEF a, b, c
<1>7. SummaryLine(s, label) \in Seq(Plain)
  <2>1. E \subseteq Plain
    BY <1>3
  <2> HIDE DEF E
  <2> QED
    BY <1>6, <2>1, SeqMonotonic
<1>8. MarkerLine(s) \in Seq({m, nl})
  <2>1. \A x, y : <<x, y>> \in Seq({x, y}) /\ <<>> \in Seq({x, y})
    <3> TAKE x, y
    <3> DEFINE S == {x, y}
    <3>1. x \in S /\ y \in S
      OBVIOUS
    <3> HIDE DEF S
    <3> QED
      BY <3>1, SmallSequences DEF S
  <2> QED
    BY <2>1 DEF MarkerLine, m, nl
<1>9. MarkerLine(s) \in Seq(Plain)
  BY <1>3, <1>8, SeqMonotonic
<1> QED
  BY <1>1, <1>2, <1>6, <1>7, <1>8, <1>9 DEF nl, colon, D, m

LEMMA ThreeTyped ==
    ASSUME NEW V, NEW a \in Seq(V), NEW b \in Seq(V), NEW c \in Seq(V)
    PROVE  (a \o b) \o c \in Seq(V)
<1> DEFINE e == a \o b
<1>1. e \in Seq(V)
  BY ConcatProperties
<1> HIDE DEF e
<1>2. e \o c \in Seq(V)
  BY <1>1, ConcatProperties
<1> QED
  BY <1>2 DEF e

Rest(s) ==
    ((((MarkerLine(s) \o SummaryLine(s, "Total tests")) \o SummaryLine(s, "Passed"))
        \o SummaryLine(s, "Failed")) \o SummaryLine(s, "Warnings"))

LEMMA TextShape ==
    ASSUME NEW s \in Sweeps
    PROVE  Rest(s) \in Seq(Plain) /\ Text(s) = GateLines(s.gates) \o Rest(s)
<1> DEFINE g == GateLines(s.gates)
           m == MarkerLine(s)
           a == SummaryLine(s, "Total tests")
           b == SummaryLine(s, "Passed")
           c == SummaryLine(s, "Failed")
           d == SummaryLine(s, "Warnings")
<1>1. /\ m \in Seq(Plain) /\ a \in Seq(Plain) /\ b \in Seq(Plain) /\ c \in Seq(Plain) /\ d \in Seq(Plain)
      /\ g \in Seq(Tokens)
  <2>1. \A l \in Labels : SummaryLine(s, l) \in Seq(Plain) /\ m \in Seq(Plain) /\ g \in Seq(Tokens)
    BY SweepTyped
  <2>2. {"Total tests", "Passed", "Failed", "Warnings"} = Labels
    BY DEF Labels
  <2> HIDE DEF m, g
  <2> QED
    BY <2>1, <2>2
<1>2. Text(s) = ((((g \o m) \o a) \o b) \o c) \o d /\ Rest(s) = (((m \o a) \o b) \o c) \o d
  BY DEF Text, Rest, MarkerLine
<1> HIDE DEF g, m, a, b, c, d
<1>3. (m \o a) \o b \in Seq(Plain)
  BY <1>1, ThreeTyped
<1>4. (((m \o a) \o b) \o c) \o d \in Seq(Plain)
  <2> DEFINE e == (m \o a) \o b
  <2> HIDE DEF e
  <2>1. e \in Seq(Plain)
    BY <1>3 DEF e
  <2>2. (e \o c) \o d \in Seq(Plain)
    BY <1>1, <2>1, ThreeTyped
  <2> QED
    BY <2>2 DEF e
<1>5. /\ m \in Seq(Tokens) /\ a \in Seq(Tokens) /\ b \in Seq(Tokens) /\ c \in Seq(Tokens)
      /\ d \in Seq(Tokens)
  BY <1>1, PlainAre, SeqMonotonic
<1>6. ((g \o m) \o a) \o b = g \o ((m \o a) \o b)
  <2>1. g \in Seq(Tokens) /\ m \in Seq(Tokens) /\ a \in Seq(Tokens) /\ b \in Seq(Tokens)
    BY <1>1, <1>5
  <2>2. (g \o m) \o a = g \o (m \o a) /\ m \o a \in Seq(Tokens)
    <3>1. g \in Seq(Tokens) /\ m \in Seq(Tokens) /\ a \in Seq(Tokens)
      BY <2>1
    <3>2. (g \o m) \o a = g \o (m \o a)
      BY <3>1, ConcatAssociative
    <3>3. m \o a \in Seq(Tokens)
      BY <3>1, ConcatProperties
    <3> QED
      BY <3>2, <3>3
  <2> DEFINE f == m \o a
  <2> HIDE DEF f
  <2>3. f \in Seq(Tokens)
    BY <2>2 DEF f
  <2>4. (g \o f) \o b = g \o (f \o b)
    <3>1. g \in Seq(Tokens) /\ f \in Seq(Tokens) /\ b \in Seq(Tokens)
      BY <2>1, <2>3
    <3> QED
      BY <3>1, ConcatAssociative
  <2> QED
    BY <2>2, <2>4 DEF f
<1>7. (((g \o m) \o a) \o b) \in Seq(Tokens) /\ (m \o a) \o b \in Seq(Tokens)
  <2>1. (m \o a) \o b \in Seq(Tokens)
    BY <1>5, ThreeTyped
  <2> DEFINE e == (m \o a) \o b
  <2> HIDE DEF e
  <2>2. e \in Seq(Tokens)
    BY <2>1 DEF e
  <2>3. g \o e \in Seq(Tokens)
    BY <1>1, <2>2, ConcatProperties
  <2> QED
    BY <1>6, <2>1, <2>3 DEF e
<1>8. ((g \o ((m \o a) \o b)) \o c) \o d = g \o ((((m \o a) \o b) \o c) \o d)
  <2> DEFINE e == (m \o a) \o b
  <2> HIDE DEF e
  <2>1. e \in Seq(Tokens)
    BY <1>7 DEF e
  <2>2. ((g \o e) \o c) \o d = g \o ((e \o c) \o d)
    <3>1. g \in Seq(Tokens) /\ e \in Seq(Tokens) /\ c \in Seq(Tokens) /\ d \in Seq(Tokens)
      BY <1>1, <1>5, <2>1
    <3>2. (g \o e) \o c = g \o (e \o c) /\ e \o c \in Seq(Tokens)
      <4>1. g \in Seq(Tokens) /\ e \in Seq(Tokens) /\ c \in Seq(Tokens)
        BY <3>1
      <4>2. (g \o e) \o c = g \o (e \o c)
        BY <4>1, ConcatAssociative
      <4>3. e \o c \in Seq(Tokens)
        BY <4>1, ConcatProperties
      <4> QED
        BY <4>2, <4>3
    <3> DEFINE f == e \o c
    <3> HIDE DEF f
    <3>3. f \in Seq(Tokens)
      BY <3>2 DEF f
    <3>4. (g \o f) \o d = g \o (f \o d)
      <4>1. g \in Seq(Tokens) /\ f \in Seq(Tokens) /\ d \in Seq(Tokens)
        BY <3>1, <3>3
      <4> QED
        BY <4>1, ConcatAssociative
    <3> QED
      BY <3>2, <3>4 DEF f
  <2> QED
    BY <2>2 DEF e
<1> QED
  BY <1>2, <1>4, <1>6, <1>8 DEF g
-----------------------------------------------------------------------------
(***************************************************************************)
(* The verdict lines of a log that may end anywhere.                       *)
(***************************************************************************)
Lacks(x, e) == \A i \in 1 .. Len(x) : x[i] # e

LEMMA LacksAppend ==
    ASSUME NEW V, NEW u \in Seq(V), NEW f \in V, NEW e
    PROVE  Lacks(Append(u, f), e) <=> Lacks(u, e) /\ f # e
<1>1. /\ Len(u) \in Nat /\ Len(Append(u, f)) = Len(u) + 1 /\ Append(u, f)[Len(u) + 1] = f
      /\ \A i \in 1 .. Len(u) : Append(u, f)[i] = u[i] /\ i \in 1 .. Len(u) + 1
      /\ Len(u) + 1 \in 1 .. Len(u) + 1
      /\ \A i \in 1 .. Len(u) + 1 : i \in 1 .. Len(u) \/ i = Len(u) + 1
  BY LenProperties, AppendProperties
<1> QED
  BY <1>1 DEF Lacks

LEMMA LinesLack ==
    ASSUME NEW y \in Texts, NEW e, Lacks(y, e)
    PROVE  Lines(y) \in Seq(Texts) /\ \A l \in 1 .. Len(Lines(y)) : Lacks(Lines(y)[l], e)
<1> DEFINE Fine(lines) == \A l \in 1 .. Len(lines) : Lacks(lines[l], e)
           Q == {u \in Texts : Lacks(u, e) => Fine(Lines(u))}
<1>1. <<>> \in Q
  <2>1. <<>> \in Texts /\ Lines(<<>>) = << <<>> >> /\ Len(<<>>) = 0 /\ 1 .. 0 = {}
    BY EmptySeq, LinesGrow DEF Texts
  <2>2. Lacks(<<>>, e)
    BY <2>1 DEF Lacks
  <2>3. \A x \in Texts : Lacks(x, e) => Fine(<<x>>)
    <3> TAKE x \in Texts
    <3>1. Len(<<x>>) = 1 /\ <<x>>[1] = x
      BY OnlyLine
    <3>2. \A l \in 1 .. 1 : l = 1
      OBVIOUS
    <3> QED
      BY <3>1, <3>2
  <2> HIDE DEF Fine
  <2> QED
    BY <2>1, <2>2, <2>3
<1>2. ASSUME NEW u \in Texts, NEW f \in Tokens, u \in Q PROVE Append(u, f) \in Q
  <2>1. Append(u, f) \in Texts /\ Lines(Append(u, f)) = Extended(Lines(u), f) /\ Lines(u) \in Split
    BY LinesGrow, AppendProperties DEF Texts
  <2> SUFFICES ASSUME Lacks(Append(u, f), e) PROVE Fine(Lines(Append(u, f)))
    BY <2>1
  <2>2. Lacks(u, e) /\ f # e
    BY LacksAppend DEF Texts
  <2>3. Fine(Lines(u))
    BY <1>2, <2>2
  <2> DEFINE lines == Lines(u)
             n == Len(lines)
  <2>4. lines \in Seq(Texts) /\ n \in Nat /\ n \in 1 .. n
    <3>1. lines \in Seq(Texts) /\ lines # <<>>
      BY <2>1 DEF Split, Texts
    <3> HIDE DEF lines
    <3> QED
      BY <3>1, EmptySeq, LenProperties
  <2> HIDE DEF lines
  <2>5. Fine(Extended(lines, f))
    <3>1. CASE f = "NL"
      <4>1. \A t \in Texts : Lacks(t, e) => Fine(Append(lines, t))
        <5> TAKE t \in Texts
        <5> DEFINE w == Append(lines, t)
        <5>1. /\ Len(w) = n + 1 /\ w[n + 1] = t /\ \A i \in 1 .. n : w[i] = lines[i]
          BY <2>4, AppendProperties
        <5>2. \A i \in 1 .. n + 1 : i \in 1 .. n \/ i = n + 1
          BY <2>4
        <5> HIDE DEF w
        <5>3. Lacks(t, e) => Fine(w)
          BY <2>3, <5>1, <5>2 DEF lines
        <5> QED
          BY <5>3 DEF w
      <4>2. <<>> \in Texts /\ Lacks(<<>>, e)
        BY EmptySeq DEF Texts, Lacks
      <4> HIDE DEF Fine
      <4> QED
        BY <3>1, <4>1, <4>2 DEF Extended
    <3>2. CASE f # "NL"
      <4> DEFINE t == Append(lines[n], f)
                 w == [lines EXCEPT ![n] = t]
      <4>1. Extended(lines, f) = w
        BY <3>2 DEF Extended
      <4>2. lines[n] \in Texts /\ Lacks(lines[n], e)
        BY <2>3, <2>4, ElementOfSeq DEF lines
      <4>3. t \in Texts /\ Lacks(t, e)
        BY <2>2, <4>2, LacksAppend, AppendProperties DEF Texts
      <4> HIDE DEF t
      <4>4. Len(w) = n /\ \A i \in 1 .. n : w[i] = IF i = n THEN t ELSE lines[i]
        BY <2>4, <4>3, ExceptSeq
      <4> HIDE DEF w
      <4> QED
        BY <2>3, <4>1, <4>3, <4>4 DEF lines
    <3> QED
      BY <3>1, <3>2
  <2> HIDE DEF Fine
  <2> QED
    BY <2>1, <2>5 DEF lines
<1>3. Seq(Tokens) \subseteq Q
  <2> HIDE DEF Q
  <2> QED
    BY <1>1, <1>2, SequenceInduction DEF Texts
<1>4. Fine(Lines(y))
  BY <1>3 DEF Texts
<1>5. Lines(y) \in Seq(Texts)
  BY LinesGrow DEF Texts, Split
<1> QED
  BY <1>4, <1>5

LEMMA PlainHasNoVerdict ==
    ASSUME NEW y \in Seq(Plain), NEW word
    PROVE  y \in Texts /\ Kept(Lines(y), Hits(word)) = <<>>
<1>1. y \in Texts /\ Lacks(y, "SGR")
  <2>1. \A i \in 1 .. Len(y) : y[i] \in Plain
    BY ElementOfSeq
  <2>2. y \in Seq(Tokens)
    BY PlainAre, SeqMonotonic
  <2> QED
    BY <2>1, <2>2, PlainAre DEF Texts, Lacks
<1>2. Lines(y) \in Seq(Texts) /\ \A l \in 1 .. Len(Lines(y)) : Lacks(Lines(y)[l], "SGR")
  BY <1>1, LinesLack
<1>3. ASSUME NEW line \in Texts, Lacks(line, "SGR") PROVE ~ tokenRE(line, word)
  <2> SUFFICES ASSUME NEW i \in 1 .. Len(line) - 2 PROVE SubSeq(line, i, i + 2) # <<"SGR", word, "SGR">>
    BY DEF tokenRE
  <2> DEFINE x == SubSeq(line, i, i + 2)
  <2>1. Len(line) \in Nat /\ i \in 1 .. Len(line) /\ i + 1 \in 1 .. Len(line) /\ i + 2 \in 1 .. Len(line)
    BY LenProperties DEF Texts
  <2>2. x[1] = line[i]
    <3>1. \A j \in i .. i + 2 : line[j] \in Tokens
      BY <2>1, ElementOfSeq DEF Texts
    <3>2. \A j \in 1 .. (i + 2) - i + 1 : x[j] = line[i + j - 1]
      BY <3>1, SubSeqProperties
    <3> HIDE DEF x
    <3> QED
      BY <3>2
  <2>3. line[i] # "SGR"
    BY <1>3, <2>1 DEF Lacks
  <2> HIDE DEF x
  <2>4. x # <<"SGR", word, "SGR">>
    BY <2>2, <2>3
  <2> QED
    BY <2>4 DEF x
<1>4. \A l \in 1 .. Len(Lines(y)) : Lines(y)[l] \notin Hits(word)
  <2>1. \A l \in 1 .. Len(Lines(y)) : Lines(y)[l] \in Texts
    BY <1>2, ElementOfSeq
  <2> QED
    BY <1>2, <1>3, <2>1 DEF Hits
<1>5. Kept(Lines(y), Hits(word)) = <<>>
  <2> DEFINE l == Lines(y)
  <2> HIDE DEF l
  <2>1. l \in Seq(Texts) /\ \A i \in 1 .. Len(l) : l[i] \notin Hits(word)
    BY <1>2, <1>4 DEF l
  <2>2. Kept(l, Hits(word)) = <<>>
    BY <2>1, KeptNone
  <2> QED
    BY <2>2 DEF l
<1> QED
  BY <1>1, <1>5

(* n tokens of the log are the lines of j gates, and y.                    *)
ReadTo(s, n, j, y) ==
    /\ j \in 0 .. Len(s.gates) /\ y \in Texts
    /\ SubSeq(Text(s), 1, n) = GateLines(SubSeq(s.gates, 1, j)) \o y
    /\ \/ j = Len(s.gates) /\ y \in Seq(Plain)
       \/ /\ j < Len(s.gates)
          /\ \E k \in 0 .. Len(Body(s.gates[j + 1])) : y = SubSeq(Body(s.gates[j + 1]), 1, k)

LEMMA LogEnds ==
    ASSUME NEW s \in Sweeps, NEW n \in 0 .. Len(Text(s))
    PROVE  \E j, y : ReadTo(s, n, j, y)
<1> DEFINE g == GateLines(s.gates)
           r == Rest(s)
<1>1. /\ s.gates \in Seq(Gates) /\ g \in Seq(Tokens) /\ r \in Seq(Plain) /\ Text(s) = g \o r
      /\ r \in Seq(Tokens) /\ Len(s.gates) \in Nat
  <2>1. "Passed" \in Labels
    BY DEF Labels
  <2>2. s.gates \in Seq(Gates) /\ g \in Seq(Tokens)
    BY <2>1, SweepTyped
  <2>3. r \in Seq(Plain) /\ Text(s) = g \o r
    BY TextShape
  <2>4. r \in Seq(Tokens)
    BY <2>3, PlainAre, SeqMonotonic
  <2> QED
    BY <2>2, <2>3, <2>4, LenProperties
<1> HIDE DEF g, r
<1>2. Len(g) \in Nat /\ Len(r) \in Nat /\ Len(Text(s)) = Len(g) + Len(r)
  BY <1>1, Joined
<1>3. CASE n < Len(g)
  <2>1. n \in 0 .. Len(g) /\ n \in Nat
    BY <1>2, <1>3
  <2>2. PICK j, k : EndsWithin(s.gates, n, j, k)
    BY <1>1, <1>3, <2>1, EndsSomewhere DEF g
  <2>3. SubSeq(Text(s), 1, n) = SubSeq(g, 1, n)
    BY <1>1, <2>1, BeginningOfFirst
  <2>4. j \in 0 .. Len(s.gates) /\ j < Len(s.gates) /\ k \in 0 .. Len(Body(s.gates[j + 1]))
        /\ j + 1 \in 1 .. Len(s.gates)
    BY <1>1, <2>2 DEF EndsWithin
  <2> DEFINE y == SubSeq(Body(s.gates[j + 1]), 1, k)
  <2>5. y \in Texts
    <3>1. s.gates[j + 1] \in Gates
      BY <1>1, <2>4, ElementOfSeq
    <3>2. Body(s.gates[j + 1]) \in Seq(Tokens)
      BY <3>1, GateTyped
    <3> QED
      BY <2>4, <3>2, Beginning DEF Texts
  <2>6. SubSeq(Text(s), 1, n) = GateLines(SubSeq(s.gates, 1, j)) \o y
    BY <2>2, <2>3 DEF EndsWithin, g
  <2>7. ReadTo(s, n, j, y)
    BY <2>4, <2>5, <2>6 DEF ReadTo
  <2> QED
    BY <2>7
<1>4. CASE ~ (n < Len(g))
  <2> DEFINE m == n - Len(g)
             y == SubSeq(r, 1, m)
             j == Len(s.gates)
  <2>1. m \in 0 .. Len(r) /\ n = Len(g) + m
    BY <1>2, <1>4
  <2> HIDE DEF m
  <2>2. SubSeq(g \o r, 1, Len(g) + m) = g \o y
    BY <1>1, <2>1, BeginningOfBoth
  <2>3. y \in Seq(Plain) /\ y \in Texts
    BY <1>1, <2>1, Beginning DEF Texts
  <2>4. SubSeq(s.gates, 1, j) = s.gates /\ j \in 0 .. Len(s.gates)
    BY <1>1, SubSeqFull
  <2>5. ReadTo(s, n, j, y)
    BY <1>1, <2>1, <2>2, <2>3, <2>4 DEF ReadTo, g
  <2> QED
    BY <2>5
<1> QED
  BY <1>3, <1>4

(* The lines that are taken for verdicts, against the gates that have them. *)
Heeds(lines, said, asserted) ==
    /\ Len(said) \in Nat /\ Len(lines) \in Nat /\ Len(asserted) \in Nat
    /\ Len(said) <= Len(asserted)
    /\ \A i \in 1 .. Len(said) : lines[i] = Body(asserted[i])
    /\ \/ Len(lines) = Len(said)
       \/ /\ Len(lines) = Len(said) + 1 /\ Len(lines) <= Len(asserted)
          /\ \/ lines[Len(lines)] = Core(asserted[Len(lines)])
             \/ lines[Len(lines)] = Body(asserted[Len(lines)])

LEMMA TailHeeded ==
    ASSUME NEW s \in Sweeps, NEW n, NEW j, NEW y, ReadTo(s, n, j, y), NEW word
    PROVE  LET said == Kept(SubSeq(s.gates, 1, j), Said(word))
               asserted == Kept(s.gates, Said(word))
               last == Kept(Lines(y), Hits(word))
           IN  /\ said \in Seq(Gates) /\ asserted \in Seq(Gates) /\ Len(said) <= Len(asserted)
               /\ \A i \in 1 .. Len(said) : asserted[i] = said[i]
               /\ \/ last = <<>>
                  \/ /\ Len(said) + 1 <= Len(asserted) /\ last = <<y>>
                     /\ \/ y = Core(asserted[Len(said) + 1])
                        \/ y = Body(asserted[Len(said) + 1])
<1> DEFINE H == Hits(word)
           S == Said(word)
           gates == s.gates
           done == SubSeq(gates, 1, j)
           said == Kept(done, S)
           asserted == Kept(gates, S)
           last == Kept(Lines(y), H)
<1>1. gates \in Seq(Gates) /\ Len(gates) \in Nat /\ j \in 0 .. Len(gates) /\ j \in Nat /\ y \in Texts
  <2>1. gates \in Seq(Gates)
    BY TriageAssumption
  <2> QED
    BY <2>1, LenProperties DEF ReadTo
<1>2. done \in Seq(Gates) /\ Len(done) = j
  BY <1>1, Beginning
<1>3. said \in Seq(Gates) /\ asserted \in Seq(Gates)
  BY <1>1, <1>2, KeptGrows
<1>4. CASE j = Len(gates) /\ y \in Seq(Plain)
  <2>1. done = gates
    BY <1>1, <1>4, SubSeqFull
  <2>2. last = <<>>
    BY <1>4, PlainHasNoVerdict
  <2>3. said = asserted /\ Len(said) \in Nat
    BY <1>3, <2>1, LenProperties
  <2> HIDE DEF said, asserted, last
  <2> QED
    BY <1>3, <2>2, <2>3 DEF said, asserted, last
<1>5. CASE j < Len(gates) /\ \E k \in 0 .. Len(Body(gates[j + 1])) : y = SubSeq(Body(gates[j + 1]), 1, k)
  <2> DEFINE g == gates[j + 1]
             later == SubSeq(gates, j + 2, Len(gates))
             more == IF g \in S THEN Append(said, g) ELSE said
             rest == Kept(later, S)
  <2>1. PICK k \in 0 .. Len(Body(g)) : y = SubSeq(Body(g), 1, k)
    BY <1>5
  <2>2. /\ g \in Gates /\ SubSeq(gates, 1, j + 1) = Append(done, g)
        /\ Append(done, g) \in Seq(Gates) /\ Len(Append(done, g)) = j + 1
    <3>1. j < Len(gates)
      BY <1>5
    <3>2. g \in Gates /\ SubSeq(gates, 1, j + 1) = Append(done, g)
      BY <1>1, <3>1, Shorter
    <3> QED
      BY <1>2, <3>2, AppendProperties
  <2>3. later \in Seq(Gates) /\ gates = Append(done, g) \o later
    <3> DEFINE z == Append(done, g)
    <3>1. \A i \in j + 2 .. Len(gates) : i \in 1 .. Len(gates)
      BY <1>1
    <3>2. \A i \in j + 2 .. Len(gates) : gates[i] \in Gates
      BY <1>1, <3>1, ElementOfSeq
    <3>3. /\ later \in Seq(Gates)
          /\ Len(later) = (IF j + 2 <= Len(gates) THEN Len(gates) - (j + 2) + 1 ELSE 0)
          /\ \A i \in 1 .. Len(gates) - (j + 2) + 1 : later[i] = gates[(j + 2) + i - 1]
      BY <1>1, <3>2, SubSeqProperties
    <3> HIDE DEF later
    <3>4. Len(later) = Len(gates) - (j + 1)
      BY <1>1, <1>5, <3>3
    <3>5. z \in Seq(Gates) /\ Len(z) = j + 1 /\ \A i \in 1 .. j + 1 : z[i] = gates[i]
      <4>1. j + 1 \in 0 .. Len(gates)
        BY <1>1, <1>5
      <4> DEFINE m == j + 1
      <4>2. m \in 0 .. Len(gates)
        BY <4>1
      <4> HIDE DEF m
      <4>3. \A i \in 1 .. m : SubSeq(gates, 1, m)[i] = gates[i]
        BY <1>1, <4>2, Beginning
      <4> QED
        BY <2>2, <4>3 DEF m
    <3> HIDE DEF z
    <3>6. /\ z \o later \in Seq(Gates) /\ Len(z \o later) = Len(z) + Len(later)
          /\ \A i \in 1 .. Len(z) : (z \o later)[i] = z[i]
          /\ \A i \in 1 .. Len(later) : (z \o later)[Len(z) + i] = later[i]
      <4>1. z \in Seq(Gates) /\ later \in Seq(Gates)
        BY <3>3, <3>5
      <4> QED
        BY <4>1, Joined
    <3> DEFINE w == z \o later
    <3> HIDE DEF w
    <3>7. w \in Seq(Gates) /\ Len(w) = Len(gates)
      <4>1. w \in Seq(Gates) /\ Len(w) = Len(z) + Len(later)
        BY <3>6 DEF w
      <4>2. Len(z) = j + 1 /\ Len(later) = Len(gates) - (j + 1)
        BY <3>4, <3>5
      <4>3. j \in Nat /\ Len(gates) \in Nat
        BY <1>1
      <4> DEFINE n1 == Len(gates)
                 n2 == Len(z)
                 n3 == Len(later)
                 n4 == Len(w)
      <4>4. n4 = n2 + n3 /\ n2 = j + 1 /\ n3 = n1 - (j + 1) /\ j \in Nat /\ n1 \in Nat
        BY <4>1, <4>2, <4>3
      <4> HIDE DEF n1, n2, n3, n4
      <4>5. n4 = n1
        BY <4>4
      <4> QED
        BY <4>1, <4>5 DEF n1, n4
    <3>8. \A i \in 1 .. Len(gates) : w[i] = gates[i]
      <4> TAKE i \in 1 .. Len(gates)
      <4>1. CASE i <= j + 1
        <5>1. i \in 1 .. j + 1
          BY <1>1, <4>1
        <5> QED
          BY <3>5, <3>6, <5>1 DEF w
      <4>2. CASE ~ (i <= j + 1)
        <5> DEFINE e == i - (j + 1)
        <5>1. /\ e \in 1 .. Len(later) /\ i = (j + 1) + e
              /\ e \in 1 .. Len(gates) - (j + 2) + 1 /\ (j + 2) + e - 1 = (j + 1) + e
          BY <1>1, <3>4, <4>2
        <5> HIDE DEF e
        <5>2. w[i] = later[e]
          BY <3>5, <3>6, <5>1 DEF w
        <5>3. later[e] = gates[i]
          BY <3>3, <5>1
        <5> QED
          BY <5>2, <5>3
      <4> QED
        BY <4>1, <4>2
    <3>9. w = gates
      BY <1>1, <3>7, <3>8, SeqEqual
    <3> QED
      BY <3>3, <3>9 DEF w, z
  <2>4. Kept(Append(done, g), S) = more
    <3>1. done \in Seq(Gates) /\ g \in Gates
      BY <1>2, <2>2
    <3> HIDE DEF done, g, S
    <3>2. Kept(Append(done, g), S) = IF g \in S THEN Append(Kept(done, S), g) ELSE Kept(done, S)
      BY <3>1, KeptAppend
    <3> QED
      BY <3>2
  <2>5. asserted = more \o rest
    <3> DEFINE z == Append(done, g)
    <3>1. z \in Seq(Gates) /\ later \in Seq(Gates) /\ gates = z \o later /\ Kept(z, S) = more
      BY <2>2, <2>3, <2>4
    <3> HIDE DEF z, later, more
    <3>2. Kept(z \o later, S) = Kept(z, S) \o Kept(later, S)
      BY <3>1, KeptTogether
    <3> QED
      BY <3>1, <3>2
  <2>6. rest \in Seq(Gates)
    BY <2>3, KeptGrows
  <2>7. /\ y \in Texts /\ \A i \in 1 .. Len(y) : y[i] # "NL"
        /\ tokenRE(y, word) => word = g.verdict /\ (y = Core(g) \/ y = Body(g))
    BY <2>1, <2>2, VerdictFound DEF Texts
  <2>8. last = IF y \in H THEN <<y>> ELSE <<>>
    <3>1. Lines(y) = <<y>>
      BY <2>7, LineAlone
    <3>2. <<y>> = Append(<<>>, y) /\ <<>> \in Seq(Texts)
      BY <2>7, SmallSequences
    <3> DEFINE p == <<>>
               q == <<y>>
    <3>3. p \in Seq(Texts) /\ q = Append(p, y) /\ Kept(p, H) = p
      BY <3>2, KeptGrows
    <3> HIDE DEF p, q, H
    <3>4. Kept(q, H) = IF y \in H THEN Append(p, y) ELSE p
      BY <2>7, <3>3, KeptAppend
    <3> QED
      BY <3>1, <3>3, <3>4 DEF p, q
  <2>9. y \in H => g \in S /\ (y = Core(g) \/ y = Body(g))
    BY <2>2, <2>7 DEF Hits, Said
  <2> HIDE DEF H, S, g, later, rest, said, asserted, last, done, gates
  <2>10. /\ more \in Seq(Gates) /\ Len(more) = (IF g \in S THEN Len(said) + 1 ELSE Len(said))
         /\ \A i \in 1 .. Len(said) : more[i] = said[i] /\ i \in 1 .. Len(more)
         /\ g \in S => more[Len(said) + 1] = g /\ Len(said) + 1 \in 1 .. Len(more)
         /\ Len(said) \in Nat /\ Len(more) \in Nat
    <3>0. said \in Seq(Gates) /\ Len(said) \in Nat
      BY <1>3, LenProperties
    <3>1. CASE g \in S
      <4> DEFINE z == Append(said, g)
      <4>1. /\ z \in Seq(Gates) /\ Len(z) = Len(said) + 1 /\ z[Len(said) + 1] = g
            /\ \A i \in 1 .. Len(said) : z[i] = said[i]
        BY <2>2, <3>0, AppendProperties
      <4>2. more = z
        BY <3>1
      <4> HIDE DEF z, more
      <4> QED
        BY <3>0, <3>1, <4>1, <4>2
    <3>2. CASE g \notin S
      <4>1. more = said
        BY <3>2
      <4> HIDE DEF more
      <4> QED
        BY <3>0, <3>2, <4>1
    <3> QED
      BY <3>1, <3>2
  <2> HIDE DEF more
  <2>11. /\ Len(asserted) = Len(more) + Len(rest) /\ Len(rest) \in Nat
         /\ \A i \in 1 .. Len(more) : asserted[i] = more[i]
    <3>1. more \in Seq(Gates) /\ rest \in Seq(Gates)
      BY <2>6, <2>10
    <3>2. /\ Len(more \o rest) = Len(more) + Len(rest) /\ Len(rest) \in Nat
          /\ \A i \in 1 .. Len(more) : (more \o rest)[i] = more[i]
      BY <3>1, Joined
    <3> QED
      BY <2>5, <3>2
  <2>12. Len(said) <= Len(asserted) /\ \A i \in 1 .. Len(said) : asserted[i] = said[i]
    <3>1. Len(said) <= Len(more)
      BY <2>10
    <3> QED
      BY <2>10, <2>11, <3>1
  <2>13. last = <<>> \/ /\ Len(said) + 1 <= Len(asserted) /\ last = <<y>>
                        /\ \/ y = Core(asserted[Len(said) + 1])
                           \/ y = Body(asserted[Len(said) + 1])
    <3>1. CASE y \in H
      <4>1. g \in S /\ (y = Core(g) \/ y = Body(g)) /\ last = <<y>>
        BY <2>8, <2>9, <3>1
      <4>2. asserted[Len(said) + 1] = g
        BY <2>10, <2>11, <4>1
      <4>3. Len(said) + 1 <= Len(asserted)
        BY <2>10, <2>11, <4>1
      <4> QED
        BY <4>1, <4>2, <4>3
    <3>2. CASE y \notin H
      BY <2>8, <3>2
    <3> QED
      BY <3>1, <3>2
  <2> QED
    BY <1>3, <2>12, <2>13 DEF said, asserted, last, done, gates, H, S
<1> QED
  BY <1>4, <1>5 DEF ReadTo

LEMMA LinesHeeded ==
    ASSUME NEW s \in Sweeps, NEW n, NEW j, NEW y, ReadTo(s, n, j, y), NEW word
    PROVE  /\ Lines(SubSeq(Text(s), 1, n)) \in Seq(Texts)
           /\ Heeds(Kept(Lines(SubSeq(Text(s), 1, n)), Hits(word)),
                    Kept(SubSeq(s.gates, 1, j), Said(word)), Kept(s.gates, Said(word)))
<1> DEFINE H == Hits(word)
           done == SubSeq(s.gates, 1, j)
           said == Kept(done, Said(word))
           asserted == Kept(s.gates, Said(word))
           last == Kept(Lines(y), H)
           raw == SubSeq(Text(s), 1, n)
           end == Lines(y)
<1>1. /\ said \in Seq(Gates) /\ asserted \in Seq(Gates) /\ Len(said) <= Len(asserted)
      /\ \A i \in 1 .. Len(said) : asserted[i] = said[i]
      /\ \/ last = <<>>
         \/ /\ Len(said) + 1 <= Len(asserted) /\ last = <<y>>
            /\ \/ y = Core(asserted[Len(said) + 1])
               \/ y = Body(asserted[Len(said) + 1])
  BY TailHeeded
<1>2. done \in Seq(Gates) /\ y \in Texts /\ raw = GateLines(done) \o y
  <2>1. s.gates \in Seq(Gates) /\ j \in 0 .. Len(s.gates)
    BY TriageAssumption DEF ReadTo
  <2> QED
    BY <2>1, Beginning DEF ReadTo
<1> HIDE DEF H, done, said, asserted, last, raw
<1>3. PICK before : Listing(before, done, word)
  BY <1>2, Listed
<1> DEFINE kept == Kept(before, H)
<1>4. /\ before \in Seq(Texts) /\ Lines(GateLines(done)) = Append(before, <<>>)
      /\ Len(kept) = Len(said) /\ \A i \in 1 .. Len(said) : kept[i] = Body(said[i])
  BY <1>3 DEF Listing, said, H
<1>5. Lines(raw) = before \o end /\ end \in Seq(Texts)
  <2>1. GateLines(done) \in Seq(Tokens)
    BY <1>2, GateLinesGrow
  <2> DEFINE x == GateLines(done)
  <2> HIDE DEF x
  <2>2. x \in Seq(Tokens) /\ Lines(x) = Append(before, <<>>)
    BY <1>4, <2>1 DEF x
  <2>3. Lines(x \o y) = before \o Lines(y)
    BY <1>2, <1>4, <2>2, LinesApart DEF Texts
  <2>4. Lines(y) \in Seq(Texts)
    BY <1>2, LinesGrow DEF Texts, Split
  <2> QED
    BY <1>2, <2>3, <2>4 DEF x
<1> HIDE DEF end
<1>6. Lines(raw) \in Seq(Texts) /\ Kept(Lines(raw), H) = kept \o last
  <2>1. before \o end \in Seq(Texts)
    BY <1>4, <1>5, ConcatProperties
  <2>2. Kept(before \o end, H) = Kept(before, H) \o Kept(end, H)
    BY <1>4, <1>5, KeptTogether
  <2> QED
    BY <1>5, <2>1, <2>2 DEF last, end
<1>7. kept \in Seq(Texts) /\ Len(said) \in Nat /\ Len(asserted) \in Nat
  BY <1>1, <1>4, KeptGrows, LenProperties
<1> HIDE DEF kept
<1>8. \A i \in 1 .. Len(said) : kept[i] = Body(asserted[i])
  BY <1>1, <1>4 DEF kept
<1> DEFINE lines == kept \o last
<1>9. Heeds(lines, said, asserted)
  <2>1. CASE last = <<>>
    <3>1. lines = kept
      BY <1>7, <2>1, ConcatEmptySeq
    <3> HIDE DEF lines
    <3>2. Len(lines) = Len(said)
      BY <1>4, <3>1 DEF kept
    <3> QED
      BY <1>1, <1>7, <1>8, <3>1, <3>2 DEF Heeds
  <2>2. CASE /\ Len(said) + 1 <= Len(asserted) /\ last = <<y>>
             /\ \/ y = Core(asserted[Len(said) + 1])
                \/ y = Body(asserted[Len(said) + 1])
    <3>1. lines = Append(kept, y)
      BY <1>2, <1>7, <2>2, AppendIsConcat
    <3> HIDE DEF lines
    <3>2. /\ Len(lines) = Len(kept) + 1 /\ lines[Len(kept) + 1] = y
          /\ \A i \in 1 .. Len(kept) : lines[i] = kept[i]
      BY <1>2, <1>7, <3>1, AppendProperties
    <3>3. Len(kept) = Len(said)
      BY <1>4 DEF kept
    <3>4. Len(lines) = Len(said) + 1 /\ Len(lines) \in Nat /\ lines[Len(said) + 1] = y
      BY <1>7, <3>2, <3>3
    <3>5. \A i \in 1 .. Len(said) : lines[i] = Body(asserted[i])
      BY <1>8, <3>2, <3>3
    <3> QED
      BY <1>1, <1>7, <2>2, <3>4, <3>5 DEF Heeds
  <2> QED
    BY <1>1, <2>1, <2>2
<1> QED
  BY <1>6, <1>9 DEF raw, said, done, asserted, H

(* The gates of a sweep have the reasons that the tool knows.              *)
LEMMA ReasonsKnown ==
    ASSUME NEW s \in Sweeps, NEW i \in 1 .. Len(s.gates)
    PROVE  LET g == s.gates[i]
           IN  g \in Gates /\ (g.reason = NoReason \/ g.reason \in Reasons) /\ g.verdict \notin Reasons
<1>1. \A t \in Sweeps : t.gates \in Seq(Gates)
  BY TriageAssumption
<1>2. \A t \in Sweeps : \A k \in DOMAIN t.gates : t.gates[k] \in Gates /\ DOMAIN t.gates = 1 .. Len(t.gates)
  BY <1>1, ElementOfSeq
<1>3. i \in DOMAIN s.gates /\ s.gates[i] \in Gates
  BY <1>1, <1>2
<1>4. s.gates[i].reason = NoReason \/ s.gates[i].reason \in Reasons
  <2> DEFINE R(t) == {t.gates[k].reason : k \in DOMAIN t.gates}
             F == {R(t) : t \in Sweeps}
             x == s.gates[i].reason
  <2>1. x \in R(s)
    BY <1>3
  <2>2. Reasons = (UNION F) \ {NoReason}
    BY DEF Reasons
  <2>4. R(s) \in F
    OBVIOUS
  <2> HIDE DEF R, x, F
  <2>3. x = NoReason \/ x \in Reasons
    BY <2>1, <2>2, <2>4
  <2> QED
    BY <2>3 DEF x
<1>5. \A r \in Reasons : r \notin Verdicts
  <2>1. \A t \in Sweeps : \A k \in DOMAIN t.gates : t.gates[k].reason \notin Verdicts
    BY <1>2, GateTyped
  <2> QED
    BY <2>1 DEF Reasons
<1>6. s.gates[i].verdict \in Verdicts
  BY <1>3, GateTyped
<1> QED
  BY <1>3, <1>4, <1>5, <1>6

LEMMA AssertedAre ==
    ASSUME NEW gates \in Seq(Gates), NEW word
    PROVE  /\ Asserted(gates, word) = Kept(gates, Said(word))
           /\ \A i \in 1 .. Len(Kept(gates, Said(word))) :
                 \E k \in 1 .. Len(gates) : Kept(gates, Said(word))[i] = gates[k]
<1> DEFINE S == {g \in ToSet(gates) : g.verdict = word}
<1>1. \A i \in 1 .. Len(gates) : gates[i] \in Gates /\ gates[i] \in ToSet(gates)
  BY ElementOfSeq, LenProperties DEF ToSet
<1>2. \A i \in 1 .. Len(gates) : gates[i] \in S <=> gates[i] \in Said(word)
  BY <1>1 DEF Said
<1>3. Asserted(gates, word) = Kept(gates, S)
  BY DEF Asserted
<1> HIDE DEF S
<1>4. Kept(gates, S) = Kept(gates, Said(word))
  BY <1>2, KeptAlike
<1>5. ASSUME NEW i \in 1 .. Len(Kept(gates, Said(word)))
      PROVE  \E k \in 1 .. Len(gates) : Kept(gates, Said(word))[i] = gates[k]
  <2> DEFINE a == Kept(gates, Said(word))
             x == a[i]
  <2>1. \E k \in 1 .. Len(a) : a[k] = x
    OBVIOUS
  <2> HIDE DEF x
  <2>2. \E k \in 1 .. Len(gates) : gates[k] = x
    BY <2>1, KeptMembers
  <2> QED
    BY <2>2 DEF x
<1> QED
  BY <1>3, <1>4, <1>5

(* What the tool lists, against what the harness asserted.                 *)
Honours(found, certain, asserted) ==
    /\ Len(found) \in certain .. Min({certain + 1, Len(asserted)})
    /\ \A i \in DOMAIN found :
          /\ found[i].id = <<asserted[i].name>>
          /\ \/ found[i].reason = asserted[i].reason
             \/ found[i].reason = NoReason /\ i > certain

LEMMA FoundHonours ==
    ASSUME NEW s \in Sweeps, NEW n, NEW j, NEW y, ReadTo(s, n, j, y), NEW word
    PROVE  Honours(extractVerdictLines(SubSeq(Text(s), 1, n), word),
                   Len(Asserted(SubSeq(s.gates, 1, j), word)), Asserted(s.gates, word))
<1> DEFINE raw == SubSeq(Text(s), 1, n)
           all == Lines(raw)
           S == {line \in ToSet(all) : tokenRE(line, word)}
           lines == Kept(all, Hits(word))
           done == SubSeq(s.gates, 1, j)
           said == Kept(done, Said(word))
           asserted == Kept(s.gates, Said(word))
           found == [i \in DOMAIN lines |-> GateFinding(lines[i])]
<1>1. all \in Seq(Texts) /\ Heeds(lines, said, asserted)
  BY LinesHeeded
<1>2. s.gates \in Seq(Gates) /\ done \in Seq(Gates)
  <2>1. s.gates \in Seq(Gates) /\ j \in 0 .. Len(s.gates)
    BY TriageAssumption DEF ReadTo
  <2> QED
    BY <2>1, Beginning
<1>3. Asserted(done, word) = said /\ Asserted(s.gates, word) = asserted
  BY <1>2, AssertedAre
<1> HIDE DEF raw, all
<1>4. extractVerdictLines(raw, word) = found
  <2>1. extractVerdictLines(raw, word) =
           [i \in DOMAIN Kept(all, S) |-> GateFinding(Kept(all, S)[i])]
    BY DEF extractVerdictLines, all
  <2>2. \A i \in 1 .. Len(all) : all[i] \in S <=> all[i] \in Hits(word)
    <3>1. \A i \in 1 .. Len(all) : all[i] \in Texts /\ all[i] \in ToSet(all)
      BY <1>1, ElementOfSeq, LenProperties DEF ToSet
    <3> QED
      BY <3>1 DEF Hits
  <2> HIDE DEF S
  <2>3. Kept(all, S) = lines
    BY <1>1, <2>2, KeptAlike
  <2> QED
    BY <2>1, <2>3
<1>5. DOMAIN lines = 1 .. Len(lines)
  BY <1>1, KeptGrows, LenProperties
<1>6. \A i \in 1 .. Len(asserted) : /\ GateFinding(Core(asserted[i])) = [id |-> <<asserted[i].name>>, reason |-> NoReason]
                                    /\ GateFinding(Body(asserted[i])) = [id |-> <<asserted[i].name>>, reason |-> asserted[i].reason]
  <2> TAKE i \in 1 .. Len(asserted)
  <2>1. PICK k \in 1 .. Len(s.gates) : asserted[i] = s.gates[k]
    BY <1>2, AssertedAre
  <2> DEFINE g == asserted[i]
  <2>2. g \in Gates /\ (g.reason = NoReason \/ g.reason \in Reasons) /\ g.verdict \notin Reasons
    <3>1. LET h == s.gates[k]
          IN  h \in Gates /\ (h.reason = NoReason \/ h.reason \in Reasons) /\ h.verdict \notin Reasons
      BY ReasonsKnown
    <3> QED
      BY <2>1, <3>1
  <2> HIDE DEF g
  <2>3. /\ GateFinding(Core(g)) = [id |-> <<g.name>>, reason |-> NoReason]
        /\ GateFinding(Body(g)) = [id |-> <<g.name>>, reason |-> g.reason]
    BY <2>2, Finding
  <2> QED
    BY <2>3 DEF g
<1> HIDE DEF lines, said, asserted
<1>7. /\ Len(said) \in Nat /\ Len(lines) \in Nat /\ Len(asserted) \in Nat
      /\ Len(said) <= Len(asserted)
      /\ \A i \in 1 .. Len(said) : lines[i] = Body(asserted[i])
      /\ \/ Len(lines) = Len(said)
         \/ /\ Len(lines) = Len(said) + 1 /\ Len(lines) <= Len(asserted)
            /\ \/ lines[Len(lines)] = Core(asserted[Len(lines)])
               \/ lines[Len(lines)] = Body(asserted[Len(lines)])
  BY <1>1 DEF Heeds
<1>8. Len(found) = Len(lines) /\ DOMAIN found = 1 .. Len(lines)
      /\ \A i \in 1 .. Len(lines) : found[i] = GateFinding(lines[i])
  <2> DEFINE m == Len(lines)
  <2>1. m \in Nat /\ DOMAIN lines = 1 .. m
    BY <1>5, <1>7
  <2> HIDE DEF m
  <2>2. found = [i \in 1 .. m |-> GateFinding(lines[i])]
    BY <2>1
  <2>3. Len([i \in 1 .. m |-> GateFinding(lines[i])]) = m
    BY <2>1
  <2> QED
    BY <2>1, <2>2, <2>3 DEF m
<1> HIDE DEF found
<1>9. Len(found) \in Len(said) .. Min({Len(said) + 1, Len(asserted)})
  <2>1. Len(said) + 1 \in Nat
    BY <1>7
  <2>2. Min({Len(said) + 1, Len(asserted)}) =
           IF Len(said) + 1 <= Len(asserted) THEN Len(said) + 1 ELSE Len(asserted)
    BY <1>7, <2>1, LeastOfTwo
  <2> DEFINE n1 == Len(said)
             n2 == Len(lines)
             n3 == Len(asserted)
             n4 == Min({Len(said) + 1, Len(asserted)})
  <2>3. /\ n1 \in Nat /\ n2 \in Nat /\ n3 \in Nat /\ n1 <= n3
        /\ n2 = n1 \/ (n2 = n1 + 1 /\ n2 <= n3)
        /\ n4 = IF n1 + 1 <= n3 THEN n1 + 1 ELSE n3
    BY <1>7, <2>2
  <2> HIDE DEF n1, n2, n3, n4
  <2>4. n2 \in n1 .. n4
    BY <2>3
  <2> QED
    BY <1>8, <2>4 DEF n1, n2, n4
<1>10. ASSUME NEW i \in 1 .. Len(lines)
       PROVE  /\ found[i].id = <<asserted[i].name>>
              /\ \/ found[i].reason = asserted[i].reason
                 \/ found[i].reason = NoReason /\ i > Len(said)
  <2>1. CASE i <= Len(said)
    <3>1. i \in 1 .. Len(said) /\ i \in 1 .. Len(asserted)
      BY <1>7, <2>1
    <3>2. found[i] = GateFinding(Body(asserted[i]))
      BY <1>7, <1>8, <3>1
    <3>3. found[i] = [id |-> <<asserted[i].name>>, reason |-> asserted[i].reason]
      BY <1>6, <3>1, <3>2
    <3> QED
      BY <3>3
  <2>2. CASE ~ (i <= Len(said))
    <3>1. i = Len(lines) /\ i \in 1 .. Len(asserted) /\ i > Len(said)
      BY <1>7, <2>2
    <3>2. lines[i] = Core(asserted[i]) \/ lines[i] = Body(asserted[i])
      BY <1>7, <2>2, <3>1
    <3>3. found[i] = GateFinding(lines[i])
      BY <1>8
    <3>4. \/ found[i] = [id |-> <<asserted[i].name>>, reason |-> NoReason]
          \/ found[i] = [id |-> <<asserted[i].name>>, reason |-> asserted[i].reason]
      BY <1>6, <3>1, <3>2, <3>3
    <3> QED
      BY <3>1, <3>4
  <2> QED
    BY <2>1, <2>2
<1>11. Honours(found, Len(said), asserted)
  BY <1>8, <1>9, <1>10 DEF Honours
<1> QED
  BY <1>3, <1>4, <1>11 DEF raw, said, asserted

(* The gates that are done are those whose lines were read to their ends.  *)
LEMMA DoneAreFinished ==
    ASSUME NEW s \in Sweeps, NEW n, NEW j, NEW y, ReadTo(s, n, j, y)
    PROVE  SubSeq(s.gates, 1, Min({Cardinality(Places(SubSeq(Text(s), 1, n), "NL")), Len(s.gates)}))
           = SubSeq(s.gates, 1, j)
<1> DEFINE gates == s.gates
           done == SubSeq(gates, 1, j)
           x == GateLines(done)
           raw == SubSeq(Text(s), 1, n)
           S == {"NL"}
           lines == Cardinality(Places(raw, "NL"))
           m == Len(gates)
           k == Len(Kept(y, S))
<1>1. gates \in Seq(Gates) /\ m \in Nat /\ j \in 0 .. m /\ y \in Texts /\ raw = x \o y
  <2>1. gates \in Seq(Gates)
    BY TriageAssumption
  <2> QED
    BY <2>1, LenProperties DEF ReadTo
<1>2. done \in Seq(Gates) /\ Len(done) = j
  BY <1>1, Beginning
<1>3. x \in Seq(Tokens) /\ Len(Kept(x, S)) = j
  BY <1>2, GateLinesGrow, GateEnds
<1>4. y \in Seq(Tokens) /\ k \in Nat
  <2>1. y \in Seq(Tokens)
    BY <1>1 DEF Texts
  <2>2. Kept(y, S) \in Seq(Tokens)
    BY <2>1, KeptGrows
  <2> QED
    BY <2>1, <2>2, LenProperties
<1>5. lines = Len(Kept(raw, S))
  <2>1. x \o y \in Seq(Tokens)
    BY <1>3, <1>4, ConcatProperties
  <2> DEFINE w == x \o y
             e == "NL"
  <2> HIDE DEF w, e
  <2>2. w \in Seq(Tokens)
    BY <2>1 DEF w
  <2>3. Cardinality(Places(w, e)) = Len(Kept(w, {e}))
    BY <2>2, PlacesCounted
  <2> QED
    BY <1>1, <2>3 DEF w, e
<1> HIDE DEF raw, done, x, S, lines, gates
<1>6. lines = j + k
  <2>1. Kept(x \o y, S) = Kept(x, S) \o Kept(y, S)
    BY <1>3, <1>4, KeptTogether
  <2> DEFINE p == Kept(x, S)
             q == Kept(y, S)
  <2>2. p \in Seq(Tokens) /\ q \in Seq(Tokens)
    BY <1>3, <1>4, KeptGrows
  <2> HIDE DEF p, q
  <2>3. Len(p \o q) = Len(p) + Len(q)
    BY <2>2, Joined
  <2> QED
    BY <1>1, <1>3, <1>5, <2>1, <2>3 DEF p, q
<1> HIDE DEF k, m
<1>7. CASE j = m
  <2>1. ~ (lines <= m) \/ lines = m
    BY <1>1, <1>4, <1>6, <1>7
  <2>2. lines \in Nat
    BY <1>1, <1>4, <1>6
  <2>3. Min({lines, m}) = j
    BY <1>1, <1>7, <2>1, <2>2, LeastOfTwo
  <2> QED
    BY <2>3 DEF gates, lines, m, raw
<1>8. CASE j # m
  <2>1. j < m /\ j \in Nat
    BY <1>1, <1>8
  <2>2. PICK i \in 0 .. Len(Body(gates[j + 1])) : y = SubSeq(Body(gates[j + 1]), 1, i)
    BY <1>8 DEF ReadTo, m, gates
  <2>3. gates[j + 1] \in Gates
    BY <1>1, <2>1, ElementOfSeq DEF m
  <2>4. Kept(y, S) = <<>>
    <3> DEFINE b == Body(gates[j + 1])
    <3>1. b \in Seq(Tokens) /\ \A l \in 1 .. Len(b) : b[l] \notin S
      BY <2>3, BodyUnended, GateTyped DEF S
    <3> HIDE DEF b
    <3>2. i \in 0 .. Len(b) /\ y = SubSeq(b, 1, i)
      BY <2>2 DEF b
    <3>3. Len(y) = i /\ \A l \in 1 .. i : y[l] = b[l] /\ l \in 1 .. Len(b)
      BY <3>1, <3>2, Beginning
    <3>4. \A l \in 1 .. Len(y) : y[l] \notin S
      BY <3>1, <3>3
    <3> QED
      BY <1>4, <3>4, KeptNone
  <2>5. k = 0
    BY <2>4, EmptySeq DEF k
  <2>6. lines = j
    BY <1>6, <2>1, <2>5
  <2>7. Min({lines, m}) = j
    BY <1>1, <2>1, <2>6, LeastOfTwo
  <2> QED
    BY <2>7 DEF gates, lines, m, raw
<1> QED
  BY <1>7, <1>8

LEMMA VerdictsHonoured ==
    ASSUME NEW s \in Sweeps, NEW n \in 0 .. Len(Text(s)), NEW word
    PROVE  LET raw == SubSeq(Text(s), 1, n)
               lines == Cardinality({i \in DOMAIN raw : raw[i] = "NL"})
               finished == SubSeq(s.gates, 1, Min({lines, Len(s.gates)}))
           IN  Honours(extractVerdictLines(raw, word), Len(Asserted(finished, word)), Asserted(s.gates, word))
<1>1. PICK j, y : ReadTo(s, n, j, y)
  BY LogEnds
<1>2. SubSeq(s.gates, 1, Min({Cardinality(Places(SubSeq(Text(s), 1, n), "NL")), Len(s.gates)}))
      = SubSeq(s.gates, 1, j)
  BY <1>1, DoneAreFinished
<1>3. Honours(extractVerdictLines(SubSeq(Text(s), 1, n), word),
              Len(Asserted(SubSeq(s.gates, 1, j), word)), Asserted(s.gates, word))
  BY <1>1, FoundHonours
<1> QED
  BY <1>2, <1>3 DEF Places
-----------------------------------------------------------------------------
(***************************************************************************)
(* No number follows a label before its own line of the summary.           *)
(***************************************************************************)
(* What a number after a label begins with, past the ends of lines.        *)
Numeral == {"NL"} \cup ToSet(Digits)

(* A label at the start of a line.                                         *)
Starts(text, label, i) == text[i] = label /\ (i = 1 \/ text[i - 1] = "NL")

(* No number follows the label where a line starts with it.                *)
Unlabeled(x, label) ==
    \A i \in 1 .. Len(x) : Starts(x, label, i) => i + 2 <= Len(x) /\ x[i + 2] \notin Numeral

(* Nor does one in a text that may end before what follows the label.      *)
Unnumbered(x, label) ==
    \A i \in 1 .. Len(x) : Starts(x, label, i) /\ i + 2 <= Len(x) => x[i + 2] \notin Numeral

LEMMA UnlabeledJoin ==
    ASSUME NEW x \in Seq(Tokens), NEW y \in Seq(Tokens), NEW label,
           Unlabeled(x, label), Unlabeled(y, label)
    PROVE  Unlabeled(x \o y, label)
<1> DEFINE z == x \o y
           n == Len(x)
           nl == "NL"
<1>1. /\ n \in Nat /\ Len(y) \in Nat /\ Len(z) = n + Len(y)
      /\ \A i \in 1 .. n : z[i] = x[i]
      /\ \A i \in 1 .. Len(y) : z[n + i] = y[i]
  BY Joined
<1> HIDE DEF z
<1>2. \A i \in 1 .. n : x[i] = label /\ (i = 1 \/ x[i - 1] = nl) => i + 2 <= n /\ x[i + 2] \notin Numeral
  BY DEF Unlabeled, Starts
<1>3. \A i \in 1 .. Len(y) :
         y[i] = label /\ (i = 1 \/ y[i - 1] = nl) => i + 2 <= Len(y) /\ y[i + 2] \notin Numeral
  BY DEF Unlabeled, Starts
<1> HIDE DEF n, nl
<1>4. ASSUME NEW i \in 1 .. Len(z), z[i] = label, i = 1 \/ z[i - 1] = nl
      PROVE  i + 2 <= Len(z) /\ z[i + 2] \notin Numeral
  <2>1. CASE i <= n
    <3>1. i \in 1 .. n /\ (i # 1 => i - 1 \in 1 .. n)
      BY <1>1, <2>1
    <3>2. i + 2 <= n /\ x[i + 2] \notin Numeral
      BY <1>1, <1>2, <1>4, <3>1
    <3>3. i + 2 \in 1 .. n
      BY <1>1, <3>1, <3>2
    <3> QED
      BY <1>1, <3>2, <3>3
  <2>2. CASE ~ (i <= n)
    <3> DEFINE e == i - n
    <3>1. e \in 1 .. Len(y) /\ i = n + e /\ (e # 1 => e - 1 \in 1 .. Len(y)) /\ i - 1 = n + (e - 1)
      BY <1>1, <2>2
    <3> HIDE DEF e
    <3>2. y[e] = label
      BY <1>1, <1>4, <3>1
    <3>3. e = 1 \/ y[e - 1] = nl
      <4> SUFFICES ASSUME e # 1 PROVE y[e - 1] = nl
        OBVIOUS
      <4>1. i # 1
        BY <1>1, <3>1
      <4> QED
        BY <1>1, <1>4, <3>1, <4>1
    <3>4. e + 2 <= Len(y) /\ y[e + 2] \notin Numeral
      BY <1>3, <3>1, <3>2, <3>3
    <3>5. e + 2 \in 1 .. Len(y) /\ i + 2 = n + (e + 2)
      BY <1>1, <3>1, <3>4
    <3>6. z[i + 2] = y[e + 2]
      BY <1>1, <3>5
    <3> QED
      BY <1>1, <3>4, <3>5, <3>6
  <2> QED
    BY <2>1, <2>2
<1> QED
  BY <1>4 DEF Unlabeled, Starts, z, nl

LEMMA UnlabeledFirst ==
    ASSUME NEW x \in Seq(Tokens), NEW y \in Seq(Tokens), NEW label, Unlabeled(x \o y, label)
    PROVE  Unnumbered(x, label)
<1> DEFINE z == x \o y
           n == Len(x)
           nl == "NL"
<1>1. /\ n \in Nat /\ Len(y) \in Nat /\ Len(z) = n + Len(y)
      /\ \A i \in 1 .. n : z[i] = x[i]
  BY Joined
<1>2. \A i \in 1 .. Len(z) :
         z[i] = label /\ (i = 1 \/ z[i - 1] = nl) => i + 2 <= Len(z) /\ z[i + 2] \notin Numeral
  BY DEF Unlabeled, Starts
<1> HIDE DEF z, n, nl
<1>3. ASSUME NEW i \in 1 .. n, x[i] = label, i = 1 \/ x[i - 1] = nl, i + 2 <= n
      PROVE  x[i + 2] \notin Numeral
  <2>1. i \in 1 .. Len(z) /\ (i # 1 => i - 1 \in 1 .. n) /\ i + 2 \in 1 .. n
    BY <1>1, <1>3
  <2>2. z[i] = label /\ (i = 1 \/ z[i - 1] = nl) /\ z[i + 2] = x[i + 2]
    BY <1>1, <1>3, <2>1
  <2> QED
    BY <1>2, <2>1, <2>2
<1> QED
  BY <1>3 DEF Unnumbered, Starts, n, nl

LEMMA ClosedJoin ==
    ASSUME NEW x \in Seq(Tokens), NEW y \in Seq(Tokens), Closed(x), Closed(y)
    PROVE  Closed(x \o y)
<1> DEFINE z == x \o y
<1>1. /\ z \in Seq(Tokens) /\ Len(x) \in Nat /\ Len(y) \in Nat /\ Len(z) = Len(x) + Len(y)
      /\ \A i \in 1 .. Len(y) : z[Len(x) + i] = y[i]
  BY Joined
<1>2. CASE y = <<>>
  <2>1. z = x
    BY <1>2, ConcatEmptySeq
  <2> QED
    BY <2>1
<1>3. CASE y # <<>>
  <2> HIDE DEF z
  <2>1. Len(y) \in 1 .. Len(y)
    BY <1>1, <1>3, EmptySeq
  <2>2. z[Len(z)] = y[Len(y)]
    BY <1>1, <2>1
  <2>3. y[Len(y)] = "NL"
    BY <1>3 DEF Closed
  <2> QED
    BY <2>2, <2>3 DEF Closed, z
<1> QED
  BY <1>2, <1>3

Opens(x, label) ==
    /\ x \in Seq(Tokens) /\ Stripped(x) \in Seq(Tokens)
    /\ Unlabeled(x, label) /\ Unlabeled(Stripped(x), label) /\ Closed(x) /\ Closed(Stripped(x))

LEMMA OpensJoin ==
    ASSUME NEW x, NEW y, NEW label, Opens(x, label), Opens(y, label)
    PROVE  Opens(x \o y, label)
<1>1. x \in Seq(Tokens) /\ y \in Seq(Tokens) /\ Stripped(x) \in Seq(Tokens) /\ Stripped(y) \in Seq(Tokens)
  BY DEF Opens
<1>2. x \o y \in Seq(Tokens) /\ Unlabeled(x \o y, label) /\ Closed(x \o y)
  BY <1>1, UnlabeledJoin, ClosedJoin, ConcatProperties DEF Opens
<1>3. Stripped(x \o y) = Stripped(x) \o Stripped(y)
  BY <1>1, StrippedTyped
<1> DEFINE a == Stripped(x)
           b == Stripped(y)
<1>4. /\ a \in Seq(Tokens) /\ b \in Seq(Tokens) /\ Unlabeled(a, label) /\ Unlabeled(b, label)
      /\ Closed(a) /\ Closed(b)
  BY <1>1 DEF Opens
<1> HIDE DEF a, b
<1>5. a \o b \in Seq(Tokens) /\ Unlabeled(a \o b, label) /\ Closed(a \o b)
  BY <1>4, UnlabeledJoin, ClosedJoin, ConcatProperties
<1> QED
  BY <1>2, <1>3, <1>5 DEF Opens, a, b

LEMMA LineUnlabeled ==
    ASSUME NEW y \in Seq(Tokens), NEW label, label # "NL", Lacks(y, "NL"),
           Len(y) # 0 /\ y[1] = label => Len(y) >= 3 /\ y[3] \notin Numeral
    PROVE  /\ Append(y, "NL") \in Seq(Tokens) /\ Unlabeled(Append(y, "NL"), label)
           /\ Closed(Append(y, "NL"))
<1> DEFINE nl == "NL"
           z == Append(y, nl)
           n == Len(y)
<1>1. nl \in Tokens /\ label # nl /\ \A i \in 1 .. n : y[i] # nl
  BY TokensAre DEF Lacks
<1>2. Closed(z) <=> z = <<>> \/ z[Len(z)] = nl
  BY DEF Closed
<1>3. Unlabeled(z, label)
      <=> \A i \in 1 .. Len(z) :
             z[i] = label /\ (i = 1 \/ z[i - 1] = nl) => i + 2 <= Len(z) /\ z[i + 2] \notin Numeral
  BY DEF Unlabeled, Starts
<1> HIDE DEF nl
<1>4. z \in Seq(Tokens) /\ Len(z) = n + 1 /\ z[n + 1] = nl /\ (\A i \in 1 .. n : z[i] = y[i]) /\ n \in Nat
  BY <1>1, AppendProperties, LenProperties
<1> HIDE DEF z
<1>5. ASSUME NEW i \in 1 .. Len(z), z[i] = label, i = 1 \/ z[i - 1] = nl
      PROVE  i + 2 <= Len(z) /\ z[i + 2] \notin Numeral
  <2>1. n # 0 /\ y[1] = label => n >= 3 /\ y[3] \notin Numeral
    OBVIOUS
  <2> HIDE DEF n
  <2>2. i # n + 1
    BY <1>1, <1>4, <1>5
  <2>3. i \in 1 .. n /\ (i # 1 => i - 1 \in 1 .. n)
    BY <1>4, <2>2
  <2>4. i = 1
    BY <1>1, <1>4, <1>5, <2>3
  <2>5. n # 0 /\ y[1] = label
    BY <1>4, <1>5, <2>3, <2>4
  <2>6. n >= 3 /\ y[3] \notin Numeral
    BY <2>1, <2>5
  <2>7. 3 \in 1 .. n /\ i + 2 = 3
    BY <1>4, <2>4, <2>6
  <2>8. z[i + 2] = y[3]
    BY <1>4, <2>7
  <2> QED
    BY <1>4, <2>6, <2>7, <2>8
<1>6. Closed(z)
  BY <1>2, <1>4
<1> QED
  BY <1>3, <1>4, <1>5, <1>6 DEF z, nl

(* What follows the name of a gate that does not pose is no number.        *)
LEMMA GateHarmless ==
    ASSUME NEW g \in Gates, NEW label, ~ Poses(g, label)
    PROVE  LET b == Body(g)
               c == Stripped(Core(g))
           IN  /\ Len(b) \in Nat /\ Len(b) >= 5 /\ (b[1] = label => b[3] \notin Numeral)
               /\ Len(c) \in Nat /\ Len(c) >= 3 /\ (c[1] = label => c[3] \notin Numeral)
<1> DEFINE B == g.description
           d == Len(B)
           b == Body(g)
           c == Stripped(Core(g))
           sgr == "SGR"
           D == ToSet(Digits)
<1>1. /\ B \in Seq(Tokens) /\ d \in Nat /\ g.verdict \in Verdicts
      /\ \A i \in 1 .. d : B[i] # "NL"
  BY GateTyped
<1>2. D = {"0", "1", "2", "3", "4", "5", "6", "7", "8", "9"}
  BY TokensAre
<1>3. sgr \notin Numeral
  BY <1>2 DEF Numeral
<1>4. g.verdict \notin Numeral
  BY <1>1, <1>2 DEF Numeral, Verdicts
<1>5. g.name = label => d = 0 \/ B[1] \notin D
  <2>1. B = <<>> => d = 0
    BY EmptySeq
  <2> QED
    BY <2>1 DEF Poses
<1>6. d # 0 => 1 \in 1 .. d
  BY <1>1
<1>7. g.name = label /\ d # 0 => B[1] \notin Numeral
  BY <1>1, <1>5, <1>6 DEF Numeral
<1>8. /\ Len(b) = (IF g.reason = NoReason THEN 5 + d ELSE 6 + d)
      /\ b[1] = g.name /\ (d = 0 => b[3] = sgr) /\ (d # 0 => b[3] = B[1])
  <2>1. /\ Len(b) = (IF g.reason = NoReason THEN 5 + d ELSE 6 + d)
        /\ \A i \in 1 .. 5 + d : b[i] = Core(g)[i]
    BY BodyShape
  <2>2. /\ Core(g)[1] = g.name /\ (\A i \in 1 .. d : Core(g)[2 + i] = B[i]) /\ Core(g)[3 + d] = sgr
    BY CoreShape
  <2> HIDE DEF b, d, B, sgr
  <2>3. 1 \in 1 .. 5 + d /\ 3 \in 1 .. 5 + d
    BY <1>1
  <2>4. b[1] = g.name /\ b[3] = Core(g)[3]
    BY <2>1, <2>2, <2>3
  <2>5. d = 0 => Core(g)[3] = sgr
    BY <2>2
  <2>6. d # 0 => Core(g)[3] = B[1]
    <3>1. d # 0 => Core(g)[2 + 1] = B[1]
      BY <1>6, <2>2
    <3> QED
      BY <3>1
  <2> QED
    BY <2>1, <2>4, <2>5, <2>6
<1>9. /\ Len(c) = 3 + d /\ c[1] = g.name /\ (d = 0 => c[3] = g.verdict) /\ (d # 0 => c[3] = B[1])
  <2>1. /\ Len(c) = 3 + d /\ c[1] = g.name /\ c[3 + d] = g.verdict
        /\ \A i \in 1 .. d : c[2 + i] = B[i]
    BY CoreStripped
  <2> HIDE DEF c, d, B
  <2>2. d = 0 => c[3] = g.verdict
    BY <2>1
  <2>3. d # 0 => c[3] = B[1]
    <3>1. d # 0 => c[2 + 1] = B[1]
      BY <1>6, <2>1
    <3> QED
      BY <3>1
  <2> QED
    BY <2>1, <2>2, <2>3
<1> HIDE DEF b, c, d, B, sgr, D
<1>10. Len(b) \in Nat /\ Len(b) >= 5 /\ Len(c) \in Nat /\ Len(c) >= 3
  BY <1>1, <1>8, <1>9
<1>11. b[1] = label => b[3] \notin Numeral
  BY <1>3, <1>7, <1>8
<1>12. c[1] = label => c[3] \notin Numeral
  BY <1>4, <1>7, <1>9
<1> QED
  BY <1>10, <1>11, <1>12 DEF b, c

LEMMA OpensGate ==
    ASSUME NEW g \in Gates, NEW label \in Labels, ~ Poses(g, label)
    PROVE  Opens(GateLine(g), label)
<1> DEFINE b == Body(g)
           c == Stripped(b)
           core == Stripped(Core(g))
           nl == "NL"
<1>1. /\ b \in Seq(Tokens) /\ GateLine(g) = Append(b, "NL") /\ label # "NL"
  BY GateTyped, PlainAre
<1>2. Lacks(b, "NL") /\ (Len(b) # 0 /\ b[1] = label => Len(b) >= 3 /\ b[3] \notin Numeral)
  <2>1. \A i \in 1 .. Len(b) : b[i] # "NL"
    BY BodyTokens
  <2>2. Len(b) \in Nat /\ Len(b) >= 5 /\ (b[1] = label => b[3] \notin Numeral)
    BY GateHarmless
  <2> HIDE DEF b
  <2>3. Len(b) >= 3
    BY <2>2
  <2> QED
    BY <2>1, <2>2, <2>3 DEF Lacks
<1>3. /\ core \in Seq(Tokens) /\ Len(core) \in Nat /\ Len(core) >= 3
      /\ core[1] = label => core[3] \notin Numeral
      /\ \A i \in 1 .. Len(core) : core[i] # nl
  <2>1. core \in Seq(Tokens) /\ \A i \in 1 .. Len(core) : core[i] # nl
    BY CoreStripped
  <2>2. Len(core) \in Nat /\ Len(core) >= 3 /\ (core[1] = label => core[3] \notin Numeral)
    BY GateHarmless
  <2> QED
    BY <2>1, <2>2
<1>4. /\ c \in Seq(Tokens) /\ Lacks(c, "NL")
      /\ Len(c) # 0 /\ c[1] = label => Len(c) >= 3 /\ c[3] \notin Numeral
  <2>1. CASE g.reason = NoReason
    <3>1. c = core
      BY <2>1, BodyShape
    <3> HIDE DEF c, core
    <3> QED
      BY <1>3, <3>1 DEF Lacks, nl
  <2>2. CASE g.reason # NoReason
    <3>1. c = Append(core, g.reason)
      BY <2>2, BodyStripped
    <3>2. g.reason \in Tokens /\ g.reason # nl
      BY <2>2, GateTyped, TokensAre
    <3> HIDE DEF c, core, nl
    <3>3. /\ c \in Seq(Tokens) /\ Len(c) = Len(core) + 1 /\ c[Len(core) + 1] = g.reason
          /\ \A i \in 1 .. Len(core) : c[i] = core[i]
      BY <1>3, <3>1, <3>2, AppendProperties
    <3>4. /\ 1 \in 1 .. Len(core) /\ 3 \in 1 .. Len(core)
          /\ \A i \in 1 .. Len(c) : i \in 1 .. Len(core) \/ i = Len(core) + 1
      BY <1>3, <3>3
    <3>5. c[1] = core[1] /\ c[3] = core[3] /\ Len(c) >= 3
      BY <1>3, <3>3, <3>4
    <3>6. \A i \in 1 .. Len(c) : c[i] # nl
      BY <1>3, <3>2, <3>3, <3>4
    <3> QED
      BY <1>3, <3>3, <3>5, <3>6 DEF Lacks, nl
  <2> QED
    BY <2>1, <2>2
<1>5. Stripped(Append(b, "NL")) = Append(c, "NL")
  <2>1. nl \in Tokens /\ nl \in Tokens \ {"SGR"}
    BY TokensAre
  <2> DEFINE S == Tokens \ {"SGR"}
  <2>2. nl \in Tokens /\ nl \in S
    BY <2>1
  <2> HIDE DEF S, nl, b
  <2>3. Kept(Append(b, nl), S) = Append(Kept(b, S), nl)
    BY <1>1, <2>2, KeptAppend
  <2> QED
    BY <2>3 DEF Stripped, S, nl
<1> HIDE DEF b, c
<1>6. Append(b, "NL") \in Seq(Tokens) /\ Unlabeled(Append(b, "NL"), label) /\ Closed(Append(b, "NL"))
  BY <1>1, <1>2, LineUnlabeled
<1>7. /\ Append(c, "NL") \in Seq(Tokens) /\ Unlabeled(Append(c, "NL"), label)
      /\ Closed(Append(c, "NL"))
  BY <1>1, <1>4, LineUnlabeled
<1> QED
  BY <1>1, <1>5, <1>6, <1>7 DEF Opens

LEMMA OpensNothing == ASSUME NEW label PROVE Opens(<<>>, label)
<1>1. <<>> \in Seq(Tokens) /\ Len(<<>>) = 0 /\ 1 .. 0 = {}
  BY EmptySeq
<1>2. Stripped(<<>>) = <<>>
  BY KeptGrows DEF Stripped
<1>3. Unlabeled(<<>>, label) /\ Closed(<<>>)
  BY <1>1 DEF Unlabeled, Closed
<1> QED
  BY <1>1, <1>2, <1>3 DEF Opens

Modest(gates, label) == \A i \in 1 .. Len(gates) : ~ Poses(gates[i], label)

LEMMA OpensGates ==
    ASSUME NEW gates \in Seq(Gates), NEW label \in Labels, Modest(gates, label)
    PROVE  Opens(GateLines(gates), label)
<1> DEFINE Q == {u \in Seq(Gates) : Modest(u, label) => Opens(GateLines(u), label)}
<1>1. <<>> \in Q
  BY OpensNothing, GateLinesGrow, EmptySeq
<1>2. ASSUME NEW u \in Seq(Gates), NEW g \in Gates, u \in Q PROVE Append(u, g) \in Q
  <2>1. Append(u, g) \in Seq(Gates) /\ GateLines(Append(u, g)) = GateLines(u) \o GateLine(g)
    BY AppendProperties, GateLinesGrow
  <2>2. ASSUME Modest(Append(u, g), label) PROVE Opens(GateLines(u) \o GateLine(g), label)
    <3> DEFINE v == Append(u, g)
               n == Len(u)
    <3>1. Len(v) = n + 1 /\ v[n + 1] = g /\ (\A i \in 1 .. n : v[i] = u[i]) /\ n \in Nat
      BY AppendProperties, LenProperties
    <3>2. \A i \in 1 .. Len(v) : ~ Poses(v[i], label)
      BY <2>2 DEF Modest
    <3> HIDE DEF v, n
    <3>3. n + 1 \in 1 .. Len(v) /\ \A i \in 1 .. n : i \in 1 .. Len(v)
      BY <3>1
    <3>4. ~ Poses(g, label) /\ \A i \in 1 .. n : ~ Poses(u[i], label)
      BY <3>1, <3>2, <3>3
    <3>5. Modest(u, label)
      BY <3>4 DEF Modest, n
    <3>6. Opens(GateLines(u), label) /\ Opens(GateLine(g), label)
      BY <1>2, <3>4, <3>5, OpensGate
    <3> QED
      BY <3>6, OpensJoin
  <2> QED
    BY <2>1, <2>2
<1>3. Seq(Gates) \subseteq Q
  <2> HIDE DEF Q
  <2> QED
    BY <1>1, <1>2, SequenceInduction
<1> QED
  BY <1>3

LEMMA PlainStripped ==
    ASSUME NEW y \in Seq(Plain)
    PROVE  y \in Seq(Tokens) /\ Stripped(y) = y
<1>1. \A i \in 1 .. Len(y) : y[i] \in Plain
  BY ElementOfSeq
<1>2. y \in Seq(Tokens)
  BY PlainAre, SeqMonotonic
<1>3. \A i \in 1 .. Len(y) : y[i] # "SGR"
  BY <1>1, PlainAre
<1> QED
  BY <1>2, <1>3, StrippedPlain

LEMMA OpensPlain ==
    ASSUME NEW y \in Seq(Plain), NEW label, Lacks(y, label), Closed(y)
    PROVE  Opens(y, label)
<1>1. y \in Seq(Tokens) /\ Stripped(y) = y
  BY PlainStripped
<1>2. Unlabeled(y, label)
  BY DEF Lacks, Unlabeled, Starts
<1> QED
  BY <1>1, <1>2 DEF Opens

(* What follows the label in a line of the summary.                        *)
Number(s, label) == <<Colon>> \o s.counts[label]

LEMMA LabelFirst ==
    ASSUME NEW V, NEW label \in V, NEW colon \in V, NEW ds \in Seq(V)
    PROVE  /\ <<label, colon>> \o ds = <<label>> \o (<<colon>> \o ds)
           /\ <<colon>> \o ds \in Seq(V) /\ Len(<<colon>> \o ds) = Len(ds) + 1
<1> DEFINE a == <<label>>
           b == <<colon>>
<1>1. a \in Seq(V) /\ b \in Seq(V) /\ a \o b = <<label, colon>> /\ Len(b) = 1
  <2>1. a \in Seq(V) /\ b \in Seq(V) /\ <<label, colon>> = Append(a, colon)
    BY SmallSequences
  <2>2. Append(a, colon) = a \o b
    BY <2>1, AppendIsConcat
  <2>3. Len(b) = 1
    OBVIOUS
  <2> QED
    BY <2>1, <2>2, <2>3
<1> HIDE DEF a, b
<1>2. (a \o b) \o ds = a \o (b \o ds)
  <2>1. a \in Seq(V) /\ b \in Seq(V) /\ ds \in Seq(V)
    BY <1>1
  <2> QED
    BY <2>1, ConcatAssociative
<1>3. b \o ds \in Seq(V) /\ Len(b \o ds) = Len(b) + Len(ds) /\ Len(ds) \in Nat
  BY <1>1, Joined
<1>4. Len(b \o ds) = Len(ds) + 1
  BY <1>1, <1>3
<1> QED
  BY <1>1, <1>2, <1>3, <1>4 DEF a, b

(* A line of the summary, and that of the marker.                          *)
LEMMA SummaryShape ==
    ASSUME NEW s \in Sweeps, NEW label \in Labels
    PROVE  LET line == SummaryLine(s, label)
               number == Number(s, label)
           IN  /\ line \in Seq(Plain) /\ number \in Seq(Plain) /\ Len(number) \in Nat /\ Len(number) # 0
               /\ s.counts[label] \in Seq(Plain) /\ Len(s.counts[label]) \in Nat
               /\ s.counts[label] # <<>> /\ Len(number) = Len(s.counts[label]) + 1
               /\ line = (<<label>> \o number) \o <<"NL">> /\ <<label>> \in Seq(Plain)
               /\ Len(line) = Len(number) + 2 /\ line[1] = label
               /\ Closed(line)
               /\ \A other \in Labels : other # label => Lacks(line, other)
               /\ Lacks(line, Marker)
<1> DEFINE line == SummaryLine(s, label)
           digits == s.counts[label]
           number == Number(s, label)
           nl == "NL"
           colon == Colon
           E == {label, Colon, nl} \cup ToSet(Digits)
           head == <<label>>
<1>1. line \in Seq(Plain) /\ line \in Seq(E) /\ digits \in Seq(ToSet(Digits)) /\ digits # <<>>
  BY SweepTyped
<1>2. digits \in Seq(Plain)
  BY <1>1, PlainAre, SeqMonotonic
<1>3. Len(digits) \in Nat
  BY <1>1, LenProperties
<1>4. line = (<<label, colon>> \o digits) \o <<nl>> /\ number = <<colon>> \o digits
  BY DEF SummaryLine, Number, Colon
<1>5. label \in Plain /\ nl \in Plain /\ colon \in Plain
  BY PlainAre
<1>6. head \in Seq(Plain) /\ Len(head) = 1 /\ head[1] = label
  BY <1>5, OnlyLine
<1>7. \A other \in Labels : other # label => other \notin E
  BY PlainAre
<1>8. Marker \notin E
  BY PlainAre
<1>9. Closed(line) <=> line = <<>> \/ line[Len(line)] = nl
  BY DEF Closed
<1> HIDE DEF line, digits, number, nl, colon, E
<1>10. /\ line = (head \o number) \o <<nl>> /\ number \in Seq(Plain)
       /\ Len(number) = Len(digits) + 1
  <2>1. /\ <<label, colon>> \o digits = <<label>> \o (<<colon>> \o digits)
        /\ <<colon>> \o digits \in Seq(Plain) /\ Len(<<colon>> \o digits) = Len(digits) + 1
    <3>1. label \in Plain /\ colon \in Plain /\ digits \in Seq(Plain)
      BY <1>2, <1>5
    <3> QED
      BY <3>1, LabelFirst
  <2> QED
    BY <1>4, <2>1
<1> HIDE DEF head
<1> DEFINE front == head \o number
<1>11. /\ front \in Seq(Plain) /\ Len(front) = 1 + Len(number)
       /\ \A i \in 1 .. Len(head) : front[i] = head[i]
  <2>1. head \in Seq(Plain) /\ number \in Seq(Plain)
    BY <1>6, <1>10
  <2>2. /\ front \in Seq(Plain) /\ Len(front) = Len(head) + Len(number)
        /\ \A i \in 1 .. Len(head) : front[i] = head[i]
    BY <2>1, Joined
  <2> QED
    BY <1>6, <2>2
<1>12. front[1] = label /\ 1 \in 1 .. Len(front)
  <2> HIDE DEF front
  <2> QED
    BY <1>3, <1>6, <1>10, <1>11
<1> HIDE DEF front
<1>13. line = Append(front, nl)
  BY <1>5, <1>10, <1>11, AppendIsConcat DEF front
<1>14. /\ Len(line) = Len(front) + 1 /\ line[Len(front) + 1] = nl
       /\ \A i \in 1 .. Len(front) : line[i] = front[i]
  BY <1>5, <1>11, <1>13, AppendProperties
<1>15. Len(line) = Len(number) + 2 /\ line[1] = label /\ line[Len(line)] = nl
  BY <1>3, <1>10, <1>11, <1>12, <1>14
<1>16. \A i \in 1 .. Len(line) : line[i] \in E
  BY <1>1, ElementOfSeq
<1>17. (\A other \in Labels : other # label => Lacks(line, other)) /\ Lacks(line, Marker)
  BY <1>7, <1>8, <1>16 DEF Lacks
<1>18. Len(number) \in Nat /\ Len(number) # 0
  BY <1>3, <1>10
<1> QED
  BY <1>1, <1>2, <1>3, <1>6, <1>9, <1>10, <1>15, <1>17, <1>18 DEF line, digits, number, nl, head

LEMMA MarkerShape ==
    ASSUME NEW s \in Sweeps
    PROVE  /\ MarkerLine(s) \in Seq(Plain) /\ Closed(MarkerLine(s))
           /\ \A label \in Labels : Lacks(MarkerLine(s), label)
           /\ ~ s.passed => MarkerLine(s) = <<>>
<1> DEFINE m == MarkerLine(s)
           E == {Marker, "NL"}
<1>1. m \in Seq(Plain) /\ m \in Seq(E)
  <2>1. "Passed" \in Labels
    BY DEF Labels
  <2> QED
    BY <2>1, SweepTyped
<1>2. \A label \in Labels : label \notin E
  BY PlainAre
<1>3. Closed(m)
  <2>1. \A x, y : Len(<<x, y>>) = 2 /\ <<x, y>>[2] = y
    OBVIOUS
  <2> QED
    BY <2>1 DEF Closed, MarkerLine
<1>4. ~ s.passed => m = <<>>
  BY DEF MarkerLine
<1> HIDE DEF m, E
<1>5. \A i \in 1 .. Len(m) : m[i] \in E
  BY <1>1, ElementOfSeq
<1>6. \A label \in Labels : Lacks(m, label)
  BY <1>2, <1>5 DEF Lacks
<1> QED
  BY <1>1, <1>3, <1>4, <1>6 DEF m

LEMMA LacksJoin ==
    ASSUME NEW V, NEW x \in Seq(V), NEW y \in Seq(V), NEW e, Lacks(x, e), Lacks(y, e)
    PROVE  Lacks(x \o y, e)
<1> DEFINE z == x \o y
<1>1. /\ Len(z) = Len(x) + Len(y)
      /\ \A i \in 1 .. Len(x) : z[i] = x[i]
      /\ \A i \in 1 .. Len(x) + Len(y) :
            i \in 1 .. Len(x) \/ (i - Len(x) \in 1 .. Len(y) /\ z[i] = y[i - Len(x)])
  BY Joined
<1> HIDE DEF z
<1>2. \A i \in 1 .. Len(z) : z[i] # e
  BY <1>1 DEF Lacks
<1> QED
  BY <1>2 DEF Lacks, z

(* The line of the summary for a label, and what is before and after it.   *)
Around(s, label, before, after) ==
    /\ Opens(before, label) /\ after \in Seq(Plain) /\ Lacks(after, label)
    /\ Text(s) = (before \o SummaryLine(s, label)) \o after

LEMMA ThreeLack ==
    ASSUME NEW x \in Seq(Plain), NEW y \in Seq(Plain), NEW z \in Seq(Plain), NEW e,
           Lacks(x, e), Lacks(y, e), Lacks(z, e)
    PROVE  (x \o y) \o z \in Seq(Plain) /\ Lacks((x \o y) \o z, e)
<1> DEFINE w == x \o y
<1>1. w \in Seq(Plain) /\ Lacks(w, e)
  BY ConcatProperties, LacksJoin
<1> HIDE DEF w
<1>2. w \o z \in Seq(Plain) /\ Lacks(w \o z, e)
  BY <1>1, ConcatProperties, LacksJoin
<1> QED
  BY <1>2 DEF w

LEMMA TextAround ==
    ASSUME NEW s \in Sweeps, NEW label \in Labels, Modest(s.gates, label)
    PROVE  \E before, after : Around(s, label, before, after)
<1> DEFINE g == GateLines(s.gates)
           m == MarkerLine(s)
           l1 == "Total tests"
           l2 == "Passed"
           l3 == "Failed"
           l4 == "Warnings"
           a == SummaryLine(s, l1)
           b == SummaryLine(s, l2)
           c == SummaryLine(s, l3)
           d == SummaryLine(s, l4)
           p == g \o m
<1>1. Text(s) = (((p \o a) \o b) \o c) \o d
  BY DEF Text, MarkerLine
<1>2. /\ {l1, l2, l3, l4} = Labels /\ l1 # l2 /\ l1 # l3 /\ l1 # l4 /\ l2 # l3 /\ l2 # l4 /\ l3 # l4
  BY DEF Labels
<1>3. Opens(p, label)
  <2>1. Opens(g, label)
    <3>1. s.gates \in Seq(Gates)
      BY TriageAssumption
    <3> QED
      BY <3>1, OpensGates
  <2>2. Opens(m, label)
    BY MarkerShape, OpensPlain
  <2> QED
    BY <2>1, <2>2, OpensJoin
<1>4. \A l \in Labels : SummaryLine(s, l) \in Seq(Plain) /\ SummaryLine(s, l) \in Seq(Tokens)
  BY SummaryShape, PlainStripped
<1>5. \A l \in Labels : l # label => Lacks(SummaryLine(s, l), label) /\ Opens(SummaryLine(s, l), label)
  <2> SUFFICES ASSUME NEW l \in Labels, l # label
               PROVE  Lacks(SummaryLine(s, l), label) /\ Opens(SummaryLine(s, l), label)
    OBVIOUS
  <2> DEFINE x == SummaryLine(s, l)
  <2>1. x \in Seq(Plain) /\ Closed(x) /\ Lacks(x, label)
    BY SummaryShape
  <2> HIDE DEF x
  <2>2. Opens(x, label)
    BY <2>1, OpensPlain
  <2> QED
    BY <2>1, <2>2 DEF x
<1>6. \A x : Opens(x, label) => x \in Seq(Tokens)
  BY DEF Opens
<1>7. /\ a \in Seq(Plain) /\ b \in Seq(Plain) /\ c \in Seq(Plain) /\ d \in Seq(Plain)
      /\ a \in Seq(Tokens) /\ b \in Seq(Tokens) /\ c \in Seq(Tokens) /\ d \in Seq(Tokens)
  BY <1>2, <1>4
<1> HIDE DEF p, a, b, c, d
<1>8. CASE label = l1
  <2>1. /\ Lacks(b, label) /\ Lacks(c, label) /\ Lacks(d, label)
    BY <1>2, <1>5, <1>8 DEF b, c, d
  <2> DEFINE after == (b \o c) \o d
  <2>2. after \in Seq(Plain) /\ Lacks(after, label)
    BY <1>7, <2>1, ThreeLack
  <2>3. Text(s) = (p \o a) \o after
    <3> DEFINE q == p \o a
               e == b \o c
    <3>1. q \in Seq(Tokens) /\ e \in Seq(Tokens)
      BY <1>3, <1>6, <1>7, ConcatProperties
    <3>2. (q \o b) \o c = q \o e
      <4>1. q \in Seq(Tokens) /\ b \in Seq(Tokens) /\ c \in Seq(Tokens)
        BY <1>7, <3>1
      <4> HIDE DEF q
      <4> QED
        BY <4>1, ConcatAssociative
    <3> HIDE DEF q, e
    <3>3. (q \o e) \o d = q \o (e \o d)
      <4>1. q \in Seq(Tokens) /\ e \in Seq(Tokens) /\ d \in Seq(Tokens)
        BY <1>7, <3>1
      <4> QED
        BY <4>1, ConcatAssociative
    <3> QED
      BY <1>1, <3>2, <3>3 DEF q, e
  <2>4. Around(s, label, p, after)
    BY <1>3, <1>8, <2>2, <2>3 DEF Around, a
  <2> QED
    BY <2>4
<1>9. CASE label = l2
  <2>1. Opens(a, label) /\ Lacks(c, label) /\ Lacks(d, label)
    BY <1>2, <1>5, <1>9 DEF a, c, d
  <2> DEFINE before == p \o a
             after == c \o d
  <2>2. Opens(before, label) /\ before \in Seq(Tokens)
    BY <1>3, <1>6, <2>1, OpensJoin
  <2>3. after \in Seq(Plain) /\ Lacks(after, label)
    BY <1>7, <2>1, ConcatProperties, LacksJoin
  <2>4. Text(s) = (before \o b) \o after
    <3> DEFINE q == before \o b
    <3>1. q \in Seq(Tokens)
      <4> HIDE DEF before
      <4> QED
        BY <1>7, <2>2, ConcatProperties
    <3>2. Text(s) = (q \o c) \o d
      BY <1>1
    <3> HIDE DEF q, before
    <3>3. (q \o c) \o d = q \o (c \o d)
      <4>1. q \in Seq(Tokens) /\ c \in Seq(Tokens) /\ d \in Seq(Tokens)
        BY <1>7, <3>1
      <4> QED
        BY <4>1, ConcatAssociative
    <3> QED
      BY <3>2, <3>3 DEF q
  <2> HIDE DEF before, after
  <2>5. Around(s, label, before, after)
    BY <1>9, <2>2, <2>3, <2>4 DEF Around, b
  <2> QED
    BY <2>5
<1>10. CASE label = l3
  <2>1. Opens(a, label) /\ Opens(b, label) /\ Lacks(d, label)
    BY <1>2, <1>5, <1>10 DEF a, b, d
  <2>2. Opens(p \o a, label)
    BY <1>3, <2>1, OpensJoin
  <2>3. Opens((p \o a) \o b, label)
    BY <2>1, <2>2, OpensJoin
  <2>4. Around(s, label, (p \o a) \o b, d)
    BY <1>1, <1>7, <1>10, <2>1, <2>3 DEF Around, c
  <2> QED
    BY <2>4
<1>11. CASE label = l4
  <2>1. Opens(a, label) /\ Opens(b, label) /\ Opens(c, label)
    BY <1>2, <1>5, <1>11 DEF a, b, c
  <2>2. Opens(p \o a, label)
    BY <1>3, <2>1, OpensJoin
  <2>3. Opens((p \o a) \o b, label)
    BY <2>1, <2>2, OpensJoin
  <2> DEFINE before == ((p \o a) \o b) \o c
  <2>4. Opens(before, label)
    BY <2>1, <2>3, OpensJoin
  <2>5. Text(s) = before \o d
    BY <1>1
  <2> HIDE DEF before
  <2>6. before \o d \in Seq(Tokens)
    BY <1>6, <1>7, <2>4, ConcatProperties
  <2>7. Text(s) = (before \o d) \o <<>>
    BY <2>5, <2>6, ConcatEmptySeq
  <2>8. <<>> \in Seq(Plain) /\ Lacks(<<>>, label)
    BY EmptySeq DEF Lacks
  <2>9. Around(s, label, before, <<>>)
    BY <1>11, <2>4, <2>7, <2>8 DEF Around, d
  <2> QED
    BY <2>9
<1> QED
  BY <1>2, <1>8, <1>9, <1>10, <1>11

(* The marker is in the log only when the sweep has passed, or when a gate *)
(* quotes it.                                                              *)
LEMMA QuoteLacks ==
    ASSUME NEW h \in Gates, ~ Quotes(h)
    PROVE  Lacks(GateLine(h), Marker)
<1> DEFINE line == GateLine(h)
<1>1. line \in Seq(Tokens)
  BY GateTyped
<1>2. Marker \notin ToSet(line)
  BY DEF Quotes
<1> HIDE DEF line
<1>3. DOMAIN line = 1 .. Len(line)
  BY <1>1, LenProperties
<1> QED
  BY <1>2, <1>3 DEF ToSet, Lacks, line

LEMMA QuotesLack ==
    ASSUME NEW gates \in Seq(Gates), \A j \in 1 .. Len(gates) : ~ Quotes(gates[j])
    PROVE  Lacks(GateLines(gates), Marker)
<1> DEFINE Silent(u) == \A j \in 1 .. Len(u) : ~ Quotes(u[j])
           Q == {u \in Seq(Gates) : Silent(u) => Lacks(GateLines(u), Marker)}
<1>1. <<>> \in Q
  BY GateLinesGrow, EmptySeq DEF Lacks
<1>2. ASSUME NEW u \in Seq(Gates), NEW h \in Gates, u \in Q PROVE Append(u, h) \in Q
  <2>1. /\ Append(u, h) \in Seq(Gates) /\ GateLines(Append(u, h)) = GateLines(u) \o GateLine(h)
        /\ GateLine(h) \in Seq(Tokens) /\ GateLines(u) \in Seq(Tokens)
    BY AppendProperties, GateLinesGrow, GateTyped
  <2>2. ASSUME Silent(Append(u, h)) PROVE Lacks(GateLines(u) \o GateLine(h), Marker)
    <3> DEFINE v == Append(u, h)
               n == Len(u)
    <3>1. Len(v) = n + 1 /\ v[n + 1] = h /\ (\A i \in 1 .. n : v[i] = u[i]) /\ n \in Nat
      BY AppendProperties, LenProperties
    <3>2. \A i \in 1 .. Len(v) : ~ Quotes(v[i])
      BY <2>2
    <3> HIDE DEF v, n
    <3>3. n + 1 \in 1 .. Len(v) /\ \A i \in 1 .. n : i \in 1 .. Len(v)
      BY <3>1
    <3>4. ~ Quotes(h) /\ \A i \in 1 .. n : ~ Quotes(u[i])
      BY <3>1, <3>2, <3>3
    <3>5. Silent(u)
      BY <3>4 DEF n
    <3>6. Lacks(GateLines(u), Marker) /\ Lacks(GateLine(h), Marker)
      BY <1>2, <3>4, <3>5, QuoteLacks
    <3> QED
      BY <2>1, <3>6, LacksJoin
  <2> QED
    BY <2>1, <2>2
<1>3. Seq(Gates) \subseteq Q
  <2> HIDE DEF Q
  <2> QED
    BY <1>1, <1>2, SequenceInduction
<1> QED
  BY <1>3

LEMMA MarkerMeansPassed ==
    ASSUME NEW s \in Sweeps, NEW n \in 0 .. Len(Text(s)),
           NEW i \in 1 .. n, SubSeq(Text(s), 1, n)[i] = Marker
    PROVE  s.passed \/ \E j \in DOMAIN s.gates : Quotes(s.gates[j])
<1> SUFFICES ASSUME ~ s.passed, \A j \in DOMAIN s.gates : ~ Quotes(s.gates[j]) PROVE FALSE
  OBVIOUS
<1> DEFINE g == GateLines(s.gates)
           r == Rest(s)
<1>1. s.gates \in Seq(Gates)
  BY TriageAssumption
<1>2. g \in Seq(Tokens) /\ r \in Seq(Plain) /\ r \in Seq(Tokens) /\ Text(s) = g \o r
  <2>1. r \in Seq(Plain) /\ Text(s) = g \o r
    BY TextShape
  <2>2. g \in Seq(Tokens)
    BY <1>1, GateLinesGrow
  <2> QED
    BY <2>1, <2>2, PlainStripped
<1>3. Lacks(g, Marker)
  <2>1. DOMAIN s.gates = 1 .. Len(s.gates)
    BY <1>1, LenProperties
  <2> QED
    BY <1>1, <2>1, QuotesLack
<1>4. Lacks(r, Marker)
  <2> DEFINE l1 == "Total tests"
             l2 == "Passed"
             l3 == "Failed"
             l4 == "Warnings"
             m == MarkerLine(s)
             a == SummaryLine(s, l1)
             b == SummaryLine(s, l2)
             c == SummaryLine(s, l3)
             d == SummaryLine(s, l4)
  <2>1. {l1, l2, l3, l4} = Labels
    BY DEF Labels
  <2>2. \A l \in Labels : SummaryLine(s, l) \in Seq(Plain) /\ Lacks(SummaryLine(s, l), Marker)
    BY SummaryShape
  <2>3. /\ a \in Seq(Plain) /\ b \in Seq(Plain) /\ c \in Seq(Plain) /\ d \in Seq(Plain)
        /\ Lacks(a, Marker) /\ Lacks(b, Marker) /\ Lacks(c, Marker) /\ Lacks(d, Marker)
    BY <2>1, <2>2
  <2>4. m = <<>> /\ m \in Seq(Plain) /\ Lacks(m, Marker)
    BY MarkerShape, EmptySeq DEF Lacks
  <2>5. r = (((m \o a) \o b) \o c) \o d
    BY DEF Rest
  <2> HIDE DEF m, a, b, c, d, r
  <2> DEFINE x == (m \o a) \o b
  <2>6. x \in Seq(Plain) /\ Lacks(x, Marker)
    BY <2>3, <2>4, ThreeLack
  <2> HIDE DEF x
  <2>7. Lacks((x \o c) \o d, Marker)
    BY <2>3, <2>6, ThreeLack
  <2> QED
    BY <2>5, <2>7 DEF x
<1> HIDE DEF g, r
<1>5. Lacks(Text(s), Marker) /\ Text(s) \in Seq(Tokens)
  BY <1>2, <1>3, <1>4, LacksJoin, ConcatProperties
<1>6. SubSeq(Text(s), 1, n)[i] = Text(s)[i] /\ i \in 1 .. Len(Text(s))
  BY <1>5, Beginning
<1> QED
  BY <1>5, <1>6 DEF Lacks
-----------------------------------------------------------------------------
(***************************************************************************)
(* The number that is found after a label.                                 *)
(***************************************************************************)
Outside(text, S, j) == {k \in j .. Len(text) : text[k] \notin S} \cup {Len(text) + 1}

LEMMA NumberFromIs ==
    ASSUME NEW text, NEW i
    PROVE  LET from == Min(Outside(text, {"NL"}, i))
           IN  NumberFrom(text, i) = SubSeq(text, from, Min(Outside(text, ToSet(Digits), from)) - 1)
BY DEF NumberFrom, Outside

LEMMA OutsideFirst ==
    ASSUME NEW text \in Seq(Tokens), NEW S, NEW j \in Nat, NEW m \in j .. Len(text) + 1,
           m = Len(text) + 1 \/ text[m] \notin S,
           \A k \in j .. m - 1 : text[k] \in S
    PROVE  Min(Outside(text, S, j)) = m
<1> DEFINE n == Len(text)
           O == Outside(text, S, j)
<1>1. n \in Nat /\ j \in Nat /\ m \in j .. n + 1
  BY LenProperties
<1>2. m \in O
  <2>1. m = n + 1 \/ m \in j .. n
    BY <1>1
  <2> QED
    BY <2>1 DEF Outside
<1>3. \A k \in O : (k \in j .. n /\ text[k] \notin S) \/ k = n + 1
  BY DEF Outside
<1> HIDE DEF n, O
<1>4. O \subseteq Nat /\ \A k \in O : m <= k
  <2> SUFFICES ASSUME NEW k \in O PROVE k \in Nat /\ m <= k
    OBVIOUS
  <2>1. CASE k = n + 1
    BY <1>1, <2>1
  <2>2. CASE k \in j .. n /\ text[k] \notin S
    <3>1. ~ (k \in j .. m - 1)
      BY <2>2
    <3> QED
      BY <1>1, <2>2, <3>1
  <2> QED
    BY <1>3, <2>1, <2>2
<1> QED
  BY <1>2, <1>4, LeastIs DEF O

(* A label at the start of a line, digits, and then the end of the line or *)
(* of the text.                                                            *)
Labelled(a, label, ds, w) == a \o ((<<label>> \o ds) \o w)

Laid(text, a, label, ds, w) ==
    /\ text \in Seq(Tokens)
    /\ Len(a) + 1 \in Nat /\ Len(ds) \in Nat /\ Len(w) \in Nat
    /\ Len(text) = (Len(a) + 1) + Len(ds) + Len(w)
    /\ \A i \in 1 .. Len(a) : text[i] = a[i]
    /\ text[Len(a) + 1] = label
    /\ \A i \in 1 .. Len(ds) : text[(Len(a) + 1) + i] = ds[i]
    /\ \A i \in 1 .. Len(w) : text[(Len(a) + 1) + Len(ds) + i] = w[i]

LEMMA LabelledShape ==
    ASSUME NEW a \in Seq(Tokens), NEW label \in Tokens, NEW ds \in Seq(Tokens), NEW w \in Seq(Tokens)
    PROVE  Laid(Labelled(a, label, ds, w), a, label, ds, w)
<1> DEFINE h == <<label>>
           x == h \o ds
           u == x \o w
           text == a \o u
           n == Len(a)
           e == Len(ds)
<1>1. h \in Seq(Tokens) /\ Len(h) = 1 /\ h[1] = label
  BY OnlyLine
<1> HIDE DEF h
<1>2. /\ x \in Seq(Tokens) /\ Len(x) = Len(h) + Len(ds) /\ e \in Nat
      /\ \A i \in 1 .. Len(h) : x[i] = h[i]
      /\ \A i \in 1 .. Len(ds) : x[Len(h) + i] = ds[i]
  <2>1. h \in Seq(Tokens)
    BY <1>1
  <2> HIDE DEF e
  <2>2. /\ x \in Seq(Tokens) /\ Len(x) = Len(h) + Len(ds) /\ Len(ds) \in Nat
        /\ \A i \in 1 .. Len(h) : x[i] = h[i]
        /\ \A i \in 1 .. Len(ds) : x[Len(h) + i] = ds[i]
    BY <2>1, Joined
  <2> QED
    BY <2>2 DEF e
<1> HIDE DEF x
<1>3. /\ u \in Seq(Tokens) /\ Len(u) = Len(x) + Len(w) /\ Len(w) \in Nat
      /\ \A i \in 1 .. Len(x) : u[i] = x[i]
      /\ \A i \in 1 .. Len(w) : u[Len(x) + i] = w[i]
  <2>1. x \in Seq(Tokens)
    BY <1>2
  <2> QED
    BY <2>1, Joined
<1> HIDE DEF u
<1>4. /\ text \in Seq(Tokens) /\ Len(text) = Len(a) + Len(u) /\ n \in Nat
      /\ \A i \in 1 .. Len(a) : text[i] = a[i]
      /\ \A i \in 1 .. Len(u) : text[Len(a) + i] = u[i]
  <2>1. u \in Seq(Tokens)
    BY <1>3
  <2> HIDE DEF n
  <2>2. /\ text \in Seq(Tokens) /\ Len(text) = Len(a) + Len(u) /\ Len(a) \in Nat
        /\ \A i \in 1 .. Len(a) : text[i] = a[i]
        /\ \A i \in 1 .. Len(u) : text[Len(a) + i] = u[i]
    BY <2>1, Joined
  <2> QED
    BY <2>2 DEF n
<1> HIDE DEF text
<1>5. Len(x) = 1 + e /\ Len(u) = 1 + e + Len(w) /\ Len(text) = (n + 1) + e + Len(w) /\ n + 1 \in Nat
  BY <1>1, <1>2, <1>3, <1>4
<1>6. text[n + 1] = label
  <2>1. 1 \in 1 .. Len(u) /\ 1 \in 1 .. Len(x) /\ 1 \in 1 .. Len(h)
    BY <1>1, <1>2, <1>3, <1>5
  <2> QED
    BY <1>1, <1>2, <1>3, <1>4, <2>1
<1>7. ASSUME NEW i \in 1 .. e PROVE text[(n + 1) + i] = ds[i]
  <2>1. 1 + i \in 1 .. Len(x) /\ 1 + i \in 1 .. Len(u) /\ n + (1 + i) = (n + 1) + i
    BY <1>2, <1>3, <1>4, <1>5
  <2>2. x[1 + i] = ds[i]
    BY <1>1, <1>2
  <2>3. u[1 + i] = x[1 + i] /\ text[n + (1 + i)] = u[1 + i]
    BY <1>3, <1>4, <2>1
  <2> QED
    BY <2>1, <2>2, <2>3
<1>8. ASSUME NEW i \in 1 .. Len(w) PROVE text[(n + 1) + e + i] = w[i]
  <2>1. (1 + e) + i \in 1 .. Len(u) /\ n + ((1 + e) + i) = (n + 1) + e + i
    BY <1>2, <1>3, <1>4, <1>5
  <2>2. u[(1 + e) + i] = w[i]
    BY <1>3, <1>5
  <2>3. text[n + ((1 + e) + i)] = u[(1 + e) + i]
    BY <1>4, <2>1
  <2> QED
    BY <2>1, <2>2, <2>3
<1> QED
  BY <1>2, <1>3, <1>4, <1>5, <1>6, <1>7, <1>8 DEF Laid, Labelled, text, u, x, h

LEMMA NumberRead ==
    ASSUME NEW a \in Seq(Tokens), NEW label \in Tokens, NEW ds \in Seq(ToSet(Digits)),
           NEW w \in Seq(Tokens), w = <<>> \/ (ds # <<>> /\ w[1] = "NL")
    PROVE  NumberFrom(Labelled(a, label, ds, w), Len(a) + 2) = ds
<1> DEFINE text == Labelled(a, label, ds, w)
           p == Len(a) + 1
           e == Len(ds)
           D == ToSet(Digits)
           nl == "NL"
           n == Len(text)
<1>1. ds \in Seq(Tokens)
  BY TokensAre, SeqMonotonic
<1>2. /\ text \in Seq(Tokens) /\ p \in Nat /\ e \in Nat /\ Len(w) \in Nat
      /\ Len(text) = p + e + Len(w)
      /\ \A i \in 1 .. e : text[p + i] = ds[i]
      /\ \A i \in 1 .. Len(w) : text[p + e + i] = w[i]
  <2> HIDE DEF text, p, e, D, nl, n
  <2>1. Laid(Labelled(a, label, ds, w), a, label, ds, w)
    BY <1>1, LabelledShape
  <2>2. Laid(text, a, label, ds, w)
    BY <2>1 DEF text
  <2> QED
    BY <2>2 DEF Laid, p, e
<1>3. \A i \in 1 .. e : ds[i] \in D
  BY ElementOfSeq
<1>4. nl \notin D
  BY PlainAre
<1>5. w = <<>> \/ (ds # <<>> /\ w[1] = nl /\ w # <<>>)
  OBVIOUS
<1>6. NumberFrom(text, p + 1) = SubSeq(text, Min(Outside(text, {nl}, p + 1)),
                                       Min(Outside(text, D, Min(Outside(text, {nl}, p + 1)))) - 1)
  BY NumberFromIs
<1>7. p + 1 = Len(a) + 2
  BY LenProperties
<1> HIDE DEF text, D, nl, p
<1>8. /\ n \in Nat /\ n = p + e + Len(w)
      /\ (w = <<>> => Len(w) = 0) /\ (w # <<>> => Len(w) # 0 /\ w[1] = nl)
      /\ (ds = <<>> => e = 0 /\ w = <<>>) /\ (ds # <<>> => e # 0)
  <2>1. (w = <<>> => Len(w) = 0) /\ (w # <<>> => Len(w) # 0) /\ (ds = <<>> => e = 0) /\ (ds # <<>> => e # 0)
    BY EmptySeq
  <2>2. n \in Nat /\ n = p + e + Len(w)
    BY <1>2
  <2> QED
    BY <1>5, <2>1, <2>2
<1> HIDE DEF n, e
<1>9. Min(Outside(text, {nl}, p + 1)) = p + 1
  <2>1. p + 1 \in Nat /\ p + 1 \in p + 1 .. n + 1 /\ (p + 1) .. (p + 1) - 1 = {}
    BY <1>2, <1>8
  <2>2. p + 1 = n + 1 \/ text[p + 1] \notin {nl}
    <3>1. CASE e = 0
      BY <1>2, <1>8, <3>1
    <3>2. CASE e # 0
      <4>1. 1 \in 1 .. e
        BY <1>2, <3>2
      <4>2. text[p + 1] = ds[1] /\ ds[1] \in D
        BY <1>2, <1>3, <4>1
      <4> QED
        BY <1>4, <4>2
    <3> QED
      BY <3>1, <3>2
  <2> DEFINE j == p + 1
             S == {nl}
  <2>3. /\ j \in Nat /\ j \in j .. n + 1 /\ (j = n + 1 \/ text[j] \notin S)
        /\ \A k \in j .. j - 1 : text[k] \in S
    BY <2>1, <2>2
  <2> HIDE DEF j, S
  <2>4. Min(Outside(text, S, j)) = j
    BY <1>2, <2>3, OutsideFirst DEF n
  <2> QED
    BY <2>4 DEF j, S
<1>10. Min(Outside(text, D, p + 1)) = p + 1 + e
  <2> DEFINE j == p + 1
             m == p + 1 + e
  <2>1. j \in Nat /\ m \in j .. n + 1
    BY <1>2, <1>8
  <2>2. m = n + 1 \/ text[m] \notin D
    <3>1. CASE w = <<>>
      BY <1>2, <1>8, <3>1
    <3>2. CASE w # <<>>
      <4>1. 1 \in 1 .. Len(w) /\ m = p + e + 1
        BY <1>2, <1>8, <3>2
      <4>2. text[p + e + 1] = nl
        BY <1>2, <1>8, <3>2, <4>1
      <4> HIDE DEF m
      <4> QED
        BY <1>4, <4>1, <4>2
    <3> QED
      BY <3>1, <3>2
  <2>3. \A k \in j .. m - 1 : text[k] \in D
    <3> TAKE k \in j .. m - 1
    <3> DEFINE i == k - p
    <3>1. i \in 1 .. e /\ k = p + i
      BY <1>2
    <3> HIDE DEF i, j, m
    <3> QED
      BY <1>2, <1>3, <3>1
  <2> HIDE DEF j, m
  <2>4. Min(Outside(text, D, j)) = m
    BY <1>2, <2>1, <2>2, <2>3, OutsideFirst DEF n
  <2> QED
    BY <2>4 DEF j, m
<1>11. SubSeq(text, p + 1, (p + 1 + e) - 1) = ds
  <2> DEFINE j == p + 1
             m == (p + 1 + e) - 1
             y == SubSeq(text, j, m)
  <2>1. j \in Nat /\ m = p + e /\ m \in Nat /\ m - j + 1 = e /\ (j <= m <=> e # 0)
    BY <1>2
  <2>2. \A i \in j .. m : i \in 1 .. n
    BY <1>2, <1>8, <2>1
  <2>3. \A i \in j .. m : text[i] \in Tokens
    BY <1>2, <2>2, ElementOfSeq DEF n
  <2> HIDE DEF j, m
  <2>4. /\ y \in Seq(Tokens) /\ Len(y) = (IF j <= m THEN m - j + 1 ELSE 0)
        /\ \A i \in 1 .. m - j + 1 : y[i] = text[j + i - 1]
    BY <2>1, <2>3, SubSeqProperties
  <2> HIDE DEF y
  <2>5. Len(y) = e
    BY <1>2, <2>1, <2>4
  <2>6. \A i \in 1 .. e : y[i] = ds[i]
    <3> TAKE i \in 1 .. e
    <3>1. j + i - 1 = p + i /\ i \in 1 .. m - j + 1
      BY <1>2, <2>1 DEF j
    <3> QED
      BY <1>2, <2>4, <3>1
  <2>7. y = ds
    BY <1>1, <2>4, <2>5, <2>6, SeqEqual DEF e
  <2> QED
    BY <2>7 DEF y, j, m
<1> QED
  BY <1>6, <1>7, <1>9, <1>10, <1>11 DEF text

(* A label at the start of a line, of which only the one has a number.     *)
LEMMA OnlyStart ==
    ASSUME NEW a \in Seq(Tokens), NEW label \in Labels, NEW ds \in Seq(Numbered),
           NEW w \in Seq(Tokens), Unlabeled(a, label), Lacks(w, label), NEW text,
           Laid(text, a, label, ds, w), NEW i \in 1 .. Len(text), Starts(text, label, i)
    PROVE  i = Len(a) + 1 \/ (i + 2 <= Len(text) /\ text[i + 2] \notin Numeral)
<1> DEFINE n == Len(a)
           e == Len(ds)
           nl == "NL"
<1>1. /\ n + 1 \in Nat /\ e \in Nat /\ Len(w) \in Nat /\ Len(text) = (n + 1) + e + Len(w)
      /\ \A j \in 1 .. n : text[j] = a[j]
      /\ \A j \in 1 .. e : text[(n + 1) + j] = ds[j]
      /\ \A j \in 1 .. Len(w) : text[(n + 1) + e + j] = w[j]
  BY DEF Laid
<1>2. n \in Nat
  BY LenProperties
<1>3. \A j \in 1 .. e : ds[j] # label
  <2>1. \A j \in 1 .. Len(ds) : ds[j] \in Numbered
    BY ElementOfSeq
  <2>2. label \notin Numbered
    BY PlainAre
  <2> QED
    BY <2>1, <2>2
<1>4. \A j \in 1 .. Len(w) : w[j] # label
  BY DEF Lacks
<1>5. \A j \in 1 .. n : a[j] = label /\ (j = 1 \/ a[j - 1] = nl) => j + 2 <= n /\ a[j + 2] \notin Numeral
  BY DEF Unlabeled, Starts
<1>6. text[i] = label /\ (i = 1 \/ text[i - 1] = nl)
  BY DEF Starts
<1> HIDE DEF n, e, nl
<1>7. CASE i \in 1 .. n
  <2>1. i # 1 => i - 1 \in 1 .. n
    BY <1>2, <1>7
  <2>2. text[i] = a[i] /\ (i # 1 => text[i - 1] = a[i - 1])
    BY <1>1, <1>7, <2>1
  <2>3. i + 2 <= n /\ a[i + 2] \notin Numeral
    BY <1>5, <1>6, <1>7, <2>2
  <2>4. i + 2 \in 1 .. n /\ i + 2 <= Len(text)
    BY <1>1, <1>2, <1>7, <2>3
  <2> QED
    BY <1>1, <2>3, <2>4
<1>8. ASSUME i # n + 1, ~ (i \in 1 .. n) PROVE FALSE
  <2>1. CASE i - (n + 1) \in 1 .. e
    <3> DEFINE j == i - (n + 1)
    <3>1. j \in 1 .. e /\ i = (n + 1) + j
      BY <1>2, <2>1
    <3> HIDE DEF j
    <3> QED
      BY <1>1, <1>3, <1>6, <3>1
  <2>2. CASE i - (n + 1) - e \in 1 .. Len(w)
    <3> DEFINE j == i - (n + 1) - e
    <3>1. j \in 1 .. Len(w) /\ i = (n + 1) + e + j
      BY <1>1, <1>2, <2>2
    <3> HIDE DEF j
    <3> QED
      BY <1>1, <1>4, <1>6, <3>1
  <2> QED
    BY <1>1, <1>2, <1>8, <2>1, <2>2
<1> QED
  BY <1>7, <1>8 DEF n

(* The text ends with the label, or before any digit of its number.        *)
LEMMA LabelAlone ==
    ASSUME NEW a \in Seq(Tokens), NEW label \in Labels, NEW ds \in Seq(Numbered),
           Len(ds) <= 1, Unlabeled(a, label), NEW text, Laid(text, a, label, ds, <<>>)
    PROVE  Unnumbered(text, label)
<1> DEFINE n == Len(a)
           e == Len(ds)
           w == <<>>
<1>1. w \in Seq(Tokens) /\ Len(w) = 0 /\ Lacks(w, label)
  <2>1. w \in Seq(Tokens) /\ Len(w) = 0
    BY EmptySeq
  <2> HIDE DEF w
  <2>2. \A i \in 1 .. Len(w) : FALSE
    BY <2>1
  <2> QED
    BY <2>1, <2>2 DEF Lacks
<1>2. n + 1 \in Nat /\ e \in Nat /\ Len(text) = (n + 1) + e + Len(w)
  BY DEF Laid
<1>3. e <= 1 /\ Laid(text, a, label, ds, w)
  OBVIOUS
<1> HIDE DEF n, e, w
<1>4. ASSUME NEW i \in 1 .. Len(text), Starts(text, label, i), i + 2 <= Len(text)
      PROVE  text[i + 2] \notin Numeral
  <2>1. i # n + 1
    BY <1>1, <1>2, <1>3, <1>4
  <2> QED
    BY <1>1, <1>3, <1>4, <2>1, OnlyStart DEF n
<1> QED
  BY <1>4 DEF Unnumbered

LEMMA NumberEmpty ==
    ASSUME NEW text \in Seq(Tokens), NEW j \in 1 .. Len(text) + 1,
           j = Len(text) + 1 \/ text[j] \notin Numeral
    PROVE  NumberFrom(text, j) = <<>>
<1> DEFINE D == ToSet(Digits)
           N == {"NL"}
           n == Len(text)
<1>1. n \in Nat /\ j \in Nat /\ j \in j .. n + 1 /\ j .. j - 1 = {} /\ j - 1 \in Nat
  <2>1. n \in Nat
    BY LenProperties
  <2> HIDE DEF n
  <2>2. j \in 1 .. n + 1
    BY DEF n
  <2> QED
    BY <2>1, <2>2
<1>2. (j = n + 1 \/ text[j] \notin N) /\ (j = n + 1 \/ text[j] \notin D)
  BY DEF Numeral
<1>3. NumberFrom(text, j) = SubSeq(text, Min(Outside(text, N, j)), Min(Outside(text, D, Min(Outside(text, N, j)))) - 1)
  BY NumberFromIs
<1> HIDE DEF D, N
<1>4. Min(Outside(text, N, j)) = j /\ Min(Outside(text, D, j)) = j
  <2>1. \A k \in j .. j - 1 : text[k] \in N /\ text[k] \in D
    BY <1>1
  <2> QED
    BY <1>1, <1>2, <2>1, OutsideFirst
<1>5. SubSeq(text, j, j - 1) = <<>>
  <2> DEFINE y == SubSeq(text, j, j - 1)
  <2>1. j \in Int /\ j - 1 \in Int /\ ~ (j <= j - 1) /\ \A k \in j .. j - 1 : text[k] \in Tokens
    BY <1>1
  <2>2. y \in Seq(Tokens) /\ Len(y) = (IF j <= j - 1 THEN j - 1 - j + 1 ELSE 0)
    BY <2>1, SubSeqProperties
  <2> HIDE DEF y
  <2>3. Len(y) = 0
    BY <2>1, <2>2
  <2>4. y = <<>>
    BY <2>2, <2>3, EmptySeq
  <2> QED
    BY <2>4 DEF y
<1> QED
  BY <1>3, <1>4, <1>5

LEMMA NoNumber ==
    ASSUME NEW clean \in Seq(Tokens), NEW label, Unnumbered(clean, label)
    PROVE  extractFirstInt(clean, label) = -1
<1> DEFINE n == Len(clean)
<1>1. n \in Nat
  BY LenProperties
<1>2. ASSUME NEW i \in 1 .. n - 1, Starts(clean, label, i) PROVE NumberFrom(clean, i + 2) = <<>>
  <2>1. i \in 1 .. n /\ i + 2 \in 1 .. n + 1 /\ (i + 2 = n + 1 \/ i + 2 <= n)
    BY <1>1
  <2>2. i + 2 <= n => clean[i + 2] \notin Numeral
    BY <1>2, <2>1 DEF Unnumbered
  <2> QED
    BY <2>1, <2>2, NumberEmpty
<1>3. Matches(clean, label) = {}
  BY <1>2 DEF Matches, Starts
<1> QED
  BY <1>3 DEF extractFirstInt

(* The number of the label: the digits after it.                           *)
LEMMA LabelledTwice ==
    ASSUME NEW a \in Seq(Tokens), NEW label \in Tokens, NEW colon \in Tokens, NEW ds \in Seq(Tokens),
           NEW w \in Seq(Tokens)
    PROVE  /\ a \o <<label>> \in Seq(Tokens) /\ Len(a \o <<label>>) = Len(a) + 1
           /\ Labelled(a, label, <<colon>> \o ds, w) = Labelled(a \o <<label>>, colon, ds, w)
<1> DEFINE h == <<label>>
           u == <<colon>> \o ds
           v == u \o w
<1>1. h \in Seq(Tokens) /\ Len(h) = 1
  BY OnlyLine
<1>2. u \in Seq(Tokens)
  BY LabelFirst
<1> HIDE DEF h, u
<1>3. v \in Seq(Tokens)
  BY <1>2, ConcatProperties
<1>4. (h \o u) \o w = h \o v
  <2>1. h \in Seq(Tokens) /\ u \in Seq(Tokens) /\ w \in Seq(Tokens)
    BY <1>1, <1>2
  <2> QED
    BY <2>1, ConcatAssociative
<1> HIDE DEF v
<1>5. a \o (h \o v) = (a \o h) \o v
  <2>1. a \in Seq(Tokens) /\ h \in Seq(Tokens) /\ v \in Seq(Tokens)
    BY <1>1, <1>3
  <2> QED
    BY <2>1, ConcatAssociative
<1>6. a \o h \in Seq(Tokens) /\ Len(a \o h) = Len(a) + 1
  <2>1. a \o h \in Seq(Tokens) /\ Len(a \o h) = Len(a) + Len(h)
    BY <1>1, ConcatProperties
  <2> QED
    BY <1>1, <2>1
<1> QED
  BY <1>4, <1>5, <1>6 DEF Labelled, h, u, v

LEMMA NumberFound ==
    ASSUME NEW a \in Seq(Tokens), NEW label \in Labels, NEW ds \in Seq(ToSet(Digits)), ds # <<>>,
           NEW w \in Seq(Tokens), Unlabeled(a, label), Closed(a), Lacks(w, label),
           w = <<>> \/ w[1] = "NL"
    PROVE  extractFirstInt(Labelled(a, label, <<Colon>> \o ds, w), label) = Value(ds)
<1> DEFINE colon == Colon
           number == <<colon>> \o ds
           clean == Labelled(a, label, number, w)
           p == Len(a) + 1
           found == Matches(clean, label)
           C == Numbered
<1>1. label \in Tokens /\ ds \in Seq(Tokens) /\ colon \in Tokens /\ colon \in C
  BY PlainAre, TokensAre, SeqMonotonic
<1>2. number \in Seq(Tokens) /\ number \in Seq(C) /\ Len(number) = Len(ds) + 1
  <2>1. ds \in Seq(C)
    BY PlainAre, SeqMonotonic
  <2> HIDE DEF colon, C
  <2> QED
    BY <1>1, <2>1, LabelFirst
<1>3. Laid(clean, a, label, number, w)
  <2> HIDE DEF number
  <2> QED
    BY <1>1, <1>2, LabelledShape
<1>4. NumberFrom(clean, p + 2) = ds
  <2> DEFINE b == a \o <<label>>
  <2>1. b \in Seq(Tokens) /\ Len(b) = p /\ clean = Labelled(b, colon, ds, w)
    <3> HIDE DEF colon
    <3> QED
      BY <1>1, LabelledTwice
  <2> HIDE DEF b, clean, colon, p
  <2>2. NumberFrom(Labelled(b, colon, ds, w), Len(b) + 2) = ds
    BY <1>1, <2>1, NumberRead
  <2> QED
    BY <2>1, <2>2
<1>5. number[1] = colon
  <2> DEFINE h == <<colon>>
  <2>1. h \in Seq(Tokens) /\ Len(h) = 1 /\ h[1] = colon
    BY <1>1, OnlyLine
  <2> HIDE DEF h, colon
  <2>2. (h \o ds)[1] = h[1]
    <3>1. 1 \in 1 .. Len(h)
      BY <2>1
    <3> QED
      BY <1>1, <2>1, <3>1, Joined
  <2> QED
    BY <2>1, <2>2 DEF h
<1> HIDE DEF clean, number, colon, C
<1>6. /\ clean \in Seq(Tokens) /\ p \in 1 .. Len(clean) - 1 /\ p \in Nat /\ Len(clean) \in Nat
      /\ Starts(clean, label, p) /\ clean[p + 1] = colon
  <2> DEFINE n == Len(a)
             nl == "NL"
  <2>1. /\ clean \in Seq(Tokens) /\ p \in Nat /\ Len(number) \in Nat /\ Len(w) \in Nat
        /\ Len(clean) = p + Len(number) + Len(w) /\ clean[p] = label
        /\ \A i \in 1 .. n : clean[i] = a[i]
        /\ \A i \in 1 .. Len(number) : clean[p + i] = number[i]
    BY <1>3 DEF Laid
  <2>2. n \in Nat /\ p = n + 1 /\ (n # 0 => a[n] = nl) /\ Len(ds) \in Nat
    <3>1. n \in Nat /\ Len(ds) \in Nat
      BY LenProperties
    <3>2. n # 0 => a # <<>>
      BY EmptySeq
    <3> QED
      BY <3>1, <3>2 DEF Closed
  <2> HIDE DEF n, p, nl
  <2>3. p \in 1 .. Len(clean) - 1 /\ 1 \in 1 .. Len(number) /\ Len(clean) \in Nat
    BY <1>2, <2>1, <2>2
  <2>4. p = 1 \/ clean[p - 1] = nl
    <3>1. CASE n = 0
      BY <2>2, <3>1
    <3>2. CASE n # 0
      <4>1. n \in 1 .. n /\ p - 1 = n
        BY <2>2, <3>2
      <4> QED
        BY <2>1, <2>2, <3>2, <4>1
    <3> QED
      BY <3>1, <3>2
  <2> QED
    BY <1>5, <2>1, <2>3, <2>4 DEF Starts, nl
<1>7. ASSUME NEW i \in 1 .. Len(clean) - 1, Starts(clean, label, i), i # p
      PROVE  NumberFrom(clean, i + 2) = <<>>
  <2>1. i \in 1 .. Len(clean)
    BY <1>6
  <2>2. i + 2 <= Len(clean) /\ clean[i + 2] \notin Numeral
    BY <1>2, <1>3, <1>7, <2>1, OnlyStart DEF C
  <2> HIDE DEF p
  <2>3. i + 2 \in 1 .. Len(clean) + 1
    BY <1>6, <2>2
  <2> QED
    BY <1>6, <2>2, <2>3, NumberEmpty
<1>8. found = {i \in 1 .. Len(clean) - 1 : /\ Starts(clean, label, i) /\ clean[i + 1] = colon
                                          /\ NumberFrom(clean, i + 2) # <<>>}
  BY DEF Matches, Starts, colon, Colon
<1> HIDE DEF found, p
<1>9. found = {p}
  BY <1>4, <1>6, <1>7, <1>8
<1>10. Min({p}) = p
  <2> DEFINE S == {p}
  <2>1. p \in S /\ S \subseteq Nat /\ \A x \in S : p <= x
    BY <1>6
  <2> HIDE DEF S
  <2>2. Min(S) = p
    BY <2>1, LeastIs
  <2> QED
    BY <2>2 DEF S
<1>11. extractFirstInt(clean, label) = Value(NumberFrom(clean, p + 2))
  <2>1. Matches(clean, label) = {p} /\ Min(Matches(clean, label)) = p
    BY <1>9, <1>10 DEF found
  <2> QED
    BY <2>1 DEF extractFirstInt, Value
<1> QED
  BY <1>4, <1>11 DEF clean, number, colon

(* A line of the summary, as far as it was read.                           *)
LEMMA LineRead ==
    ASSUME NEW text \in Seq(Tokens), NEW line \in Seq(Tokens), NEW i \in 1 .. Len(text),
           i + Len(line) - 1 <= Len(text), Len(line) # 0
    PROVE  LET rest == SubSeq(text, i, i + Len(line) - 1)
           IN  /\ rest \in Seq(Tokens) /\ Len(rest) = Len(line)
               /\ \A j \in 1 .. Len(line) : rest[j] = text[i + j - 1]
<1> DEFINE n == Len(text)
           m == Len(line)
           j == i + m - 1
           rest == SubSeq(text, i, j)
<1>1. n \in Nat /\ m \in Nat /\ m # 0 /\ i \in 1 .. n /\ j <= n
  BY LenProperties
<1> HIDE DEF n, m
<1>2. i \in Int /\ j \in Int /\ i <= j /\ j - i + 1 = m
  BY <1>1
<1>3. \A k \in i .. j : k \in 1 .. n
  BY <1>1
<1>4. \A k \in i .. j : text[k] \in Tokens
  BY <1>3, ElementOfSeq DEF n
<1> HIDE DEF j
<1>5. /\ rest \in Seq(Tokens) /\ Len(rest) = (IF i <= j THEN j - i + 1 ELSE 0)
      /\ \A k \in 1 .. j - i + 1 : rest[k] = text[i + k - 1]
  BY <1>2, <1>4, SubSeqProperties
<1>6. Len(rest) = m /\ \A k \in 1 .. m : rest[k] = text[i + k - 1]
  BY <1>2, <1>5
<1> QED
  BY <1>5, <1>6 DEF rest, j, m

LEMMA NoneStands ==
    ASSUME NEW text \in Seq(Tokens), NEW label \in Labels, NEW ds \in Seq(ToSet(Digits)), ds # <<>>,
           Unnumbered(text, label)
    PROVE  ~ Stands(<<label, Colon>> \o ds, text)
<1> DEFINE head == <<label, Colon>>
           line == head \o ds
           n == Len(text)
           m == Len(line)
<1> SUFFICES ASSUME Stands(line, text) PROVE FALSE
  OBVIOUS
<1>1. head \in Seq(Tokens) /\ Len(head) = 2 /\ head[1] = label
  <2>1. label \in Tokens /\ Colon \in Tokens
    BY PlainAre, TokensAre
  <2>2. head \in Seq(Tokens)
    BY <2>1, SmallSequences
  <2> QED
    BY <2>2
<1>2. ds \in Seq(Tokens) /\ Len(ds) \in Nat /\ Len(ds) # 0
  BY TokensAre, SeqMonotonic, EmptySeq, LenProperties
<1>3. PICK i \in DOMAIN text : /\ i = 1 \/ text[i - 1] = "NL"
                               /\ i + Len(line) - 1 <= Len(text)
                               /\ SubSeq(text, i, i + Len(line) - 1) = line
  BY DEF Stands
<1> HIDE DEF head
<1>4. /\ line \in Seq(Tokens) /\ Len(line) = Len(head) + Len(ds)
      /\ \A k \in 1 .. Len(head) : line[k] = head[k]
      /\ \A k \in 1 .. Len(ds) : line[Len(head) + k] = ds[k]
  <2>1. head \in Seq(Tokens) /\ ds \in Seq(Tokens)
    BY <1>1, <1>2
  <2> QED
    BY <2>1, Joined
<1> HIDE DEF line
<1>5. Len(line) = 2 + Len(ds) /\ line[1] = label /\ line[3] = ds[1] /\ 1 \in 1 .. Len(ds)
  <2>1. 1 \in 1 .. Len(head) /\ 1 \in 1 .. Len(ds) /\ Len(head) + 1 = 3
    BY <1>1, <1>2
  <2>2. line[Len(head) + 1] = ds[1]
    BY <1>4, <2>1
  <2> QED
    BY <1>1, <1>4, <2>1, <2>2
<1>6. i \in 1 .. n /\ n \in Nat
  BY LenProperties
<1>7. Len(line) # 0 /\ 1 \in 1 .. Len(line) /\ 3 \in 1 .. Len(line)
  BY <1>2, <1>5
<1>8. \A k \in 1 .. Len(line) : line[k] = text[i + k - 1]
  <2> DEFINE rest == SubSeq(text, i, i + Len(line) - 1)
  <2>1. \A k \in 1 .. Len(line) : rest[k] = text[i + k - 1]
    BY <1>3, <1>4, <1>6, <1>7, LineRead
  <2>2. rest = line
    BY <1>3
  <2> QED
    BY <2>1, <2>2
<1>9. text[i] = label /\ text[i + 2] = ds[1] /\ i + 2 <= n
  <2>1. i + 1 - 1 = i /\ i + 3 - 1 = i + 2 /\ i + 2 <= n
    BY <1>2, <1>3, <1>5, <1>6
  <2> QED
    BY <1>5, <1>7, <1>8, <2>1
<1>10. ds[1] \in Numeral
  BY <1>5, ElementOfSeq DEF Numeral
<1> QED
  BY <1>3, <1>6, <1>9, <1>10 DEF Unnumbered, Starts

LEMMA LaidStands ==
    ASSUME NEW a \in Seq(Tokens), Closed(a), NEW label \in Tokens, NEW ds \in Seq(Tokens),
           NEW w \in Seq(Tokens), w = <<>> \/ w[1] = "NL", NEW text, Laid(text, a, label, ds, w)
    PROVE  Stands(<<label>> \o ds, text)
<1> DEFINE n == Len(a)
           e == Len(ds)
           h == <<label>>
           line == h \o ds
           p == n + 1
           nl == "NL"
           rest == SubSeq(text, p, p + Len(line) - 1)
<1>1. /\ text \in Seq(Tokens) /\ p \in Nat /\ e \in Nat /\ Len(w) \in Nat
      /\ Len(text) = p + e + Len(w) /\ text[p] = label
      /\ \A i \in 1 .. n : text[i] = a[i]
      /\ \A i \in 1 .. e : text[p + i] = ds[i]
      /\ \A i \in 1 .. Len(w) : text[p + e + i] = w[i]
  BY DEF Laid
<1>2. n \in Nat /\ p = n + 1 /\ (n # 0 => a[n] = nl)
  <2>1. n \in Nat
    BY LenProperties
  <2>2. n # 0 => a # <<>>
    BY EmptySeq
  <2> QED
    BY <2>1, <2>2 DEF Closed
<1>3. h \in Seq(Tokens) /\ Len(h) = 1 /\ h[1] = label
  BY OnlyLine
<1> HIDE DEF h
<1>4. /\ line \in Seq(Tokens) /\ Len(line) = Len(h) + Len(ds)
      /\ \A k \in 1 .. Len(h) : line[k] = h[k]
      /\ \A k \in 1 .. Len(ds) : line[Len(h) + k] = ds[k]
  <2>1. h \in Seq(Tokens) /\ ds \in Seq(Tokens)
    BY <1>3
  <2> QED
    BY <2>1, Joined
<1>5. (w = <<>> => Len(w) = 0) /\ (w # <<>> => Len(w) # 0 /\ w[1] = nl)
  BY EmptySeq
<1>6. DOMAIN text = 1 .. Len(text)
  BY <1>1, LenProperties
<1> HIDE DEF line, n, e, p, nl
<1>7. Len(line) = 1 + e /\ line[1] = label /\ \A k \in 1 .. e : line[1 + k] = ds[k]
  <2>1. 1 \in 1 .. Len(h)
    BY <1>3
  <2> QED
    BY <1>3, <1>4, <2>1 DEF e
<1>8. p \in 1 .. Len(text) /\ p + Len(line) - 1 = p + e /\ p + e <= Len(text) /\ Len(line) # 0
  BY <1>1, <1>2, <1>7
<1>9. p = 1 \/ text[p - 1] = nl
  <2>1. CASE n = 0
    BY <1>2, <2>1
  <2>2. CASE n # 0
    <3>1. n \in 1 .. n /\ p - 1 = n
      BY <1>2, <2>2
    <3> QED
      BY <1>1, <1>2, <2>2, <3>1
  <2> QED
    BY <2>1, <2>2
<1>10. rest = line
  <2>1. /\ rest \in Seq(Tokens) /\ Len(rest) = Len(line)
        /\ \A k \in 1 .. Len(line) : rest[k] = text[p + k - 1]
    BY <1>1, <1>4, <1>8, LineRead
  <2> HIDE DEF rest
  <2>2. \A k \in 1 .. Len(line) : rest[k] = line[k]
    <3> TAKE k \in 1 .. Len(line)
    <3>1. CASE k = 1
      <4>1. p + k - 1 = p
        BY <1>1, <3>1
      <4> QED
        BY <1>1, <1>7, <2>1, <3>1, <4>1
    <3>2. CASE k # 1
      <4> DEFINE i == k - 1
      <4>1. i \in 1 .. e /\ k = 1 + i /\ p + k - 1 = p + i
        BY <1>1, <1>7, <3>2
      <4> HIDE DEF i
      <4> QED
        BY <1>1, <1>7, <2>1, <4>1
    <3> QED
      BY <3>1, <3>2
  <2>3. Len(rest) = Len(line) /\ \A k \in 1 .. Len(rest) : rest[k] = line[k]
    BY <2>1, <2>2
  <2> QED
    BY <1>4, <2>1, <2>3, SeqEqual
<1>11. p + e = Len(text) \/ text[(p + e) + 1] = nl
  <2>1. CASE w = <<>>
    BY <1>1, <1>5, <2>1
  <2>2. CASE w # <<>>
    <3>1. 1 \in 1 .. Len(w)
      BY <1>1, <1>5, <2>2
    <3> QED
      BY <1>1, <1>5, <2>2, <3>1
  <2> QED
    BY <2>1, <2>2
<1> HIDE DEF rest
<1>12. LET j == p + Len(line) - 1
       IN  /\ p = 1 \/ text[p - 1] = "NL"
           /\ j <= Len(text) /\ SubSeq(text, p, j) = line
           /\ j = Len(text) \/ text[j + 1] = "NL"
  BY <1>8, <1>9, <1>10, <1>11 DEF rest, nl
<1> QED
  BY <1>6, <1>8, <1>12 DEF Stands, line, h
-----------------------------------------------------------------------------
(***************************************************************************)
(* The counts.                                                             *)
(***************************************************************************)

(* A log that ends before the line of a label, or within it, or after it.  *)
Within(s, label, raw, before, k, w) ==
    /\ k \in 0 .. Len(Number(s, label)) /\ w \in Seq(Plain) /\ Lacks(w, label)
    /\ w = <<>> \/ (k = Len(Number(s, label)) /\ w[1] = "NL")
    /\ raw = Labelled(before, label, SubSeq(Number(s, label), 1, k), w)

LEMMA LogWithinLine ==
    ASSUME NEW s \in Sweeps, NEW label \in Labels, NEW before, NEW after,
           Around(s, label, before, after), NEW m \in 1 .. Len(Number(s, label)) + 1
    PROVE  \E k, w : Within(s, label, SubSeq(Text(s), 1, Len(before) + m), before, k, w)
<1> DEFINE line == SummaryLine(s, label)
           number == Number(s, label)
           head == <<label>>
           end == <<"NL">>
           x == head \o number
           n == Len(before) + m
           k == m - 1
<1>1. line = x \o end
  BY SummaryShape
<1>2. /\ before \in Seq(Tokens) /\ after \in Seq(Plain) /\ Text(s) = (before \o line) \o after
  BY DEF Around, Opens
<1>3. /\ number \in Seq(Plain) /\ Len(number) \in Nat /\ line \in Seq(Plain)
      /\ head \in Seq(Plain) /\ Len(line) = Len(number) + 2
  BY SummaryShape
<1>4. after \in Seq(Tokens) /\ line \in Seq(Tokens)
  BY <1>2, <1>3, PlainStripped
<1>5. end \in Seq(Plain)
  BY PlainAre
<1>6. Len(head) = 1
  OBVIOUS
<1> HIDE DEF line, number, head, end
<1>7. /\ Len(before) \in Nat /\ m \in 0 .. Len(line) /\ k \in 0 .. Len(number) /\ k \in Nat /\ m = Len(head) + k
  <2>1. Len(before) \in Nat
    BY <1>2, LenProperties
  <2> QED
    BY <1>3, <1>6, <2>1 DEF number
<1>8. x \in Seq(Plain) /\ Len(x) = Len(head) + Len(number)
  BY <1>3, ConcatProperties
<1>9. m \in 0 .. Len(x)
  BY <1>3, <1>6, <1>7, <1>8
<1> HIDE DEF k, x
<1>10. SubSeq(x, 1, m) = head \o SubSeq(number, 1, k)
  <2>1. SubSeq(x, 1, Len(head) + k) = head \o SubSeq(number, 1, k)
    BY <1>3, <1>7, BeginningOfBoth DEF x
  <2> QED
    BY <1>7, <2>1
<1>11. SubSeq(line, 1, m) = SubSeq(x, 1, m)
  BY <1>1, <1>5, <1>8, <1>9, BeginningOfFirst
<1>12. SubSeq(before \o line, 1, n) = before \o SubSeq(line, 1, m)
  BY <1>2, <1>4, <1>7, BeginningOfBoth
<1>13. SubSeq(Text(s), 1, n) = SubSeq(before \o line, 1, n)
  <2> DEFINE y == before \o line
  <2>1. y \in Seq(Tokens) /\ Len(y) = Len(before) + Len(line)
    BY <1>2, <1>4, ConcatProperties
  <2>2. n \in 0 .. Len(y)
    <3> HIDE DEF y
    <3> QED
      BY <1>3, <1>7, <2>1
  <2> HIDE DEF y, n
  <2>3. SubSeq(y \o after, 1, n) = SubSeq(y, 1, n)
    BY <1>4, <2>1, <2>2, BeginningOfFirst
  <2> QED
    BY <1>2, <2>3 DEF y
<1>14. SubSeq(Text(s), 1, n) = before \o (head \o SubSeq(number, 1, k))
  BY <1>10, <1>11, <1>12, <1>13
<1>15. (head \o SubSeq(number, 1, k)) \o <<>> = head \o SubSeq(number, 1, k)
  <2> DEFINE d == SubSeq(number, 1, k)
             u == head \o d
  <2>1. d \in Seq(Plain)
    BY <1>3, <1>7, Beginning
  <2> HIDE DEF d
  <2>2. u \in Seq(Plain)
    BY <1>3, <2>1, ConcatProperties
  <2> HIDE DEF u
  <2>3. u \o <<>> = u
    BY <2>2, ConcatEmptySeq
  <2> QED
    BY <2>3 DEF u, d
<1>16. <<>> \in Seq(Plain) /\ Lacks(<<>>, label)
  <2> DEFINE u == <<>>
  <2>1. u \in Seq(Plain) /\ Len(u) = 0
    BY EmptySeq
  <2> HIDE DEF u
  <2>2. \A i \in 1 .. Len(u) : FALSE
    BY <2>1
  <2>3. Lacks(u, label)
    BY <2>2 DEF Lacks
  <2> QED
    BY <2>1, <2>3 DEF u
<1> HIDE DEF n
<1>17. SubSeq(Text(s), 1, n) = Labelled(before, label, SubSeq(number, 1, k), <<>>)
  BY <1>14, <1>15 DEF Labelled, head
<1>18. Within(s, label, SubSeq(Text(s), 1, n), before, k, <<>>)
  BY <1>7, <1>16, <1>17 DEF Within, number
<1> QED
  BY <1>18 DEF n

LEMMA LogPastLine ==
    ASSUME NEW s \in Sweeps, NEW label \in Labels, NEW before, NEW after,
           Around(s, label, before, after), NEW t \in 0 .. Len(after)
    PROVE  \E k, w : Within(s, label, SubSeq(Text(s), 1, Len(before \o SummaryLine(s, label)) + t),
                            before, k, w)
<1> DEFINE line == SummaryLine(s, label)
           number == Number(s, label)
           head == <<label>>
           end == <<"NL">>
           x == head \o number
           y == before \o line
           z == SubSeq(after, 1, t)
           w == end \o z
           raw == SubSeq(Text(s), 1, Len(y) + t)
<1>1. line = x \o end
  BY SummaryShape
<1>2. /\ before \in Seq(Tokens) /\ after \in Seq(Plain) /\ Text(s) = y \o after /\ Lacks(after, label)
  BY DEF Around, Opens
<1>3. /\ number \in Seq(Plain) /\ Len(number) \in Nat /\ line \in Seq(Plain) /\ head \in Seq(Plain)
  BY SummaryShape
<1>4. after \in Seq(Tokens) /\ line \in Seq(Tokens)
  BY <1>2, <1>3, PlainStripped
<1>5. end \in Seq(Plain) /\ Len(end) = 1 /\ end[1] = "NL" /\ Lacks(end, label)
  BY PlainAre DEF Lacks
<1> HIDE DEF line, number, head, end
<1>6. z \in Seq(Plain) /\ Lacks(z, label)
  <2>1. /\ z \in Seq(Plain) /\ Len(z) = t
        /\ \A i \in 1 .. t : z[i] = after[i] /\ i \in 1 .. Len(after)
    BY <1>2, Beginning
  <2> HIDE DEF z
  <2> QED
    BY <1>2, <2>1 DEF Lacks
<1>7. raw = y \o z
  <2>1. y \in Seq(Tokens)
    BY <1>2, <1>4, ConcatProperties
  <2> HIDE DEF y
  <2>2. SubSeq(y \o after, 1, Len(y) + t) = y \o SubSeq(after, 1, t)
    BY <1>4, <2>1, BeginningOfBoth
  <2> QED
    BY <1>2, <2>2
<1> HIDE DEF z, raw
<1>8. x \in Seq(Plain)
  BY <1>3, ConcatProperties
<1>9. w \in Seq(Plain) /\ Lacks(w, label)
  BY <1>5, <1>6, ConcatProperties, LacksJoin
<1>10. w[1] = "NL"
  <2>1. 1 \in 1 .. Len(end)
    BY <1>5
  <2>2. w[1] = end[1]
    BY <1>5, <1>6, <2>1, Joined
  <2> QED
    BY <1>5, <2>2
<1>11. line \o z = x \o w
  <2> HIDE DEF x
  <2>1. x \in Seq(Plain) /\ end \in Seq(Plain) /\ z \in Seq(Plain)
    BY <1>5, <1>6, <1>8
  <2>2. (x \o end) \o z = x \o (end \o z)
    BY <2>1, ConcatAssociative
  <2> QED
    BY <1>1, <2>2
<1>12. y \o z = before \o (line \o z)
  <2>1. z \in Seq(Tokens)
    BY <1>6, PlainStripped
  <2>2. before \in Seq(Tokens) /\ line \in Seq(Tokens)
    BY <1>2, <1>4
  <2> HIDE DEF y
  <2>3. (before \o line) \o z = before \o (line \o z)
    BY <2>1, <2>2, ConcatAssociative
  <2> QED
    BY <2>3 DEF y
<1>13. SubSeq(number, 1, Len(number)) = number
  BY <1>3, SubSeqFull
<1> HIDE DEF y, w
<1>14. raw = Labelled(before, label, SubSeq(number, 1, Len(number)), w)
  BY <1>7, <1>11, <1>12, <1>13 DEF Labelled, x, head
<1>15. Within(s, label, raw, before, Len(number), w)
  BY <1>3, <1>9, <1>10, <1>14 DEF Within, number
<1> QED
  BY <1>15 DEF raw, y, line

LEMMA LogAround ==
    ASSUME NEW s \in Sweeps, NEW label \in Labels, NEW before, NEW after,
           Around(s, label, before, after), NEW n \in 0 .. Len(Text(s)), ~ (n <= Len(before))
    PROVE  \E k, w : Within(s, label, SubSeq(Text(s), 1, n), before, k, w)
<1> DEFINE line == SummaryLine(s, label)
           y == before \o line
           d == Len(Number(s, label))
<1>1. /\ before \in Seq(Tokens) /\ after \in Seq(Plain) /\ Text(s) = y \o after
  BY DEF Around, Opens
<1>2. line \in Seq(Plain) /\ Len(line) = d + 2 /\ d \in Nat
  BY SummaryShape
<1>3. after \in Seq(Tokens) /\ line \in Seq(Tokens)
  BY <1>1, <1>2, PlainStripped
<1> HIDE DEF line
<1>4. y \in Seq(Tokens) /\ Len(y) = Len(before) + Len(line) /\ Len(before) \in Nat
  BY <1>1, <1>3, ConcatProperties, LenProperties
<1> HIDE DEF y
<1>5. Len(Text(s)) = Len(y) + Len(after) /\ Len(after) \in Nat
  BY <1>1, <1>3, <1>4, ConcatProperties, LenProperties
<1>6. CASE n <= Len(before) + d + 1
  <2> DEFINE m == n - Len(before)
  <2>1. m \in 1 .. d + 1 /\ n = Len(before) + m
    BY <1>2, <1>4, <1>6
  <2> HIDE DEF m
  <2> QED
    BY <2>1, LogWithinLine
<1>7. CASE ~ (n <= Len(before) + d + 1)
  <2> DEFINE t == n - Len(y)
  <2>1. t \in 0 .. Len(after) /\ n = Len(y) + t
    <3> DEFINE a == Len(before)
               b == Len(y)
               c == Len(after)
    <3>1. d \in Nat /\ a \in Nat /\ c \in Nat /\ b = a + (d + 2) /\ n \in 0 .. b + c /\ ~ (n <= a + d + 1)
      BY <1>2, <1>4, <1>5, <1>7
    <3> HIDE DEF a, b, c, d
    <3>2. n - b \in 0 .. c /\ n = b + (n - b)
      BY <3>1
    <3> QED
      BY <3>2 DEF b, c
  <2> HIDE DEF t
  <2>2. \E k, w : Within(s, label, SubSeq(Text(s), 1, Len(before \o SummaryLine(s, label)) + t), before, k, w)
    BY <2>1, LogPastLine
  <2> QED
    BY <2>1, <2>2 DEF y, line
<1> QED
  BY <1>6, <1>7

(* What CountsAreDeclared says of a count.                                 *)
Read(text, label, digits) ==
    {k \in 1 .. Len(digits) : Stands(<<label, Colon>> \o SubSeq(digits, 1, k), text)}

Counted(text, label, digits, count) ==
    \/ Read(text, label, digits) = {} /\ count = -1
    \/ \E k \in Read(text, label, digits) : count = Value(SubSeq(digits, 1, k))

LEMMA NoneRead ==
    ASSUME NEW raw \in Seq(Tokens), NEW label \in Labels, NEW digits \in Seq(ToSet(Digits)),
           Unnumbered(raw, label)
    PROVE  Read(raw, label, digits) = {}
<1> SUFFICES ASSUME NEW k \in 1 .. Len(digits) PROVE ~ Stands(<<label, Colon>> \o SubSeq(digits, 1, k), raw)
  BY DEF Read
<1> DEFINE ds == SubSeq(digits, 1, k)
           D == ToSet(Digits)
<1>1. k \in 0 .. Len(digits) /\ k # 0
  BY LenProperties
<1>2. ds \in Seq(D) /\ Len(ds) = k
  <2> HIDE DEF D
  <2>1. digits \in Seq(D)
    BY DEF D
  <2> QED
    BY <1>1, <2>1, Beginning
<1> HIDE DEF ds
<1>3. ds # <<>>
  BY <1>1, <1>2, EmptySeq
<1> HIDE DEF D
<1>4. ds \in Seq(ToSet(Digits))
  BY <1>2 DEF D
<1>5. ~ Stands(<<label, Colon>> \o ds, raw)
  BY <1>3, <1>4, NoneStands
<1> QED
  BY <1>5 DEF ds

LEMMA CountBefore ==
    ASSUME NEW before, NEW label \in Labels, Opens(before, label), NEW n \in 0 .. Len(before),
           NEW digits \in Seq(ToSet(Digits))
    PROVE  Counted(SubSeq(before, 1, n), label, digits, extractFirstInt(Stripped(SubSeq(before, 1, n)), label))
<1> DEFINE raw == SubSeq(before, 1, n)
           m == Len(before)
           z == SubSeq(before, n + 1, m)
<1>1. before \in Seq(Tokens) /\ Unlabeled(before, label) /\ Unlabeled(Stripped(before), label)
  BY DEF Opens
<1>2. m \in Nat /\ n \in 0 .. m
  BY <1>1, LenProperties
<1>3. before = raw \o z
  <2>1. 1 \in 1 .. m + 1 /\ n \in 1 - 1 .. m /\ m \in n .. m
    BY <1>2
  <2>2. SubSeq(before, 1, n) \o SubSeq(before, n + 1, m) = SubSeq(before, 1, m)
    BY <1>1, <2>1, ConcatAdjacentSubSeq
  <2>3. SubSeq(before, 1, m) = before
    BY <1>1, SubSeqFull
  <2> QED
    BY <2>2, <2>3
<1>4. raw \in Seq(Tokens)
  BY <1>1, Beginning
<1>5. z \in Seq(Tokens)
  <2>1. \A j \in n + 1 .. m : j \in 1 .. m
    BY <1>2
  <2>2. \A j \in n + 1 .. m : before[j] \in Tokens
    BY <1>1, <2>1, ElementOfSeq
  <2>3. n + 1 \in Int /\ m \in Int
    BY <1>2
  <2> HIDE DEF m
  <2> QED
    BY <2>2, <2>3, SubSeqProperties
<1> HIDE DEF raw, z, m
<1>6. Unnumbered(raw, label)
  BY <1>1, <1>3, <1>4, <1>5, UnlabeledFirst
<1>7. Stripped(raw) \in Seq(Tokens) /\ Stripped(z) \in Seq(Tokens) /\ Stripped(before) = Stripped(raw) \o Stripped(z)
  BY <1>3, <1>4, <1>5, StrippedTyped
<1>8. Unnumbered(Stripped(raw), label)
  BY <1>1, <1>7, UnlabeledFirst
<1>9. extractFirstInt(Stripped(raw), label) = -1
  BY <1>7, <1>8, NoNumber
<1>10. Read(raw, label, digits) = {}
  BY <1>4, <1>6, NoneRead
<1> QED
  BY <1>9, <1>10 DEF Counted, raw

LEMMA CountWithin ==
    ASSUME NEW s \in Sweeps, NEW label \in Labels, NEW before, Opens(before, label),
           NEW raw, NEW k, NEW w, Within(s, label, raw, before, k, w)
    PROVE  Counted(raw, label, s.counts[label], extractFirstInt(Stripped(raw), label))
<1> DEFINE digits == s.counts[label]
           number == Number(s, label)
           part == SubSeq(number, 1, k)
           a == Stripped(before)
           head == <<label>>
           colon == Colon
           D == ToSet(Digits)
           C == Numbered
           tail == (head \o part) \o w
           count == extractFirstInt(Stripped(raw), label)
<1>1. /\ before \in Seq(Tokens) /\ a \in Seq(Tokens)
      /\ Unlabeled(before, label) /\ Unlabeled(a, label) /\ Closed(before) /\ Closed(a)
  BY DEF Opens
<1>2. /\ k \in 0 .. Len(number) /\ w \in Seq(Plain) /\ Lacks(w, label)
      /\ w = <<>> \/ (k = Len(number) /\ w[1] = "NL")
      /\ raw = before \o tail /\ raw = Labelled(before, label, part, w)
  BY DEF Within, Labelled
<1>3. /\ Len(digits) \in Nat /\ Len(digits) # 0 /\ Len(number) = Len(digits) + 1
      /\ number \in Seq(Plain) /\ head \in Seq(Plain)
  <2>1. digits # <<>> /\ Len(digits) \in Nat
    BY SummaryShape
  <2>2. digits \in Seq(Plain)
    BY SummaryShape
  <2>3. Len(digits) # 0
    BY <2>1, <2>2, EmptySeq
  <2> QED
    BY <2>1, <2>3, SummaryShape
<1>4. digits \in Seq(D)
  BY SweepTyped
<1>5. /\ number = <<colon>> \o digits /\ number \in Seq(C)
      /\ colon \in C /\ colon \in Plain /\ colon \in Tokens /\ label \in Tokens
  <2>1. digits \in Seq(C)
    BY <1>4, PlainAre, SeqMonotonic
  <2>2. colon \in C /\ colon \in Plain /\ colon \in Tokens /\ label \in Tokens
    BY PlainAre, TokensAre
  <2>3. number = <<colon>> \o digits
    BY DEF Number
  <2> HIDE DEF colon, C, number, digits
  <2>4. <<colon>> \o digits \in Seq(C)
    BY <2>1, <2>2, LabelFirst
  <2> QED
    BY <2>2, <2>3, <2>4
<1> HIDE DEF digits, number, colon
<1>6. part \in Seq(C) /\ part \in Seq(Plain) /\ Len(part) = k /\ k \in Nat
  <2>1. part \in Seq(Plain) /\ Len(part) = k
    BY <1>2, <1>3, Beginning
  <2>2. part \in Seq(C)
    <3> HIDE DEF C
    <3> QED
      BY <1>2, <1>5, Beginning
  <2>3. k \in Nat
    BY <1>2
  <2> QED
    BY <2>1, <2>2, <2>3
<1> HIDE DEF part
<1>7. tail \in Seq(Plain)
  <2> DEFINE x == head \o part
  <2>1. x \in Seq(Plain)
    BY <1>3, <1>6, ConcatProperties
  <2> HIDE DEF x
  <2>2. x \o w \in Seq(Plain)
    BY <1>2, <2>1, ConcatProperties
  <2> QED
    BY <2>2 DEF x
<1>8. w \in Seq(Tokens) /\ part \in Seq(Tokens)
  BY <1>2, <1>6, PlainStripped
<1>9. Stripped(raw) = Labelled(a, label, part, w)
  <2> HIDE DEF tail
  <2>1. tail \in Seq(Tokens) /\ Stripped(tail) = tail
    BY <1>7, PlainStripped
  <2>2. Stripped(before \o tail) = Stripped(before) \o Stripped(tail)
    BY <1>1, <2>1, StrippedTyped
  <2> QED
    BY <1>2, <2>1, <2>2 DEF Labelled, tail
<1> HIDE DEF a, head, tail
<1>10. Laid(raw, before, label, part, w) /\ Laid(Stripped(raw), a, label, part, w)
  <2>1. Laid(Labelled(before, label, part, w), before, label, part, w)
    BY <1>1, <1>5, <1>8, LabelledShape
  <2>2. Laid(Labelled(a, label, part, w), a, label, part, w)
    BY <1>1, <1>5, <1>8, LabelledShape
  <2> QED
    BY <1>2, <1>9, <2>1, <2>2
<1>11. raw \in Seq(Tokens) /\ Stripped(raw) \in Seq(Tokens)
  BY <1>10 DEF Laid
<1>12. CASE k <= 1
  <2>1. w = <<>> /\ Len(part) <= 1
    BY <1>2, <1>3, <1>6, <1>12
  <2>2. Unnumbered(raw, label)
    <3>1. Laid(raw, before, label, part, <<>>)
      BY <1>10, <2>1
    <3> QED
      BY <1>1, <1>6, <2>1, <3>1, LabelAlone DEF C
  <2>3. Unnumbered(Stripped(raw), label)
    <3>1. Laid(Stripped(raw), a, label, part, <<>>)
      BY <1>10, <2>1
    <3> QED
      BY <1>1, <1>6, <2>1, <3>1, LabelAlone DEF C
  <2>4. Read(raw, label, digits) = {}
    BY <1>4, <1>11, <2>2, NoneRead DEF D
  <2>5. count = -1
    BY <1>11, <2>3, NoNumber
  <2> QED
    BY <2>4, <2>5 DEF Counted, digits
<1>13. CASE ~ (k <= 1)
  <2> DEFINE e == k - 1
             ds == SubSeq(digits, 1, e)
  <2>1. e \in 1 .. Len(digits) /\ e \in 0 .. Len(digits) /\ k = 1 + e /\ e # 0
    BY <1>2, <1>3, <1>6, <1>13
  <2> HIDE DEF e
  <2>2. ds \in Seq(D) /\ Len(ds) = e
    <3> HIDE DEF D
    <3> QED
      BY <1>4, <2>1, Beginning
  <2>3. part = <<colon>> \o ds
    <3> DEFINE h == <<colon>>
    <3>1. h \in Seq(C) /\ Len(h) = 1
      BY <1>5, OnlyLine
    <3>2. digits \in Seq(C)
      BY <1>4, PlainAre, SeqMonotonic
    <3> HIDE DEF h, C
    <3>3. SubSeq(h \o digits, 1, Len(h) + e) = h \o SubSeq(digits, 1, e)
      BY <2>1, <3>1, <3>2, BeginningOfBoth
    <3> QED
      BY <1>5, <2>1, <3>1, <3>3 DEF part, h
  <2> HIDE DEF ds
  <2>4. ds # <<>> /\ ds \in Seq(Tokens)
    <3>1. ds # <<>>
      BY <2>1, <2>2, EmptySeq
    <3>2. D \subseteq Tokens
      BY TokensAre
    <3> QED
      BY <2>2, <3>1, <3>2, SeqMonotonic
  <2>5. w = <<>> \/ w[1] = "NL"
    BY <1>2
  <2>6. count = Value(ds)
    <3>1. extractFirstInt(Labelled(a, label, <<Colon>> \o ds, w), label) = Value(ds)
      BY <1>1, <1>2, <1>8, <2>2, <2>4, <2>5, NumberFound DEF D
    <3> QED
      BY <1>9, <2>3, <3>1 DEF colon
  <2>7. Stands(<<label>> \o part, raw)
    BY <1>1, <1>5, <1>8, <1>10, <2>5, LaidStands
  <2>8. <<label, colon>> \o ds = <<label>> \o (<<colon>> \o ds)
    <3>1. label \in Tokens /\ colon \in Tokens /\ ds \in Seq(Tokens)
      BY <1>5, <2>4
    <3> QED
      BY <3>1, LabelFirst
  <2>9. Stands(<<label, Colon>> \o ds, raw)
    BY <2>3, <2>7, <2>8 DEF colon
  <2>10. e \in Read(raw, label, digits)
    BY <2>1, <2>9 DEF Read, ds
  <2> QED
    BY <2>6, <2>10 DEF Counted, ds, digits
<1> QED
  BY <1>12, <1>13

LEMMA CountsHonoured ==
    ASSUME NEW s \in Sweeps, NEW n \in 0 .. Len(Text(s)), NEW label \in Labels, Modest(s.gates, label)
    PROVE  Counted(SubSeq(Text(s), 1, n), label, s.counts[label],
                   TriageLog(SubSeq(Text(s), 1, n)).counts[label])
<1> DEFINE raw == SubSeq(Text(s), 1, n)
           count == extractFirstInt(Stripped(raw), label)
<1>1. TriageLog(raw).counts[label] = count
  BY DEF TriageLog
<1>2. PICK before, after : Around(s, label, before, after)
  BY TextAround
<1>3. Opens(before, label)
  BY <1>2 DEF Around
<1>4. CASE n <= Len(before)
  <2> DEFINE line == SummaryLine(s, label)
             digits == s.counts[label]
  <2>1. line \in Seq(Tokens) /\ digits \in Seq(ToSet(Digits))
    <3>1. line \in Seq(Plain) /\ digits \in Seq(ToSet(Digits))
      BY SweepTyped
    <3> HIDE DEF line
    <3> QED
      BY <3>1, PlainStripped
  <2>2. n \in 0 .. Len(before)
    BY <1>4
  <2>3. raw = SubSeq(before, 1, n)
    <3> DEFINE rest == line \o after
    <3>1. before \in Seq(Tokens) /\ after \in Seq(Plain) /\ Text(s) = (before \o line) \o after
      BY <1>2 DEF Around, Opens
    <3>2. after \in Seq(Tokens)
      BY <3>1, PlainStripped
    <3> HIDE DEF line
    <3>3. rest \in Seq(Tokens) /\ Text(s) = before \o rest
      <4>1. before \in Seq(Tokens) /\ line \in Seq(Tokens) /\ after \in Seq(Tokens)
        BY <2>1, <3>1, <3>2
      <4>2. line \o after \in Seq(Tokens)
        BY <4>1, ConcatProperties
      <4>3. (before \o line) \o after = before \o (line \o after)
        BY <4>1, ConcatAssociative
      <4> QED
        BY <3>1, <4>2, <4>3
    <3> HIDE DEF rest
    <3>4. SubSeq(before \o rest, 1, n) = SubSeq(before, 1, n)
      BY <2>2, <3>1, <3>3, BeginningOfFirst
    <3> QED
      BY <3>3, <3>4
  <2> HIDE DEF raw, digits
  <2>4. Counted(SubSeq(before, 1, n), label, digits, extractFirstInt(Stripped(SubSeq(before, 1, n)), label))
    BY <1>3, <2>1, <2>2, CountBefore
  <2> QED
    BY <1>1, <2>3, <2>4 DEF raw, digits
<1>5. CASE ~ (n <= Len(before))
  <2>1. PICK k, w : Within(s, label, raw, before, k, w)
    BY <1>2, <1>5, LogAround
  <2> HIDE DEF raw
  <2>2. Counted(raw, label, s.counts[label], count)
    BY <1>3, <2>1, CountWithin
  <2> QED
    BY <1>1, <2>2 DEF raw
<1> QED
  BY <1>4, <1>5

LEMMA MarkerHonoured ==
    ASSUME NEW s \in Sweeps, NEW n \in 0 .. Len(Text(s))
    PROVE  LET raw == SubSeq(Text(s), 1, n)
           IN  /\ TriageLog(raw).passed = (Marker \in ToSet(raw))
               /\ TriageLog(raw).passed => s.passed \/ \E j \in DOMAIN s.gates : Quotes(s.gates[j])
<1> DEFINE raw == SubSeq(Text(s), 1, n)
           S == Tokens \ {"SGR"}
<1>1. TriageLog(raw).passed = (Marker \in ToSet(Kept(raw, S)))
  BY DEF TriageLog, Stripped
<1>2. raw \in Seq(Tokens) /\ Len(raw) = n
  <2>1. Text(s) \in Seq(Tokens)
    <3>1. Rest(s) \in Seq(Plain) /\ Text(s) = GateLines(s.gates) \o Rest(s)
      BY TextShape
    <3>2. Rest(s) \in Seq(Tokens)
      BY <3>1, PlainStripped
    <3>3. \E label : label \in Labels
      BY DEF Labels
    <3>4. GateLines(s.gates) \in Seq(Tokens)
      BY <3>3, SweepTyped
    <3> QED
      BY <3>1, <3>2, <3>4, ConcatProperties
  <2> QED
    BY <2>1, Beginning
<1>3. Kept(raw, S) \in Seq(Tokens)
  BY <1>2, KeptGrows
<1>4. \A x \in Seq(Tokens) : Marker \in ToSet(x) <=> \E i \in 1 .. Len(x) : x[i] = Marker
  <2> TAKE x \in Seq(Tokens)
  <2>1. DOMAIN x = 1 .. Len(x)
    BY LenProperties
  <2> QED
    BY <2>1 DEF ToSet
<1>5. (\E i \in 1 .. Len(raw) : raw[i] = Marker)
      => s.passed \/ \E j \in DOMAIN s.gates : Quotes(s.gates[j])
  BY <1>2, MarkerMeansPassed
<1>6. Marker \in S
  BY PlainAre
<1> HIDE DEF raw, S
<1>7. (\E i \in 1 .. Len(Kept(raw, S)) : Kept(raw, S)[i] = Marker)
      <=> Marker \in S /\ \E i \in 1 .. Len(raw) : raw[i] = Marker
  BY <1>2, KeptMembers
<1>8. Marker \in ToSet(Kept(raw, S)) <=> Marker \in ToSet(raw)
  BY <1>2, <1>3, <1>4, <1>6, <1>7
<1>9. Marker \in ToSet(raw) => s.passed \/ \E j \in DOMAIN s.gates : Quotes(s.gates[j])
  BY <1>2, <1>4, <1>5
<1>10. TriageLog(raw).passed = (Marker \in ToSet(raw))
  BY <1>1, <1>8
<1> QED
  BY <1>9, <1>10 DEF raw
-----------------------------------------------------------------------------
(***************************************************************************)
(* What a triage has answered, for a log that goes on growing: what it     *)
(* made of the beginning of the text that it has read.                     *)
(***************************************************************************)
Tells(k) == Answered(k) /\ k.response.payload.by = Triage

Faithful ==
    /\ written \in 0 .. Len(Text(sweep))
    /\ read \in [Callers -> Nat]
    /\ \A c \in Callers : Triaged(c) => /\ read[c] \in 0 .. Len(Text(sweep))
                                        /\ Result(c) = TriageLog(LogOf(c))

LEMMA TextTyped == ASSUME NEW s \in Sweeps PROVE Text(s) \in Seq(Tokens) /\ Len(Text(s)) \in Nat
<1>1. Rest(s) \in Seq(Plain) /\ Text(s) = GateLines(s.gates) \o Rest(s)
  BY TextShape
<1>2. Rest(s) \in Seq(Tokens)
  BY <1>1, PlainStripped
<1>3. GateLines(s.gates) \in Seq(Tokens)
  <2>1. s.gates \in Seq(Gates)
    BY TriageAssumption
  <2> QED
    BY <2>1, GateLinesGrow
<1>4. Text(s) \in Seq(Tokens)
  BY <1>1, <1>2, <1>3, ConcatProperties
<1> QED
  BY <1>4, LenProperties

LEMMA InitFaithful == TriageInit => Faithful
<1> SUFFICES ASSUME TriageInit PROVE Faithful
  OBVIOUS
<1>1. sweep \in Sweeps /\ written = 0 /\ read = [c \in Callers |-> 0] /\ calls = [c \in Callers |-> NoCall]
  BY DEF TriageInit, LogInit, DispatchInit
<1>2. Len(Text(sweep)) \in Nat
  BY <1>1, TextTyped
<1>3. \A c \in Callers : ~ Triaged(c)
  BY <1>1 DEF Triaged, Answered, NoCall
<1> QED
  BY <1>1, <1>2, <1>3 DEF Faithful

(* A step in which no triage answers.                                      *)
LEMMA OthersFaithful ==
    ASSUME Faithful, sweep' = sweep, read' = read, written' \in 0 .. Len(Text(sweep)),
           \A d \in Callers : calls'[d].response = calls[d].response \/ ~ Tells(calls'[d])
    PROVE  Faithful'
<1>1. ASSUME NEW d \in Callers, Triaged(d)'
      PROVE  /\ read[d] \in 0 .. Len(Text(sweep))
             /\ calls'[d].response.payload.result = TriageLog(SubSeq(Text(sweep), 1, read[d]))
  <2>1. Tells(calls'[d])
    BY <1>1 DEF Triaged, Answered, Tells
  <2>2. calls'[d].response = calls[d].response
    BY <2>1
  <2>3. Triaged(d)
    BY <2>1, <2>2 DEF Tells, Triaged, Answered
  <2> QED
    BY <2>2, <2>3 DEF Faithful, Result, LogOf
<1> QED
  BY <1>1 DEF Faithful, Result, LogOf

(* A step of the call of c alone that leaves its response alone.           *)
LEMMA QuietFaithful ==
    ASSUME Honest, Faithful, NEW c \in Callers, NEW k, calls' = [calls EXCEPT ![c] = k],
           k.response = calls[c].response \/ ~ Tells(k), UNCHANGED <<logVars, read>>
    PROVE  Faithful'
<1>1. calls \in [Callers -> CallRecords]
  BY DEF Honest, Typed
<1>2. \A d \in Callers : calls'[d] = IF d = c THEN k ELSE calls[d]
  BY <1>1
<1>3. \A d \in Callers : calls'[d].response = calls[d].response \/ ~ Tells(calls'[d])
  BY <1>2
<1>4. sweep' = sweep /\ read' = read /\ written' \in 0 .. Len(Text(sweep))
  BY DEF Faithful, logVars
<1> QED
  BY <1>3, <1>4, OthersFaithful

LEMMA FailsFaithful ==
    ASSUME Honest, Faithful, NEW c \in Callers, NEW by, NEW error, Fails(c, by, error),
           UNCHANGED <<logVars, read>>
    PROVE  Faithful'
<1> DEFINE old == calls[c]
<1>1. calls \in [Callers -> CallRecords] /\ old \in CallRecords
  BY DEF Honest, Typed
<1>2. PICK over \in BOOLEAN : over <=> old.n = Len(old.order)
  BY Zenon
<1>3. PICK at : at = IF over THEN "done" ELSE "lookup"
  OBVIOUS
<1>4. PICK n : n = IF over THEN old.n ELSE old.n + 1
  OBVIOUS
<1>5. PICK causes : causes = Append(old.causes, [tier |-> TierOf(c), by |-> by, error |-> error])
  OBVIOUS
<1>6. PICK err : err = IF ~ over THEN "none" ELSE IF old.chain THEN "ErrChainExhausted" ELSE error
  OBVIOUS
<1>7. PICK k : k = [old EXCEPT !.at = at, !.n = n, !.exec = Nobody, !.causes = causes, !.err = err]
  OBVIOUS
<1>8. calls' = [calls EXCEPT ![c] = k]
  BY <1>1, <1>2, <1>3, <1>4, <1>5, <1>6, <1>7 DEF Fails
<1>9. k.response = old.response
  BY <1>1, <1>7 DEF CallRecords
<1> QED
  BY <1>8, <1>9, QuietFaithful

LEMMA WalkFaithful ==
    ASSUME Honest, Faithful, NEW c \in Callers, CallStep(c), UNCHANGED <<logVars, read>>
    PROVE  Faithful'
<1> DEFINE old == calls[c]
<1>1. calls \in [Callers -> CallRecords] /\ old \in CallRecords
  BY DEF Honest, Typed
<1>2. \A k : k.response = NoResponse => ~ Tells(k)
  BY DEF Tells, Answered
<1>3. CASE Dispatch(c) \/ DispatchChain(c)
  <2>1. PICK chain, order, payload : Calls(c, chain, order, payload)
    BY <1>3 DEF Dispatch, DispatchChain
  <2>2. PICK at : at = IF order = <<>> THEN "done" ELSE "lookup"
    OBVIOUS
  <2>3. PICK err : err = IF order = <<>> THEN "ErrEmptyChain" ELSE "none"
    OBVIOUS
  <2>4. PICK k : k = [NoCall EXCEPT !.at = at, !.err = err, !.chain = chain, !.order = order,
                                    !.n = 1, !.payload = payload, !.before = executors]
    OBVIOUS
  <2>5. calls' = [calls EXCEPT ![c] = k]
    BY <2>1, <2>2, <2>3, <2>4 DEF Calls
  <2>6. k.response = NoResponse
    BY <2>4 DEF NoCall
  <2> QED
    BY <1>2, <2>5, <2>6, QuietFaithful
<1>4. CASE Cancel(c)
  <2>1. PICK k : k = [old EXCEPT !.cancelled = TRUE]
    OBVIOUS
  <2>2. calls' = [calls EXCEPT ![c] = k]
    BY <1>1, <1>4, <2>1 DEF Cancel
  <2>3. k.response = old.response
    BY <1>1, <2>1 DEF CallRecords
  <2> QED
    BY <2>2, <2>3, QuietFaithful
<1>5. CASE LookupMissing(c)
  BY <1>5, FailsFaithful DEF LookupMissing
<1>6. CASE LookupFound(c)
  <2>1. PICK k : k = [old EXCEPT !.at = "running", !.exec = executors[TierOf(c)]]
    OBVIOUS
  <2>2. calls' = [calls EXCEPT ![c] = k]
    BY <1>1, <1>6, <2>1 DEF LookupFound
  <2>3. k.response = old.response
    BY <1>1, <2>1 DEF CallRecords
  <2> QED
    BY <2>2, <2>3, QuietFaithful
<1>7. CASE Return(c)
  <2>1. calls' = [calls EXCEPT ![c] = NoCall] /\ NoCall.response = NoResponse
    BY <1>7 DEF Return, NoCall
  <2> QED
    BY <1>2, <2>1, QuietFaithful
<1> QED
  BY <1>3, <1>4, <1>5, <1>6, <1>7 DEF CallStep

(* The call of c with the payload of its executor.                         *)
LEMMA Succeeding ==
    ASSUME Honest, NEW c \in Callers, NEW payload, Succeeds(c, payload)
    PROVE  \E k : /\ calls' = [calls EXCEPT ![c] = k]
                  /\ k.response = [tier |-> TierOf(c), payload |-> payload]
<1>1. calls \in [Callers -> CallRecords] /\ calls[c] \in CallRecords
  BY DEF Honest, Typed
<1>2. PICK response : response = [tier |-> TierOf(c), payload |-> payload]
  OBVIOUS
<1>3. PICK k : k = [calls[c] EXCEPT !.at = "done", !.exec = Nobody, !.response = response]
  OBVIOUS
<1>4. calls' = [calls EXCEPT ![c] = k]
  BY <1>1, <1>2, <1>3 DEF Succeeds
<1>5. k.response = response
  BY <1>1, <1>3 DEF CallRecords
<1> QED
  BY <1>2, <1>4, <1>5

LEMMA AnswerFaithful ==
    ASSUME Honest, Faithful, NEW c \in Callers, logTriageExecute(c)
    PROVE  Faithful'
<1> DEFINE n == Len(Text(sweep))
           report == TriageLog(log)
<1>1. /\ Succeeds(c, [by |-> Triage, served |-> TierOf(c), result |-> report])
      /\ read' = [read EXCEPT ![c] = written] /\ sweep' = sweep /\ written' = written
  BY DEF logTriageExecute, logVars
<1>2. /\ written \in 0 .. n /\ read \in [Callers -> Nat] /\ written \in Nat
      /\ calls \in [Callers -> CallRecords] /\ n \in Nat
  BY TextTyped DEF Faithful, Honest, Typed
<1> HIDE DEF report
<1>3. PICK k : /\ calls' = [calls EXCEPT ![c] = k]
               /\ k.response = [tier |-> TierOf(c),
                                payload |-> [by |-> Triage, served |-> TierOf(c), result |-> report]]
  BY <1>1, Succeeding
<1>4. k.response.payload.result = report
  BY <1>3
<1>5. read' \in [Callers -> Nat] /\ read'[c] = written /\ \A d \in Callers : d # c => read'[d] = read[d]
  BY <1>1, <1>2
<1>6. calls'[c] = k /\ \A d \in Callers : d # c => calls'[d] = calls[d]
  BY <1>2, <1>3
<1>7. ASSUME NEW d \in Callers, Tells(calls'[d])
      PROVE  /\ read'[d] \in 0 .. n
             /\ calls'[d].response.payload.result = TriageLog(SubSeq(Text(sweep), 1, read'[d]))
  <2>1. CASE d = c
    <3>1. report = TriageLog(SubSeq(Text(sweep), 1, written))
      BY DEF report, log
    <3> QED
      BY <1>2, <1>4, <1>5, <1>6, <2>1, <3>1
  <2>2. CASE d # c
    <3>1. Triaged(d)
      BY <1>6, <1>7, <2>2 DEF Tells, Triaged
    <3> QED
      BY <1>5, <1>6, <2>2, <3>1 DEF Faithful, Result, LogOf
  <2> QED
    BY <2>1, <2>2
<1> QED
  BY <1>1, <1>2, <1>5, <1>7 DEF Faithful, Triaged, Answered, Tells, Result, LogOf

LEMMA NextFaithful == Honest /\ Faithful /\ [TriageNext]_triageVars => Faithful'
<1> SUFFICES ASSUME Honest, Faithful, [TriageNext]_triageVars PROVE Faithful'
  OBVIOUS
<1>1. CASE UNCHANGED <<calls, sweep, read>> /\ written' \in 0 .. Len(Text(sweep))
  BY <1>1, OthersFaithful
<1>2. written \in 0 .. Len(Text(sweep)) /\ Len(Text(sweep)) \in Nat
  BY TextTyped DEF Faithful, Honest, Typed
<1>3. CASE UNCHANGED triageVars
  BY <1>1, <1>2, <1>3 DEF triageVars, dispatchVars, logVars
<1>4. ASSUME NEW t \in Tiers, NEW e \in Executors, Register(t, e), UNCHANGED <<logVars, read>>
      PROVE  Faithful'
  BY <1>1, <1>2, <1>4 DEF Register, logVars
<1>5. ASSUME NEW c \in Callers, CallStep(c), UNCHANGED <<logVars, read>> PROVE Faithful'
  BY <1>5, WalkFaithful
<1>6. ASSUME NEW c \in Callers, NEW e \in Executors \ {Triage}, ExecuteOk(c, e), UNCHANGED <<logVars, read>>
      PROVE  Faithful'
  <2>1. PICK payload : payload = [by |-> e, served |-> TierOf(c)]
    OBVIOUS
  <2>2. Succeeds(c, payload)
    BY <1>6, <2>1 DEF ExecuteOk
  <2>3. PICK k : calls' = [calls EXCEPT ![c] = k] /\ k.response = [tier |-> TierOf(c), payload |-> payload]
    BY <2>2, Succeeding
  <2>4. k.response.payload.by = e
    BY <2>1, <2>3
  <2>5. ~ Tells(k)
    BY <2>4 DEF Tells
  <2> QED
    BY <1>6, <2>3, <2>5, QuietFaithful
<1>7. ASSUME NEW c \in Callers, NEW e \in Executors \ {Triage}, ExecuteFails(c, e),
             UNCHANGED <<logVars, read>>
      PROVE  Faithful'
  BY <1>7, FailsFaithful DEF ExecuteFails
<1>8. ASSUME NEW c \in Callers, TriageRefuses(c) \/ ReadFails(c) PROVE Faithful'
  BY <1>8, FailsFaithful DEF TriageRefuses, ReadFails
<1>9. ASSUME NEW c \in Callers, logTriageExecute(c) PROVE Faithful'
  BY <1>9, AnswerFaithful
<1>10. CASE HarnessWrites /\ UNCHANGED <<dispatchVars, read>>
  <2>1. written < Len(Text(sweep)) /\ written' = written + 1 /\ UNCHANGED <<calls, sweep, read>>
    BY <1>10 DEF HarnessWrites, dispatchVars
  <2>2. written' \in 0 .. Len(Text(sweep))
    BY <1>2, <2>1
  <2> QED
    BY <1>1, <2>1, <2>2
<1> QED
  BY <1>3, <1>4, <1>5, <1>6, <1>7, <1>8, <1>9, <1>10 DEF TriageNext

(***************************************************************************)
(* Only the verdicts of the harness: for any sweep and any state of its    *)
(* log, and whoever calls meanwhile (logtriage.go:15-28, 41-47).           *)
(***************************************************************************)
THEOREM VerdictsNeverFabricated == TriageSpec => []VerdictsAreTheHarness
<1>1. Honest /\ Faithful => VerdictsAreTheHarness
  <2> SUFFICES ASSUME Honest, Faithful, NEW c \in Callers, Triaged(c), NEW word \in {"FAIL", "WARN"}
               PROVE  LET found == IF word = "FAIL" THEN Result(c).fail ELSE Result(c).warn
                      IN  Honours(found, Len(Asserted(Finished(c), word)), Asserted(sweep.gates, word))
    BY DEF VerdictsAreTheHarness, Honours
  <2>1. sweep \in Sweeps /\ read[c] \in 0 .. Len(Text(sweep)) /\ Result(c) = TriageLog(LogOf(c))
    BY DEF Honest, Typed, Faithful
  <2> DEFINE found == IF word = "FAIL" THEN Result(c).fail ELSE Result(c).warn
  <2>2. found = extractVerdictLines(LogOf(c), word)
    BY <2>1 DEF TriageLog
  <2> HIDE DEF found
  <2>3. Honours(extractVerdictLines(LogOf(c), word), Len(Asserted(Finished(c), word)),
                Asserted(sweep.gates, word))
    BY <2>1, VerdictsHonoured DEF LogOf, Finished
  <2> QED
    BY <2>2, <2>3 DEF found
<1> QED
  BY <1>1, InitHonest, NextHonest, InitFaithful, NextFaithful, PTL DEF TriageSpec

(***************************************************************************)
(* No count is made up, for any sweep and however much of its log is read: *)
(* a count is what was read of the number in its line of the summary, or   *)
(* -1 when there is none.  The sweeps may have gates named like labels;    *)
(* only one whose description begins with a digit, so that its line is one *)
(* of the summary to the regular expression (126-129), is excepted, for    *)
(* its label.  The marker is reported exactly when it was read, and then   *)
(* the sweep has passed or a gate quotes it (logtriage.go:43-45, 159-172,  *)
(* 219).                                                                   *)
(***************************************************************************)
THEOREM CountsNeverFabricated == TriageSpec => []CountsAreDeclared
<1>1. Honest /\ Faithful => CountsAreDeclared
  <2> SUFFICES ASSUME Honest, Faithful, NEW c \in Callers, Triaged(c)
               PROVE  /\ Result(c).passed = (Marker \in ToSet(LogOf(c)))
                      /\ Result(c).passed => sweep.passed \/ \E i \in DOMAIN sweep.gates : Quotes(sweep.gates[i])
                      /\ \A label \in Labels :
                            \/ \E i \in DOMAIN sweep.gates : Poses(sweep.gates[i], label)
                            \/ Counted(LogOf(c), label, sweep.counts[label], Result(c).counts[label])
    BY DEF CountsAreDeclared, Counted, Read, DigitsRead, Colon
  <2>1. sweep \in Sweeps /\ read[c] \in 0 .. Len(Text(sweep)) /\ Result(c) = TriageLog(LogOf(c))
    BY DEF Honest, Typed, Faithful
  <2>2. /\ TriageLog(LogOf(c)).passed = (Marker \in ToSet(LogOf(c)))
        /\ TriageLog(LogOf(c)).passed
           => sweep.passed \/ \E i \in DOMAIN sweep.gates : Quotes(sweep.gates[i])
    BY <2>1, MarkerHonoured DEF LogOf
  <2>3. ASSUME NEW label \in Labels, ~ \E i \in DOMAIN sweep.gates : Poses(sweep.gates[i], label)
        PROVE  Counted(LogOf(c), label, sweep.counts[label], TriageLog(LogOf(c)).counts[label])
    <3>1. sweep.gates \in Seq(Gates)
      BY <2>1, TriageAssumption
    <3>2. DOMAIN sweep.gates = 1 .. Len(sweep.gates)
      BY <3>1, LenProperties
    <3>3. Modest(sweep.gates, label)
      BY <2>3, <3>2 DEF Modest
    <3> QED
      BY <2>1, <3>3, CountsHonoured DEF LogOf
  <2> QED
    BY <2>1, <2>2, <2>3
<1> QED
  BY <1>1, InitHonest, NextHonest, InitFaithful, NextFaithful, PTL DEF TriageSpec

=============================================================================
