----------------------------- MODULE TierTriage -----------------------------
(***************************************************************************)
(* The log_triage tool as one of the executors of a registry: requests for *)
(* it are dispatched while the harness writes the log.                     *)
(***************************************************************************)
EXTENDS Dispatch, LogTriage

CONSTANTS Triage            \* the executor of the tool, a member of Executors

VARIABLES read              \* history: how much of the log each caller's triage has read

triageVars == <<dispatchVars, logVars, read>>

TriageInit ==
    /\ DispatchInit
    /\ LogInit
    /\ read = [c \in Callers |-> 0]

(* The payload is a LogTriageRequest with a path, or without, or is none.  *)
TriageRefuses(c) ==
    /\ Runs(c, Triage)
    /\ \/ /\ calls[c].payload = "other"
          /\ Fails(c, Triage, "ErrLogTriagePayloadType")
       \/ /\ calls[c].payload = "no path"
          /\ Fails(c, Triage, "ErrLogTriagePathEmpty")
    /\ UNCHANGED <<executors, logVars, read>>

ReadFails(c) ==
    /\ Runs(c, Triage)
    /\ calls[c].payload = "path"
    /\ Fails(c, Triage, "read")
    /\ UNCHANGED <<executors, logVars, read>>

(* It takes no notice of its context.                                      *)
logTriageExecute(c) ==
    /\ Runs(c, Triage)
    /\ calls[c].payload = "path"
    /\ Succeeds(c, [by |-> Triage, served |-> TierOf(c), result |-> TriageLog(log)])
    /\ read' = [read EXCEPT ![c] = written]
    /\ UNCHANGED <<executors, logVars>>

TriageNext ==
    \/ \E t \in Tiers, e \in Executors : Register(t, e) /\ UNCHANGED <<logVars, read>>
    \/ \E c \in Callers :
          \/ CallStep(c) /\ UNCHANGED <<logVars, read>>
          \/ \E e \in Executors \ {Triage} :
                (ExecuteOk(c, e) \/ ExecuteFails(c, e)) /\ UNCHANGED <<logVars, read>>
          \/ TriageRefuses(c) \/ ReadFails(c) \/ logTriageExecute(c)
    \/ HarnessWrites /\ UNCHANGED <<dispatchVars, read>>

TriageSpec == TriageInit /\ [][TriageNext]_triageVars

-----------------------------------------------------------------------------
Triaged(c) == Answered(calls[c]) /\ calls[c].response.payload.by = Triage

Result(c) == calls[c].response.payload.result

(* The log that the triage of c has read.                                  *)
LogOf(c) == SubSeq(Text(sweep), 1, read[c])

Asserted(gates, word) == Kept(gates, {g \in ToSet(gates) : g.verdict = word})

(* The gates whose lines the triage of c has read to the end.              *)
Finished(c) ==
    LET lines == Cardinality({i \in DOMAIN LogOf(c) : LogOf(c)[i] = "NL"})
    IN  SubSeq(sweep.gates, 1, Min({lines, Len(sweep.gates)}))

(* Only what the harness asserted (logtriage.go:15-28, 41-47): the gates   *)
(* listed as failed or warned are those of the harness, in its order, none *)
(* because of a word in its name or description; every line that was read  *)
(* to its end is heeded, and only the last may lack its reason.            *)
VerdictsAreTheHarness ==
    \A c \in Callers : Triaged(c) =>
       \A word \in {"FAIL", "WARN"} :
          LET found == IF word = "FAIL" THEN Result(c).fail ELSE Result(c).warn
              asserted == Asserted(sweep.gates, word)
              certain == Len(Asserted(Finished(c), word))
          IN  /\ Len(found) \in certain .. Min({certain + 1, Len(asserted)})
              /\ \A i \in DOMAIN found :
                    /\ found[i].id = <<asserted[i].name>>
                    /\ \/ found[i].reason = asserted[i].reason
                       \/ found[i].reason = NoReason /\ i > certain

(* A gate whose line is one of the summary to TriageLog, and a gate whose  *)
(* text contains the marker.                                               *)
Poses(g, label) ==
    g.name = label /\ g.description # <<>> /\ g.description[1] \in ToSet(Digits)

Quotes(g) == Marker \in ToSet(GateLine(g))

(* line is a line of text, or the beginning of one that the text ends in.  *)
Stands(line, text) ==
    \E i \in DOMAIN text :
       LET j == i + Len(line) - 1
       IN  /\ i = 1 \/ text[i - 1] = "NL"
           /\ j <= Len(text) /\ SubSeq(text, i, j) = line
           /\ j = Len(text) \/ text[j + 1] = "NL"

Value(digits) == IF Atoi(digits) > MaxInt THEN -1 ELSE Atoi(digits)

(* How many digits of the count of the summary the triage of c has read.   *)
DigitsRead(c, label) ==
    LET digits == sweep.counts[label]
    IN  {k \in 1 .. Len(digits) : Stands(<<label, ": ">> \o SubSeq(digits, 1, k), LogOf(c))}

(* No count is made up (logtriage.go:43-45, 159-172): it is -1 unless a    *)
(* line of the summary was read, and then what was read of that number,    *)
(* which is -1 when no int can hold it (167-170).  Only a gate that poses  *)
(* as a line of the summary may change that.  The marker is reported when  *)
(* it was read, and then the sweep has passed or a gate quotes it.         *)
CountsAreDeclared ==
    \A c \in Callers : Triaged(c) =>
       /\ Result(c).passed = (Marker \in ToSet(LogOf(c)))
       /\ Result(c).passed => sweep.passed \/ \E i \in DOMAIN sweep.gates : Quotes(sweep.gates[i])
       /\ \A label \in Labels :
             LET count == Result(c).counts[label]
             IN  \/ \E i \in DOMAIN sweep.gates : Poses(sweep.gates[i], label)
                 \/ DigitsRead(c, label) = {} /\ count = -1
                 \/ \E k \in DigitsRead(c, label) :
                       count = Value(SubSeq(sweep.counts[label], 1, k))

-----------------------------------------------------------------------------
(***************************************************************************)
(* What the comments say that the code does not do.  TLC refutes each of   *)
(* these; CountsAreDeclared is the most that holds.                        *)
(***************************************************************************)

(* "a malformed or truncated log yields -1 summary fields" (logtriage.go   *)
(* 206-208): a log cut within a number yields the digits that there are.   *)
TruncatedIsUnknown ==
    \A c \in Callers, label \in Labels : Triaged(c) =>
       \/ \E i \in DOMAIN sweep.gates : sweep.gates[i].name = label
       \/ Result(c).counts[label] \in {-1, Value(sweep.counts[label])}

(* Total, Passed, Failed and Warnings "are the harness's own declared      *)
(* summary counts" (100-103): a line of a gate that is named like a label  *)
(* is taken for that of the summary (126-129).                             *)
CountsAreOfTheSummary ==
    \A c \in Callers, label \in Labels : Triaged(c) /\ read[c] = Len(Text(sweep)) =>
       Result(c).counts[label] = Value(sweep.counts[label])

(* MandatoryChecksPassed "is true iff the log contains the harness's own   *)
(* literal ... marker line" (104-106): the marker is found anywhere (219), *)
(* in the description of a gate of a sweep that has failed too.            *)
MarkerIsTheHarness ==
    \A c \in Callers : Triaged(c) => (Result(c).passed => sweep.passed)

=============================================================================
