----------------------------- MODULE LogTriage ------------------------------
(***************************************************************************)
(* The log_triage tool of pkg/tier/logtriage.go, over the log of a sweep   *)
(* that may still be growing, or was cut short.                            *)
(*                                                                         *)
(* A log is a sequence of tokens: "SGR" is an escape sequence of a color   *)
(* or a reset, ": " follows the name of a gate or a label of the summary,  *)
(* "NL" ends a line.  Blanks are left out, other than the ends of lines    *)
(* that \s* passes over.                                                   *)
(***************************************************************************)
EXTENDS Integers, Sequences, SequencesExt, FiniteSetsExt

CONSTANTS
    Words,          \* what names, descriptions and reasons of gates are made of
    Sweeps,         \* the sweeps that the harness may run
    MaxInt          \* the largest int

Verdicts == {"PASS", "WARN", "FAIL"}

Labels == {"Total tests", "Passed", "Failed", "Warnings"}

Digits == <<"0", "1", "2", "3", "4", "5", "6", "7", "8", "9">>

Marker == "ALL MANDATORY CHECKS PASSED"

NoReason == ""

Tokens == Words \cup Verdicts \cup Labels \cup ToSet(Digits) \cup {": ", "SGR", "NL", Marker}

(* A reason stands in parentheses.  The text of a gate may be a label of   *)
(* the summary, a number, a verdict or the marker itself.                  *)
Gates == [name : Words \ {": "}, description : Seq(Words), verdict : Verdicts,
          reason : {NoReason} \cup (Words \ (Verdicts \cup ToSet(Digits)))]

ASSUME TriageAssumption ==
    /\ {"SGR", "NL"} \cap Words = {}
    /\ \A s \in Sweeps : /\ s.gates \in Seq(Gates)
                         /\ s.passed \in BOOLEAN
                         /\ s.counts \in [Labels -> Seq(ToSet(Digits)) \ {<<>>}]

VARIABLES
    sweep,          \* the sweep that writes the log
    written         \* how many tokens of it are in the file

logVars == <<sweep, written>>

(***************************************************************************)
(* What the harness writes: a line per gate, the marker when it passed,    *)
(* and the summary.                                                        *)
(***************************************************************************)
GateLine(g) ==
    <<g.name, ": ">> \o g.description \o <<"SGR", g.verdict, "SGR">>
    \o (IF g.reason = NoReason THEN <<>> ELSE <<g.reason>>) \o <<"NL">>

SummaryLine(s, label) == <<label, ": ">> \o s.counts[label] \o <<"NL">>

GateLines(gates) ==
    LET upto[n \in 0 .. Len(gates)] ==
            IF n = 0 THEN <<>> ELSE upto[n - 1] \o GateLine(gates[n])
    IN  upto[Len(gates)]

Text(s) ==
    GateLines(s.gates)
    \o (IF s.passed THEN <<Marker, "NL">> ELSE <<>>)
    \o SummaryLine(s, "Total tests") \o SummaryLine(s, "Passed")
    \o SummaryLine(s, "Failed") \o SummaryLine(s, "Warnings")

log == SubSeq(Text(sweep), 1, written)

LogInit == sweep \in Sweeps /\ written = 0

(* The harness may be killed between two tokens: there is no fairness.     *)
HarnessWrites ==
    /\ written < Len(Text(sweep))
    /\ written' = written + 1
    /\ UNCHANGED sweep

(***************************************************************************)
(* TriageLog.                                                              *)
(***************************************************************************)

(* The members of S in a sequence, in their order.                         *)
Kept(seq, S) ==
    LET upto[n \in 0 .. Len(seq)] ==
            IF n = 0 THEN <<>>
            ELSE IF seq[n] \in S THEN Append(upto[n - 1], seq[n]) ELSE upto[n - 1]
    IN  upto[Len(seq)]

Stripped(text) == Kept(text, Tokens \ {"SGR"})

Atoi(digits) ==
    LET n[i \in 0 .. Len(digits)] ==
            IF i = 0 THEN 0
            ELSE 10 * n[i - 1] + (CHOOSE d \in 1 .. 10 : Digits[d] = digits[i]) - 1
    IN  n[Len(digits)]

(* The digits of text from i on, past the ends of lines.                   *)
NumberFrom(text, i) ==
    LET outside(S, j) == {k \in j .. Len(text) : text[k] \notin S} \cup {Len(text) + 1}
        from == Min(outside({"NL"}, i))
    IN  SubSeq(text, from, Min(outside(ToSet(Digits), from)) - 1)

Matches(clean, label) ==
    {i \in 1 .. Len(clean) - 1 : /\ clean[i] = label /\ clean[i + 1] = ": "
                                 /\ i = 1 \/ clean[i - 1] = "NL"
                                 /\ NumberFrom(clean, i + 2) # <<>>}

\* Mutant of extractFirstInt: what is not found counts as zero.
extractFirstIntOrZero(clean, label) ==
    LET found == Matches(clean, label)
    IN  IF found = {} THEN 0 ELSE Atoi(NumberFrom(clean, Min(found) + 2))

extractFirstInt(clean, label) ==
    LET found == Matches(clean, label)
        n == Atoi(NumberFrom(clean, Min(found) + 2))
    IN  IF found = {} THEN -1 ELSE IF n > MaxInt THEN -1 ELSE n

\* Mutant of tokenRE: the word alone is taken for the verdict.
tokenREBare(line, word) == word \in ToSet(line)

tokenRE(line, word) ==
    \E i \in 1 .. Len(line) - 2 : SubSeq(line, i, i + 2) = <<"SGR", word, "SGR">>

(* Every end of a line opens another, so that the last has none.           *)
Lines(raw) ==
    LET upto[n \in 0 .. Len(raw)] ==
            IF n = 0 THEN << <<>> >>
            ELSE LET lines == upto[n - 1]
                 IN  IF raw[n] = "NL" THEN Append(lines, <<>>)
                     ELSE [lines EXCEPT ![Len(lines)] = Append(@, raw[n])]
    IN  upto[Len(raw)]

Reasons == (UNION {{s.gates[i].reason : i \in DOMAIN s.gates} : s \in Sweeps}) \ {NoReason}

GateFinding(line) ==
    LET clean == Stripped(line)
        stops == {i \in DOMAIN clean : clean[i] = ": "}
        n == Len(clean)
    IN  [id |-> IF stops = {} THEN clean ELSE SubSeq(clean, 1, Min(stops) - 1),
         reason |-> IF n > 0 /\ clean[n] \in Reasons THEN clean[n] ELSE NoReason]

extractVerdictLines(raw, word) ==
    LET lines == Lines(raw)
        found == Kept(lines, {line \in ToSet(lines) : tokenRE(line, word)})
    IN  [i \in DOMAIN found |-> GateFinding(found[i])]

TriageLog(raw) ==
    LET clean == Stripped(raw)
    IN  [counts |-> [label \in Labels |-> extractFirstInt(clean, label)],
         passed |-> Marker \in ToSet(clean),
         fail |-> extractVerdictLines(raw, "FAIL"),
         warn |-> extractVerdictLines(raw, "WARN")]

=============================================================================
