\* A caller triages the log of a sweep with a gate that is named like a label of
\* the summary.
CONSTANTS
    Tiers = {log_triage, model}
    NoTier = NoTier
    Executors = {triage, gpt}
    Nobody = Nobody
    Heedful = {gpt}
    Payloads = {"path", "no path", "other"}
    Nothing = Nothing
    Callers = {c1}
    MaxOrder = 2
    Words <- TheWords
    Sweeps <- TheSweeps
    MaxInt = 99
    Triage = triage
SPECIFICATION TriageSpec
INVARIANT
    CountsAreOfTheSummary
