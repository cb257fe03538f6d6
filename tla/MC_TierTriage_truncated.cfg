\* A caller triages a log that ends within a number of the summary.
CONSTANTS
    Tiers = {log_triage, model}
    NoTier = NoTier
    Executors = {triage, gpt}
    Nobody = Nobody
    Heedful = {gpt}
    Payloads = {"path", "no path", "other"}
    Nothing = Nothing
    Callers = {c1}
    MaxOrder = 2
    Words <- TheWords
    Sweeps <- TheSweeps
    MaxInt = 99
    Triage = triage
SPECIFICATION TriageSpec
INVARIANT
    TruncatedIsUnknown
