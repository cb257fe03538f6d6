\* A caller triages the log of a sweep that has failed and has a gate that quotes
\* the marker.
CONSTANTS
    Tiers = {log_triage, model}
    NoTier = NoTier
    Executors = {triage, gpt}
    Nobody = Nobody
    Heedful = {gpt}
    Payloads = {"path", "no path", "other"}
    Nothing = Nothing
    Callers = {c1}
    MaxOrder = 2
    Words <- TheWords
    Sweeps <- TheSweeps
    MaxInt = 99
    Triage = triage
SPECIFICATION TriageSpec
INVARIANT
    MarkerIsTheHarness
