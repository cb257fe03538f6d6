\* A caller walks chains of tiers while executors are registered, the contexts
\* are cancelled and the harness writes the log that one of the tiers triages.
CONSTANTS
    Tiers = {log_triage, model}
    NoTier = NoTier
    Executors = {triage, gpt}
    Nobody = Nobody
    Heedful = {gpt}
    Payloads = {"path", "no path", "other"}
    Nothing = Nothing
    Callers = {c1}
    MaxOrder = 2
    Words <- TheWords
    Sweeps <- TheSweeps
    MaxInt = 99
    Triage = triage
SPECIFICATION TriageSpec
INVARIANTS
    ChainHonest
    VerdictsAreTheHarness
    CountsAreDeclared
