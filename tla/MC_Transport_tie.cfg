\* A coding of the same length as the raw body is chosen before identity
\* (compress.go:98-100), a counterexample.
CONSTANTS
    Names <- Codings
    NoName <- Empty
    Sizes = {0, 1, 2}
    MaxGiven = 3
    Identity = 2
    RawSize = 2
    NoHeader = NoHeader
    Garbled = Garbled
    Corrupt = Corrupt
    Unknown = Unknown
    Nothing = Nothing
    MaxSends = 2
SPECIFICATION TransportSpec
INVARIANTS
    StrictlySmallerThanRaw
