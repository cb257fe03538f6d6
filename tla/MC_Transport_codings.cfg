\* A request is compressed up to twice, by compressors that fail or lose data.
CONSTANTS
    Names <- Codings
    NoName <- Empty
    Sizes = {0, 1, 2}
    MaxGiven = 3
    Identity = 2
    RawSize = 2
    NoHeader = NoHeader
    Garbled = Garbled
    Corrupt = Corrupt
    Unknown = Unknown
    Nothing = Nothing
    MaxSends = 2
SPECIFICATION TransportSpec
INVARIANTS
    SmallestLossless
    PeerReconstructs
