----------------------------- MODULE Transport -----------------------------
(***************************************************************************)
(* Negotiator of pkg/transport: Compress (negotiate.go) is the algorithm   *)
(* of Selection over compressors, and the HTTP glue (http.go) puts its     *)
(* result into a request and takes it out at a peer, another Negotiator    *)
(* with a set of compressors of its own.  The errors of Negotiator are     *)
(* those of Selector under other names.                                    *)
(*                                                                         *)
(* A body is the sequence of codings that were applied to it, the bytes of *)
(* the caller first.                                                       *)
(***************************************************************************)
EXTENDS Selection

CONSTANTS
    Identity,       \* the built-in coding that changes nothing
    RawSize,        \* the length of the body of the caller
    NoHeader,       \* no Content-Encoding header
    Garbled,        \* a body with other bytes than those that were sent
    Corrupt,        \* the error of a Decompress
    Unknown,        \* ErrUnknownEncoding
    Nothing,        \* nothing was received yet
    MaxSends        \* bound: successful calls of CompressRequestBody

ASSUME TransportAssumption ==
    /\ Identity \in Names
    /\ {0, RawSize} \subseteq Sizes
    /\ NoHeader \notin Names
    /\ MaxSends \in Nat

VARIABLES
    body,           \* req.Body
    header,         \* the Content-Encoding of req
    raw,            \* the bytes that CompressRequestBody read
    received,       \* what DecodeResponseBody of the peer returned
    peer,           \* the compressors of that peer
    sends           \* history: the calls that succeeded

httpVars == <<body, header, raw, received, peer, sends>>
transportVars == <<selectionVars, httpVars>>

Layer(name, size, verdict) == [name |-> name, size |-> size, verdict |-> verdict]

Original == <<Layer(NoName, RawSize, "lossless")>>

\* A reader that was read to the end.
Drained == <<Layer(NoName, 0, "lossless")>>

Length(b) == Last(b).size

TransportInit ==
    /\ SelectionInit
    /\ body = Original
    /\ header = NoHeader
    /\ raw = Original
    /\ received = Nothing
    /\ peer = {}
    /\ sends = 0

NewNegotiator == Construct /\ UNCHANGED httpVars

\* drainBody fails part of the way.  The body is lost.
DrainFails ==
    /\ stage = "ready"
    /\ body' = Drained
    /\ UNCHANGED <<selectionVars, header, raw, received, peer, sends>>

\* A request that is compressed again still has its body (GetBody restores it).
CompressRequestBody ==
    /\ Begin
    /\ sends < MaxSends
    /\ raw' = body
    /\ body' = Drained
    /\ received' = Nothing
    /\ UNCHANGED <<header, peer, sends>>

(***************************************************************************)
(* Identity copies the body: it never fails and has the length of it.      *)
(***************************************************************************)
CopyIdentity ==
    /\ Untried # {}
    /\ Upcoming = Identity
    /\ Smaller(Length(raw)) \/ NotSmaller(Length(raw))

Compress ==
    /\ CopyIdentity \/ (Untried # {} /\ Upcoming # Identity /\ Try)
    /\ UNCHANGED httpVars

(***************************************************************************)
(* The winner and the header that names it.                                *)
(***************************************************************************)
Coded(name) ==
    IF name = Identity THEN raw
    ELSE Append(raw, Layer(name, candidates[name].size, candidates[name].verdict))

\* Mutant of contentEncoding: identity is not told apart, the header is kept.
contentEncodingOfLast(name) == IF name = Identity THEN header ELSE name

contentEncoding(name) == IF name = Identity THEN NoHeader ELSE name

Rewrite ==
    /\ Selected
    /\ body' = Coded(winner)
    /\ header' = contentEncoding(winner)
    /\ sends' = sends + 1
    /\ UNCHANGED <<raw, received, peer>>

\* The request keeps its header, and the body that was read to the end.
RewriteRefused == NoLossless /\ UNCHANGED httpVars

(***************************************************************************)
(* Decompress at a peer with compressors ours.                             *)
(***************************************************************************)
Undo(b, token) ==
    IF Last(b).name # token THEN Corrupt
    ELSE CASE Last(b).verdict = "lossless" -> Front(b)
           [] Last(b).verdict = "lossy"    -> Garbled
           [] OTHER                        -> Corrupt

Decompress(ours, b, token) ==
    CASE token \in {NoHeader, Identity} -> b
      [] token \in ours \ {Identity}    -> Undo(b, token)
      [] OTHER                          -> Unknown

DecodeResponseBody ==
    /\ Return
    /\ \E ours \in SUBSET Names :
        /\ peer' = ours
        /\ received' = Decompress(ours, body, header)
    /\ UNCHANGED <<body, header, raw, sends>>

TransportNext ==
    \/ NewNegotiator
    \/ DrainFails
    \/ CompressRequestBody
    \/ Compress
    \/ Rewrite
    \/ RewriteRefused
    \/ DecodeResponseBody

TransportSpec == TransportInit /\ [][TransportNext]_transportVars

(***************************************************************************)
(* Properties.                                                             *)
(***************************************************************************)
\* A peer that decodes what CompressRequestBody made of a body gets that body,
\* or learns that it has no such coding; a peer with the same compressors
\* always gets it.  Never does it take other bytes for it, though compressors
\* lose data and a request may be compressed again (http.go:26-28).
PeerReconstructs ==
    \/ received \in {Nothing, raw}
    \/ received = Unknown /\ ~ encoders \subseteq peer

-----------------------------------------------------------------------------
(***************************************************************************)
(* What the comments say that the code does not do.  TLC refutes this with *)
(* MC_Transport_tie.cfg.                                                   *)
(***************************************************************************)
\* "a compressor is chosen only when it round-trips the body AND its output is
\* strictly smaller than the identity (raw) body" (compress.go:98-100): at the
\* same length a coding with a lesser name is chosen (negotiate.go:208), be it
\* gzip or deflate.  SmallestLossless is what holds.
StrictlySmallerThanRaw ==
    stage = "selected" /\ Identity \in encoders /\ winner # Identity =>
        candidates[winner].size < Length(raw)
=============================================================================
