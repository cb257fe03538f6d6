-------------------------- MODULE Transport_proofs --------------------------
(***************************************************************************)
(* Theorems about Selection for every set of encoders and every outcome of *)
(* each, and about Transport over it for all sets of compressors on both   *)
(* sides and any number of requests.                                       *)
(***************************************************************************)
EXTENDS Transport, WellFoundedInduction, SequenceTheorems, TLAPS

(***************************************************************************)
(* The loop takes the encoders in the order of their names.                *)
(***************************************************************************)
Below == {p \in Nat \X Nat : p[1] < p[2]}

LEMMA BelowIsWellFounded == IsWellFoundedOn(Below, Nat)
  BY NatLessThanWellFounded DEF OpToRel, Below

LEMMA UpcomingIsLeast ==
    ASSUME encoders \subseteq Names, Untried # {}
    PROVE  Upcoming \in Untried /\ \A m \in Untried : Upcoming <= m
<1>1. Untried \subseteq Nat
  BY SelectionAssumption DEF Untried
<1>2. PICK x \in Untried : \A y \in Untried : ~ (<<y, x>> \in Below)
  BY <1>1, BelowIsWellFounded, WFMin
<1>3. ASSUME NEW y \in Untried PROVE x <= y
  <2>1. x \in Nat /\ y \in Nat
    BY <1>1
  <2>2. y < x => <<y, x>> \in Below
    BY <2>1 DEF Below
  <2> QED
    BY <1>2, <2>1, <2>2
<1> QED
  BY <1>2, <1>3 DEF Upcoming

(***************************************************************************)
(* The strengthening: sizes and names are numbers, the encoders tried have *)
(* lesser names than those to come, and before a Selector exists nothing   *)
(* was tried.                                                              *)
(***************************************************************************)
InOrder == \A n \in DOMAIN candidates : \A m \in Untried : n < m

Settled == stage = "none" => candidates = <<>> /\ encoders = {}

Sorted == SelectionTypeOK /\ InOrder /\ Settled

LEMMA InitSorted == SelectionInit => Sorted /\ SmallestLossless
<1> SUFFICES ASSUME SelectionInit PROVE Sorted /\ SmallestLossless
  OBVIOUS
<1>1. DOMAIN candidates = {}
  BY DEF SelectionInit
<1>2. Sorted
  BY <1>1 DEF SelectionInit, Sorted, SelectionTypeOK, Errors, InOrder, Settled
<1>3. SmallestLossless
  BY <1>1 DEF SelectionInit, SmallestLossless, Eligible
<1> QED
  BY <1>2, <1>3

(***************************************************************************)
(* What one turn of the loop does.                                         *)
(***************************************************************************)
LEMMA TurnSorted ==
    ASSUME Sorted, NEW size \in Sizes \cup {0},
           NEW verdict \in {"lossless", "lossy", "error"},
           Tried(size, verdict), winner' \in {winner, Upcoming}
    PROVE  /\ Sorted'
           /\ Upcoming \in encoders \ DOMAIN candidates
           /\ Upcoming \in Nat
           /\ \A n \in DOMAIN candidates : n \in Nat /\ n < Upcoming
           /\ DOMAIN candidates' = DOMAIN candidates \cup {Upcoming}
           /\ candidates'[Upcoming] = [size |-> size, verdict |-> verdict]
           /\ \A n \in DOMAIN candidates : candidates'[n] = candidates[n]
<1> DEFINE u == Upcoming
<1>1. encoders \subseteq Names /\ Untried # {}
  BY DEF Sorted, SelectionTypeOK, Tried
<1>2. u \in Untried /\ \A m \in Untried : u <= m
  BY <1>1, UpcomingIsLeast
<1> HIDE DEF u
<1>3. /\ candidates' = [n \in DOMAIN candidates \cup {u} |->
            IF n = u THEN [size |-> size, verdict |-> verdict] ELSE candidates[n]]
      /\ UNCHANGED <<encoders, stage, err>>
      /\ stage = "selecting"
  BY DEF Tried, u
<1>4. u \in encoders /\ u \notin DOMAIN candidates /\ u \in Nat
  BY <1>1, <1>2, SelectionAssumption DEF Untried
<1>5. \A n \in DOMAIN candidates : n \in Nat /\ n < u
  BY <1>1, <1>2, SelectionAssumption DEF Sorted, SelectionTypeOK, InOrder
<1>6. /\ DOMAIN candidates' = DOMAIN candidates \cup {u}
      /\ candidates'[u] = [size |-> size, verdict |-> verdict]
      /\ \A n \in DOMAIN candidates : candidates'[n] = candidates[n]
  BY <1>3, <1>4
<1>7. Untried' = Untried \ {u}
  BY <1>3, <1>6 DEF Untried
<1>8. SelectionTypeOK'
  <2>1. \A n \in DOMAIN candidates' : candidates'[n] \in Candidate
    BY <1>6 DEF Sorted, SelectionTypeOK, Candidate
  <2>2. winner' \in DOMAIN candidates' \cup {NoName}
    BY <1>6 DEF Sorted, SelectionTypeOK, u
  <2> QED
    BY <1>3, <1>4, <1>6, <2>1, <2>2 DEF Sorted, SelectionTypeOK
<1>9. InOrder'
  <2> SUFFICES ASSUME NEW n \in DOMAIN candidates', NEW m \in Untried' PROVE n < m
    BY DEF InOrder
  <2>1. m \in Untried /\ m # u /\ m \in Nat
    BY <1>1, <1>7, SelectionAssumption DEF Untried
  <2>2. CASE n = u
    BY <1>2, <1>4, <2>1, <2>2
  <2>3. CASE n \in DOMAIN candidates
    BY <2>1, <2>3 DEF Sorted, InOrder
  <2> QED
    BY <1>6, <2>2, <2>3
<1>10. Settled'
  BY <1>3 DEF Settled
<1> QED
  BY <1>2, <1>4, <1>5, <1>6, <1>8, <1>9, <1>10 DEF Sorted, Untried, u

(***************************************************************************)
(* A turn keeps the winner smallest: an encoder that is not lossless does  *)
(* not count, and one of the size of the winner has a later name.          *)
(***************************************************************************)
LEMMA RejectedKeeps ==
    ASSUME Sorted, SmallestLossless, NEW size \in Sizes \cup {0},
           NEW verdict \in {"lossy", "error"}, Tried(size, verdict), UNCHANGED winner
    PROVE  SmallestLossless'
<1>1. /\ Upcoming \notin DOMAIN candidates
      /\ DOMAIN candidates' = DOMAIN candidates \cup {Upcoming}
      /\ candidates'[Upcoming] = [size |-> size, verdict |-> verdict]
      /\ \A n \in DOMAIN candidates : candidates'[n] = candidates[n]
  BY TurnSorted
<1>2. Eligible' = Eligible
  BY <1>1 DEF Eligible
<1>3. \A n \in Eligible : candidates'[n] = candidates[n]
  BY <1>1 DEF Eligible
<1> QED
  BY <1>2, <1>3 DEF SmallestLossless, Preferred

LEMMA LosslessGrows ==
    ASSUME Sorted, NEW size \in Sizes, Tried(size, "lossless"),
           winner' \in {winner, Upcoming}
    PROVE  /\ Eligible' = Eligible \cup {Upcoming}
           /\ candidates'[Upcoming].size = size
           /\ Upcoming \in Nat /\ Upcoming # NoName
           /\ \A n \in Eligible : /\ candidates'[n] = candidates[n]
                                 /\ candidates[n].size \in Nat
                                 /\ n \in Nat /\ n < Upcoming
<1>1. /\ Upcoming \in encoders \ DOMAIN candidates
      /\ Upcoming \in Nat
      /\ \A n \in DOMAIN candidates : n \in Nat /\ n < Upcoming
      /\ DOMAIN candidates' = DOMAIN candidates \cup {Upcoming}
      /\ candidates'[Upcoming] = [size |-> size, verdict |-> "lossless"]
      /\ \A n \in DOMAIN candidates : candidates'[n] = candidates[n]
  BY TurnSorted
<1>2. Upcoming # NoName
  BY <1>1, SelectionAssumption DEF Sorted, SelectionTypeOK
<1>3. ASSUME NEW n \in DOMAIN candidates PROVE candidates[n].size \in Nat
  <2>1. candidates[n] \in Candidate
    BY DEF Sorted, SelectionTypeOK
  <2>2. candidates[n].size \in Sizes \cup {0}
    BY <2>1 DEF Candidate
  <2>3. \A s \in Sizes \cup {0} : s \in Nat
    BY SelectionAssumption
  <2> QED
    BY <2>2, <2>3, Zenon
<1> QED
  BY <1>1, <1>2, <1>3 DEF Eligible

LEMMA SmallerKeeps ==
    ASSUME Sorted, SmallestLossless, NEW size \in Sizes, Smaller(size)
    PROVE  SmallestLossless'
<1>1. /\ Eligible' = Eligible \cup {Upcoming}
      /\ candidates'[Upcoming].size = size
      /\ Upcoming \in Nat /\ Upcoming # NoName
      /\ \A n \in Eligible : /\ candidates'[n] = candidates[n]
                            /\ candidates[n].size \in Nat
                            /\ n \in Nat /\ n < Upcoming
  BY LosslessGrows DEF Smaller
<1>2. winner' = Upcoming /\ size \in Nat
  BY SelectionAssumption DEF Smaller
<1>3. ASSUME NEW n \in Eligible PROVE size < candidates[n].size
  <2>1. winner # NoName /\ winner \in Eligible /\ Preferred(winner, n)
    BY <1>3 DEF SmallestLossless
  <2>2. size < candidates[winner].size
    BY <2>1 DEF Smaller, IsSmaller
  <2> QED
    BY <1>1, <1>2, <1>3, <2>1, <2>2 DEF Preferred
<1>4. \A n \in Eligible' : Preferred(winner, n)'
  BY <1>1, <1>2, <1>3 DEF Preferred
<1> QED
  BY <1>1, <1>2, <1>4 DEF SmallestLossless

LEMMA NotSmallerKeeps ==
    ASSUME Sorted, SmallestLossless, NEW size \in Sizes, NotSmaller(size)
    PROVE  SmallestLossless'
<1>1. /\ Eligible' = Eligible \cup {Upcoming}
      /\ candidates'[Upcoming].size = size
      /\ Upcoming \in Nat /\ Upcoming # NoName
      /\ \A n \in Eligible : /\ candidates'[n] = candidates[n]
                            /\ candidates[n].size \in Nat
                            /\ n \in Nat /\ n < Upcoming
  BY LosslessGrows DEF NotSmaller
<1>2. winner' = winner /\ size \in Nat
  BY SelectionAssumption DEF NotSmaller
<1>3. winner # NoName /\ ~ (size < candidates[winner].size)
  BY DEF NotSmaller, IsSmaller
<1>4. winner \in Eligible /\ \A n \in Eligible : Preferred(winner, n)
  BY <1>3 DEF SmallestLossless
<1>5. ASSUME NEW n \in Eligible PROVE Preferred(winner, n)'
  BY <1>1, <1>2, <1>4, <1>5 DEF Preferred
<1>6. ASSUME NEW n \in Eligible', n = Upcoming PROVE Preferred(winner, n)'
  <2>1. /\ candidates'[winner].size <= candidates'[n].size
        /\ winner <= n
        /\ candidates'[winner].size \in Nat /\ candidates'[n].size \in Nat
    BY <1>1, <1>2, <1>3, <1>4, <1>6
  <2> QED
    BY <1>2, <2>1 DEF Preferred
<1>7. \A n \in Eligible' : Preferred(winner, n)'
  BY <1>1, <1>5, <1>6
<1> QED
  BY <1>1, <1>2, <1>3, <1>4, <1>7 DEF SmallestLossless

(***************************************************************************)
(* The invariant and its theorems.                                         *)
(***************************************************************************)
LEMMA NewSelectorKeeps ==
    ASSUME Sorted, SmallestLossless,
           NEW len \in 0 .. MaxGiven, NEW given \in [1 .. len -> Names \cup {NoName}],
           NewSelector(given)
    PROVE  (Sorted /\ SmallestLossless)'
<1>1. candidates = <<>> /\ candidates' = candidates /\ winner' = winner
  BY DEF NewSelector, Sorted, Settled
<1>2. DOMAIN candidates = {} /\ DOMAIN candidates' = {}
  BY <1>1
<1>3. ASSUME NEW i \in DOMAIN given PROVE given[i] \in Names
  <2>1. given[i] # NoName
    BY <1>3 DEF NewSelector, Refused
  <2> QED
    BY <1>3, <2>1
<1>4. encoders' \subseteq Names
  BY <1>3 DEF NewSelector, ToSet
<1>5. Sorted'
  BY <1>2, <1>4 DEF NewSelector, Sorted, SelectionTypeOK, Errors, InOrder, Settled
<1>6. SmallestLossless'
  BY <1>1, <1>2 DEF SmallestLossless, Eligible
<1> QED
  BY <1>5, <1>6

LEMMA StepSorted ==
    Sorted /\ SmallestLossless /\ [SelectionNext]_selectionVars
        => (Sorted /\ SmallestLossless)'
<1> SUFFICES ASSUME Sorted, SmallestLossless, [SelectionNext]_selectionVars
             PROVE  (Sorted /\ SmallestLossless)'
  OBVIOUS
<1> USE DEF Sorted
<1>1. ASSUME NEW len \in 0 .. MaxGiven,
             NEW given \in [1 .. len -> Names \cup {NoName}],
             NewSelectorRefused(given) \/ NewSelector(given)
      PROVE  (Sorted /\ SmallestLossless)'
  <2>1. CASE NewSelectorRefused(given)
    <3>1. Refusal(given) \in Errors
      BY DEF Refusal, Errors
    <3> QED
      BY <2>1, <3>1 DEF NewSelectorRefused, SelectionTypeOK, InOrder, Untried,
                        Settled, SmallestLossless, Eligible, Preferred
  <2>2. CASE NewSelector(given)
    BY <2>2, NewSelectorKeeps
  <2> QED
    BY <1>1, <2>1, <2>2
<1>2. CASE Begin
  <2>1. DOMAIN candidates' = {} /\ winner' = NoName
    BY <1>2 DEF Begin
  <2> QED
    BY <1>2, <2>1 DEF Begin, SelectionTypeOK, InOrder, Settled, SmallestLossless, Eligible
<1>3. CASE Try
  <2>1. CASE EncodeFails
    BY <2>1, TurnSorted, RejectedKeeps DEF EncodeFails
  <2>2. ASSUME NEW size \in Sizes, DecodeFails(size) PROVE (Sorted /\ SmallestLossless)'
    BY <2>2, TurnSorted, RejectedKeeps DEF DecodeFails
  <2>3. ASSUME NEW size \in Sizes, Lossy(size) PROVE (Sorted /\ SmallestLossless)'
    BY <2>3, TurnSorted, RejectedKeeps DEF Lossy
  <2>4. ASSUME NEW size \in Sizes, Smaller(size) PROVE (Sorted /\ SmallestLossless)'
    BY <2>4, TurnSorted, SmallerKeeps DEF Smaller
  <2>5. ASSUME NEW size \in Sizes, NotSmaller(size) PROVE (Sorted /\ SmallestLossless)'
    BY <2>5, TurnSorted, NotSmallerKeeps DEF NotSmaller
  <2> QED
    BY <1>3, <2>1, <2>2, <2>3, <2>4, <2>5 DEF Try
<1>4. CASE Selected
  BY <1>4 DEF Selected, SelectionTypeOK, Errors, InOrder, Untried, Settled,
              SmallestLossless, Eligible, Preferred
<1>5. CASE NoLossless
  BY <1>5 DEF NoLossless, SelectionTypeOK, Errors, InOrder, Untried, Settled,
              SmallestLossless, Eligible, Preferred
<1>6. CASE Return
  BY <1>6 DEF Return, SelectionTypeOK, InOrder, Untried, Settled,
              SmallestLossless, Eligible, Preferred
<1>7. CASE UNCHANGED selectionVars
  BY <1>7 DEF selectionVars, SelectionTypeOK, InOrder, Untried, Settled,
              SmallestLossless, Eligible, Preferred
<1> QED
  BY <1>1, <1>2, <1>3, <1>4, <1>5, <1>6, <1>7 DEF SelectionNext, Construct

\* The variables of a Selector keep their types: in particular it never holds
\* an encoder without a name, and the winner is one of the encoders tried
\* (select.go:92-112, 140-145).
THEOREM TypeCorrect == SelectionSpec => []SelectionTypeOK
<1>1. Sorted => SelectionTypeOK
  BY DEF Sorted
<1> QED
  BY <1>1, InitSorted, StepSorted, PTL DEF SelectionSpec

\* Whatever encoders are given, in whatever order, and whatever they make of a
\* value, Select settles on the smallest lossless encoding, the first by name
\* among equals, and on none only if there is none (select.go:125-191).
THEOREM SelectsSmallest == SelectionSpec => []SmallestLossless
  BY InitSorted, StepSorted, PTL DEF SelectionSpec

-----------------------------------------------------------------------------
(* Transport.                                                              *)

(***************************************************************************)
(* Bodies: layers over the bytes of a caller.                              *)
(***************************************************************************)
Layers == [name : Names \cup {NoName}, size : Sizes,
           verdict : {"lossless", "lossy", "error"}]

IsBody(b) == b \in Seq(Layers) /\ b # <<>>

LEMMA LengthOfBody ==
    ASSUME NEW b, IsBody(b)
    PROVE  Length(b) \in Sizes
<1>1. Last(b) \in Layers
  BY DEF IsBody, Last
<1> QED
  BY <1>1 DEF Length, Layers

LEMMA SingleLayer ==
    ASSUME NEW layer \in Layers
    PROVE  IsBody(<<layer>>)
  BY DEF IsBody

\* A layer that is put on a body can be taken off.
LEMMA LastOfAppend ==
    ASSUME NEW b, IsBody(b), NEW layer \in Layers
    PROVE  /\ IsBody(Append(b, layer))
           /\ Last(Append(b, layer)) = layer
           /\ Front(Append(b, layer)) = b
<1>1. /\ Append(b, layer) \in Seq(Layers)
      /\ Len(Append(b, layer)) = Len(b) + 1
      /\ Append(b, layer)[Len(b) + 1] = layer
      /\ \A i \in 1 .. Len(b) : Append(b, layer)[i] = b[i]
  BY AppendProperties DEF IsBody
<1>2. Append(b, layer) # <<>>
  BY AppendProperties DEF IsBody
<1>3. Last(Append(b, layer)) = layer
  BY <1>1 DEF Last
<1>4. Front(Append(b, layer)) = SubSeq(Append(b, layer), 1, Len(b))
  BY <1>1 DEF Front, IsBody
<1>5. SubSeq(Append(b, layer), 1, Len(b)) = b
  BY <1>1 DEF IsBody
<1> QED
  BY <1>1, <1>2, <1>3, <1>4, <1>5 DEF IsBody

(***************************************************************************)
(* Every step of the glue is one of the algorithm, or none.  Only the      *)
(* length of identity, which is that of the body, needs an invariant.      *)
(***************************************************************************)
Bodies == IsBody(body) /\ IsBody(raw)

LEMMA StepSelects ==
    Bodies /\ [TransportNext]_transportVars => [SelectionNext]_selectionVars
<1> SUFFICES ASSUME Bodies, [TransportNext]_transportVars
             PROVE  [SelectionNext]_selectionVars
  OBVIOUS
<1>1. CASE NewNegotiator
  BY <1>1 DEF NewNegotiator, SelectionNext
<1>2. CASE DrainFails
  BY <1>2 DEF DrainFails
<1>3. CASE CompressRequestBody
  BY <1>3 DEF CompressRequestBody, SelectionNext
<1>4. CASE Compress
  <2>1. Length(raw) \in Sizes
    BY LengthOfBody DEF Bodies
  <2>2. CopyIdentity => Try
    BY <2>1 DEF CopyIdentity, Try
  <2> QED
    BY <1>4, <2>2 DEF Compress, SelectionNext
<1>5. CASE Rewrite
  BY <1>5 DEF Rewrite, SelectionNext
<1>6. CASE RewriteRefused
  BY <1>6 DEF RewriteRefused, SelectionNext
<1>7. CASE DecodeResponseBody
  BY <1>7 DEF DecodeResponseBody, SelectionNext
<1>8. CASE UNCHANGED transportVars
  BY <1>8 DEF transportVars
<1> QED
  BY <1>1, <1>2, <1>3, <1>4, <1>5, <1>6, <1>7, <1>8 DEF TransportNext

(***************************************************************************)
(* The strengthening: while a request is on its way its header names the   *)
(* last coding of its body, the winner, and no one received anything       *)
(* before there is a Negotiator.                                           *)
(***************************************************************************)
OnItsWay ==
    stage = "selected" =>
        /\ winner # NoName
        /\ body = Coded(winner)
        /\ header = contentEncoding(winner)

Silent == stage = "none" => received = Nothing

Labelled == Sorted /\ SmallestLossless /\ Bodies /\ OnItsWay /\ Silent

LEMMA InitLabelled == TransportInit => Labelled /\ PeerReconstructs
<1> SUFFICES ASSUME TransportInit PROVE Labelled /\ PeerReconstructs
  OBVIOUS
<1>1. Sorted /\ SmallestLossless
  BY InitSorted DEF TransportInit
<1>2. Layer(NoName, RawSize, "lossless") \in Layers
  BY TransportAssumption DEF Layer, Layers
<1>3. Bodies
  BY <1>2, SingleLayer DEF TransportInit, Bodies, Original
<1> QED
  BY <1>1, <1>3 DEF TransportInit, SelectionInit, Labelled, OnItsWay, Silent,
                    PeerReconstructs

(***************************************************************************)
(* What the winner is on the wire: the body itself, or a lossless layer    *)
(* with the name of its coding on top of it.                               *)
(***************************************************************************)
LEMMA CodedIsBody ==
    ASSUME Sorted, SmallestLossless, Bodies, winner # NoName
    PROVE  /\ IsBody(Coded(winner))
           /\ winner \in encoders
           /\ winner # Identity =>
                /\ Last(Coded(winner)).name = winner
                /\ Last(Coded(winner)).verdict = "lossless"
                /\ Front(Coded(winner)) = raw
<1>1. /\ winner \in DOMAIN candidates /\ winner \in encoders /\ winner \in Names
      /\ candidates[winner] \in Candidate
      /\ candidates[winner].verdict = "lossless"
  BY DEF Sorted, SelectionTypeOK, SmallestLossless, Eligible
<1> DEFINE layer == Layer(winner, candidates[winner].size, candidates[winner].verdict)
<1>2. layer \in Layers /\ layer.name = winner /\ layer.verdict = "lossless"
  BY <1>1, TransportAssumption DEF Layer, Layers, Candidate
<1> HIDE DEF layer
<1>3. winner # Identity => Coded(winner) = Append(raw, layer)
  BY DEF Coded, layer
<1>4. winner = Identity => Coded(winner) = raw
  BY DEF Coded
<1> QED
  BY <1>1, <1>2, <1>3, <1>4, LastOfAppend DEF Bodies

LEMMA DecodedIsRaw ==
    ASSUME Labelled, DecodeResponseBody
    PROVE  PeerReconstructs'
<1>1. /\ winner # NoName /\ body = Coded(winner)
      /\ header = contentEncoding(winner)
  BY DEF DecodeResponseBody, Return, Labelled, OnItsWay
<1>2. /\ winner \in encoders
      /\ winner # Identity =>
            /\ Last(body).name = winner
            /\ Last(body).verdict = "lossless"
            /\ Front(body) = raw
  BY <1>1, CodedIsBody DEF Labelled
<1>3. /\ received' = Decompress(peer', body, header)
      /\ peer' \subseteq Names
      /\ UNCHANGED <<raw, encoders>>
  BY DEF DecodeResponseBody, Return
<1>4. CASE winner = Identity
  <2>1. body = raw /\ header = NoHeader
    BY <1>1, <1>4 DEF Coded, contentEncoding
  <2>2. header \notin peer' \ {Identity}
    BY <1>3, <2>1, TransportAssumption
  <2>3. received' = raw
    BY <1>3, <2>1, <2>2 DEF Decompress
  <2> QED
    BY <1>3, <2>3 DEF PeerReconstructs
<1>5. CASE winner # Identity
  <2>1. header = winner /\ winner \in Names
    BY <1>1, <1>2, <1>5 DEF contentEncoding, Labelled, Sorted, SelectionTypeOK
  <2>2. header \notin {NoHeader, Identity}
    BY <1>5, <2>1, TransportAssumption
  <2>3. CASE winner \in peer'
    <3>1. received' = Undo(body, header)
      BY <1>3, <1>5, <2>1, <2>2, <2>3 DEF Decompress
    <3>2. Undo(body, header) = raw
      BY <1>2, <1>5, <2>1 DEF Undo
    <3> QED
      BY <1>3, <3>1, <3>2 DEF PeerReconstructs
  <2>4. CASE winner \notin peer'
    <3>1. received' = Unknown
      BY <1>3, <2>1, <2>2, <2>4 DEF Decompress
    <3> QED
      BY <1>2, <1>3, <2>4, <3>1 DEF PeerReconstructs
  <2> QED
    BY <2>3, <2>4
<1> QED
  BY <1>4, <1>5

(***************************************************************************)
(* The invariant and its theorems.                                         *)
(***************************************************************************)
LEMMA StepLabelled ==
    Labelled /\ PeerReconstructs /\ [TransportNext]_transportVars
        => (Labelled /\ PeerReconstructs)'
<1> SUFFICES ASSUME Labelled, PeerReconstructs, [TransportNext]_transportVars
             PROVE  (Labelled /\ PeerReconstructs)'
  OBVIOUS
<1>1. (Sorted /\ SmallestLossless)'
  BY StepSelects, StepSorted DEF Labelled
<1> SUFFICES (Bodies /\ OnItsWay /\ Silent /\ PeerReconstructs)'
  BY <1>1 DEF Labelled
<1> USE DEF Labelled
<1>2. ASSUME NEW len \in 0 .. MaxGiven,
             NEW given \in [1 .. len -> Names \cup {NoName}],
             NewSelectorRefused(given) \/ NewSelector(given), UNCHANGED httpVars
      PROVE  (Bodies /\ OnItsWay /\ Silent /\ PeerReconstructs)'
  <2>1. stage = "none" /\ stage' \in {"none", "ready"}
    BY <1>2 DEF NewSelectorRefused, NewSelector
  <2>2. received' = Nothing
    BY <1>2, <2>1 DEF httpVars, Silent
  <2> QED
    BY <1>2, <2>1, <2>2 DEF httpVars, Bodies, OnItsWay, Silent, PeerReconstructs
<1>3. IsBody(Drained)
  <2>1. Layer(NoName, 0, "lossless") \in Layers
    BY TransportAssumption DEF Layer, Layers
  <2> QED
    BY <2>1, SingleLayer DEF Drained
<1>4. CASE DrainFails
  BY <1>3, <1>4 DEF DrainFails, selectionVars, Bodies, OnItsWay, Silent, PeerReconstructs
<1>5. CASE CompressRequestBody
  BY <1>3, <1>5 DEF CompressRequestBody, Begin, Bodies, OnItsWay, Silent, PeerReconstructs
<1>6. CASE Compress
  <2>1. stage = "selecting" /\ UNCHANGED <<encoders, stage>>
    BY <1>6 DEF Compress, CopyIdentity, Try, EncodeFails, DecodeFails, Lossy, Smaller,
                NotSmaller, Tried
  <2> QED
    BY <1>6, <2>1 DEF Compress, httpVars, Bodies, OnItsWay, Silent, PeerReconstructs
<1>7. CASE Rewrite
  <2>1. /\ winner # NoName /\ stage' = "selected"
        /\ UNCHANGED <<encoders, candidates, winner, raw, received, peer>>
        /\ body' = Coded(winner) /\ header' = contentEncoding(winner)
    BY <1>7 DEF Rewrite, Selected
  <2>2. IsBody(Coded(winner))
    BY <2>1, CodedIsBody
  <2>3. Coded(winner)' = Coded(winner)
    BY <2>1 DEF Coded
  <2> QED
    BY <2>1, <2>2, <2>3 DEF Bodies, OnItsWay, Silent, PeerReconstructs, contentEncoding
<1>8. CASE RewriteRefused
  BY <1>8 DEF RewriteRefused, NoLossless, httpVars, Bodies, OnItsWay, Silent,
              PeerReconstructs
<1>9. CASE DecodeResponseBody
  BY <1>9, DecodedIsRaw DEF DecodeResponseBody, Return, Bodies, OnItsWay, Silent
<1>10. CASE UNCHANGED transportVars
  BY <1>10 DEF transportVars, selectionVars, httpVars, Bodies, OnItsWay, Silent,
               PeerReconstructs, Coded, contentEncoding
<1> QED
  BY <1>2, <1>4, <1>5, <1>6, <1>7, <1>8, <1>9, <1>10
  DEF TransportNext, NewNegotiator, Construct

\* Compress is the algorithm of Selector: whatever the HTTP glue does around
\* it, its steps are those of Selection (negotiate.go:172-225).
THEOREM ImplementsSelection == TransportSpec => SelectionSpec
<1>1. TransportInit => SelectionInit
  BY DEF TransportInit
<1>2. Labelled => Bodies
  BY DEF Labelled
<1> QED
  BY <1>1, <1>2, InitLabelled, StepLabelled, StepSelects, PTL
  DEF TransportSpec, SelectionSpec

\* Hence Compress settles on the smallest lossless coding of the body, identity
\* among them (negotiate.go:172-225).
THEOREM CompressesSmallest == TransportSpec => []SmallestLossless
  BY ImplementsSelection, SelectsSmallest, PTL

\* Whatever compressors both sides have, whatever they make of a body and
\* however often a request is compressed, the peer gets the bytes that were
\* compressed, or learns that it lacks the coding (http.go:26-82).
THEOREM PeerGetsTheBody == TransportSpec => []PeerReconstructs
  BY InitLabelled, StepLabelled, PTL DEF TransportSpec

=============================================================================
