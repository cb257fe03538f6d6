----------------------------- MODULE Selection -----------------------------
(***************************************************************************)
(* Selector of pkg/wire/select.go: of the encoders that a consumer         *)
(* injects, the smallest encoding that decodes to the value it came from.  *)
(* An encoder is known by its name; what it makes of a value, and whether  *)
(* that decodes, is up to the consumer and chosen anew at every call.      *)
(*                                                                         *)
(* The slice of encoders is sorted by name and never written again: it is  *)
(* kept as a set, and the loop over it takes the least name not yet tried. *)
(***************************************************************************)
EXTENDS Integers, Sequences, SequencesExt

CONSTANTS
    Names,          \* the names of encoders, numbered in string order
    NoName,         \* the empty name
    Sizes,          \* the lengths of what an encoder may produce
    MaxGiven        \* bound: arguments of NewSelector

ASSUME SelectionAssumption ==
    /\ Names \subseteq Nat
    /\ NoName \notin Names
    /\ Sizes \subseteq Nat
    /\ MaxGiven \in Nat

(* A nil value, ErrNilValue, is left out.                                  *)
Errors == {"none", "ErrNoEncoders", "ErrEmptyEncoderName",
           "ErrDuplicateEncoderName", "ErrNoLosslessEncoder"}

Candidate == [size : Sizes \cup {0}, verdict : {"lossless", "lossy", "error"}]

VARIABLES
    encoders,       \* Selector.encoders
    stage,          \* "none", "ready", "selecting" or "selected"
    candidates,     \* what became of each encoder tried so far
    winner,         \* the encoder at winIdx
    err             \* how the last call ended

selectionVars == <<encoders, stage, candidates, winner, err>>

SelectionInit ==
    /\ encoders = {}
    /\ stage = "none"
    /\ candidates = <<>>
    /\ winner = NoName
    /\ err = "none"

(***************************************************************************)
(* NewSelector checks its arguments from the first to the last.            *)
(***************************************************************************)
Repeated(given, i) == \E j \in 1 .. i - 1 : given[j] = given[i]

Refused(given, i) == given[i] = NoName \/ Repeated(given, i)

Refusal(given) ==
    IF given = <<>> THEN "ErrNoEncoders"
    ELSE LET first == CHOOSE i \in DOMAIN given :
                        /\ Refused(given, i)
                        /\ \A j \in 1 .. i - 1 : ~ Refused(given, j)
         IN  IF given[first] = NoName THEN "ErrEmptyEncoderName"
                                      ELSE "ErrDuplicateEncoderName"

NewSelectorRefused(given) ==
    /\ stage = "none"
    /\ given = <<>> \/ \E i \in DOMAIN given : Refused(given, i)
    /\ err' = Refusal(given)
    /\ UNCHANGED <<encoders, stage, candidates, winner>>

NewSelector(given) ==
    /\ stage = "none"
    /\ given # <<>>
    /\ \A i \in DOMAIN given : ~ Refused(given, i)
    /\ encoders' = ToSet(given)
    /\ stage' = "ready"
    /\ err' = "none"
    /\ UNCHANGED <<candidates, winner>>

Begin ==
    /\ stage = "ready"
    /\ stage' = "selecting"
    /\ candidates' = <<>>
    /\ winner' = NoName
    /\ UNCHANGED <<encoders, err>>

(***************************************************************************)
(* The loop of Select.                                                     *)
(***************************************************************************)
Untried == encoders \ DOMAIN candidates

\* Mutant of Upcoming: the encoders are not sorted by name.
UpcomingLast == CHOOSE n \in Untried : \A m \in Untried : m <= n

Upcoming == CHOOSE n \in Untried : \A m \in Untried : n <= m

Tried(size, verdict) ==
    /\ stage = "selecting"
    /\ Untried # {}
    /\ candidates' = [n \in DOMAIN candidates \cup {Upcoming} |->
            IF n = Upcoming THEN [size |-> size, verdict |-> verdict]
                            ELSE candidates[n]]
    /\ UNCHANGED <<encoders, stage, err>>

EncodeFails == Tried(0, "error") /\ UNCHANGED winner

DecodeFails(size) == Tried(size, "error") /\ UNCHANGED winner

Lossy(size) == Tried(size, "lossy") /\ UNCHANGED winner

IsSmaller(size) == winner # NoName => size < candidates[winner].size

Smaller(size) ==
    /\ Tried(size, "lossless")
    /\ IsSmaller(size)
    /\ winner' = Upcoming

NotSmaller(size) ==
    /\ Tried(size, "lossless")
    /\ ~ IsSmaller(size)
    /\ UNCHANGED winner

Selected ==
    /\ stage = "selecting"
    /\ Untried = {}
    /\ winner # NoName
    /\ stage' = "selected"
    /\ err' = "none"
    /\ UNCHANGED <<encoders, candidates, winner>>

NoLossless ==
    /\ stage = "selecting"
    /\ Untried = {}
    /\ winner = NoName
    /\ stage' = "ready"
    /\ err' = "ErrNoLosslessEncoder"
    /\ UNCHANGED <<encoders, candidates, winner>>

Construct ==
    \E len \in 0 .. MaxGiven : \E given \in [1 .. len -> Names \cup {NoName}] :
        NewSelectorRefused(given) \/ NewSelector(given)

Try ==
    \/ EncodeFails
    \/ \E size \in Sizes :
            DecodeFails(size) \/ Lossy(size) \/ Smaller(size) \/ NotSmaller(size)

Return ==
    /\ stage = "selected"
    /\ stage' = "ready"
    /\ UNCHANGED <<encoders, candidates, winner, err>>

SelectionNext == Construct \/ Begin \/ Try \/ Selected \/ NoLossless \/ Return

SelectionSpec == SelectionInit /\ [][SelectionNext]_selectionVars

(***************************************************************************)
(* Properties.                                                             *)
(***************************************************************************)
SelectionTypeOK ==
    /\ encoders \subseteq Names
    /\ stage \in {"none", "ready", "selecting", "selected"}
    /\ DOMAIN candidates \subseteq encoders
    /\ \A n \in DOMAIN candidates : candidates[n] \in Candidate
    /\ winner \in DOMAIN candidates \cup {NoName}
    /\ err \in Errors

Eligible == {n \in DOMAIN candidates : candidates[n].verdict = "lossless"}

\* n is preferred to m: it is smaller or, at the same size, has the lesser name.
Preferred(n, m) ==
    \/ candidates[n].size < candidates[m].size
    \/ candidates[n].size = candidates[m].size /\ n <= m

\* Whatever the order in which encoders were given and however many of them
\* fail, the encoding selected so far is a lossless one, the smallest of all
\* lossless ones and the first by name of those (select.go:125-134, and for
\* compressors, identity among them, negotiate.go:155-160); there is none only
\* if no encoder is lossless.
SmallestLossless ==
    /\ winner = NoName <=> Eligible = {}
    /\ winner # NoName =>
            winner \in Eligible /\ \A n \in Eligible : Preferred(winner, n)
=============================================================================
