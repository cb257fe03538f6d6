------------------------------ MODULE Artifact ------------------------------
(***************************************************************************)
(* The keys of artifact.go.  A key is a digest of what writeField and      *)
(* writeUint64 write; the digest is taken to be injective, so a key is the *)
(* stream itself.  A stream is a sequence of numbers: the eight bytes of a *)
(* length are one of them, drawn from the same numbers as the bytes of a   *)
(* field, so that nothing but the order tells lengths and contents apart.  *)
(***************************************************************************)
EXTENDS Integers, Sequences, FiniteSets, SequencesExt

CONSTANT Population     \* the requests among which keys are compared

writeUint64(stream, n) == Append(stream, n)

\* Mutant of writeField: the fields are joined without their lengths.
writeFieldBare(stream, field) == stream \o field

writeField(stream, field) == writeUint64(stream, Len(field)) \o field

(* The order of strings: byte by byte, a prefix first.                     *)
StringLess(s, t) ==
    \/ IsStrictPrefix(s, t)
    \/ \E i \in 1 .. Len(s) :
          /\ i <= Len(t)
          /\ s[i] < t[i]
          /\ \A j \in 1 .. i - 1 : s[j] = t[j]

\* Mutant of SortStrings: the paths are hashed as the map yields them.
SortStringsNot(paths) == paths

SortStrings(paths) ==
    CHOOSE s \in SetToSeqs(ToSet(paths)) : \A i, j \in DOMAIN s : i < j => StringLess(s[i], s[j])

writeFields(stream, fields) ==
    LET after[n \in 0 .. Len(fields)] ==
            IF n = 0 THEN stream ELSE writeField(after[n - 1], fields[n])
    IN  after[Len(fields)]

(* iteration is the order in which the runtime happens to walk the map of  *)
(* the inputs, a new one at every call.                                    *)
ArtifactKey(tool, argv, head, inputs, iteration) ==
    LET paths == SortStrings(iteration)
        pairs == [n \in 1 .. 2 * Len(paths) |->
                     IF n % 2 = 1 THEN paths[(n + 1) \div 2] ELSE inputs[paths[n \div 2]]]
        named == writeField(<<>>, tool)
        called == writeFields(writeUint64(named, Len(argv)), argv)
        placed == writeUint64(writeField(called, head), Len(paths))
    IN  writeFields(placed, pairs)

ArtifactKeyWeb(url, etag) == writeField(writeField(<<>>, url), etag)

(***************************************************************************)
(* What a caller of GetOrComputeArtifact or InvalidateArtifact means: a    *)
(* tool call or a page.  The keys that the derivation may give it are one  *)
(* key when the order of iteration does not matter.                        *)
(***************************************************************************)
Tool(tool, argv, head, inputs) ==
    [kind |-> "tool", tool |-> tool, argv |-> argv, head |-> head, inputs |-> inputs]

Web(url, etag) == [kind |-> "web", url |-> url, etag |-> etag]

KeysOf(request) ==
    IF request.kind = "web" THEN {ArtifactKeyWeb(request.url, request.etag)}
    ELSE {ArtifactKey(request.tool, request.argv, request.head, request.inputs, it) :
             it \in SetToSeqs(DOMAIN request.inputs)}

Unstable == Cardinality({r \in Population : Cardinality(KeysOf(r)) # 1})

Shared == Cardinality(Population) - Cardinality(UNION {KeysOf(r) : r \in Population})

=============================================================================
