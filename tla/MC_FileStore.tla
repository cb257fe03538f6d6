---------------------------- MODULE MC_FileStore ----------------------------
(***************************************************************************)
(* Values for the constants of ArtifactStore: tool calls and pages that a  *)
(* careless concatenation would confuse.                                   *)
(***************************************************************************)
EXTENDS ArtifactStore, TLC

(* ab(c) and a(bc) over the same two inputs.                               *)
Inputs == (<<7>> :> <<1>>) @@ (<<8>> :> <<2>>)

Calls == {Tool(<<1, 2>>, <<<<3>>>>, <<4>>, Inputs),
          Tool(<<1>>, <<<<2, 3>>>>, <<4>>, Inputs)}

(* The strings over two bytes up to a length, and lists of them.           *)
Strings(n) == UNION {[1 .. m -> {0, 1}] : m \in 0 .. n}

Lists(S, n) == UNION {[1 .. m -> S] : m \in 0 .. n}

Maps(S, n) == UNION {[P -> S] : P \in {Q \in SUBSET S : Cardinality(Q) <= n}}

Everything ==
    {Tool(tool, argv, head, inputs) :
        tool \in Strings(1), argv \in Lists(Strings(1), 2), head \in Strings(1),
        inputs \in Maps(Strings(1), 2)}
    \cup {Web(url, etag) : url \in Strings(3), etag \in Strings(5)}

Entries == {<<1, 1>>, <<2, 2>>}

Interchangeable == Permutations(Processes) \cup Permutations(Inodes)

=============================================================================
