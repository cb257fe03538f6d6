--------------------------- MODULE ArtifactStore ---------------------------
(***************************************************************************)
(* The file store under the keys of artifact.go: what is stored for a      *)
(* request is found under the key that the derivation gives it.            *)
(***************************************************************************)
EXTENDS FileStore, Artifact

Text == Seq(Nat)

(* The arguments that the types of Go allow: a map has finitely many keys. *)
WellFormed(request) ==
    \/ /\ request.kind = "web"
       /\ request = Web(request.url, request.etag)
       /\ request.url \in Text
       /\ request.etag \in Text
    \/ /\ request.kind = "tool"
       /\ request = Tool(request.tool, request.argv, request.head, request.inputs)
       /\ request.tool \in Text
       /\ request.argv \in Seq(Text)
       /\ request.head \in Text
       /\ IsFiniteSet(DOMAIN request.inputs)
       /\ DOMAIN request.inputs \subseteq Text
       /\ request.inputs \in [DOMAIN request.inputs -> Text]

ASSUME ArtifactStoreAssumption ==
    /\ \A r \in Requests : WellFormed(r) /\ KeysFor(r) = KeysOf(r)
    /\ \A r \in Population : WellFormed(r)
    /\ IsFiniteSet(Population)
    /\ None \notin Keys

(***************************************************************************)
(* Every request has one key of its own, whatever the order in which the   *)
(* map of its inputs is walked, and no page shares the key of a tool call, *)
(* though neither stream says which of the two it is (artifact.go:61-75,   *)
(* 157-162).  So two processes use one file exactly when they mean the     *)
(* same request.                                                           *)
(***************************************************************************)
KeysDistinct ==
    /\ KeysSound
    /\ Unstable = 0 /\ Shared = 0
    /\ \A p, q \in Processes : op[p].key = op[q].key <=> op[p].request = op[q].request

=============================================================================
