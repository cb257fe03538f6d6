---------------------------- MODULE AtomicStore ----------------------------
(***************************************************************************)
(* What a Store promises to a cache (cache.go, type Store), without saying *)
(* how: a call takes effect at one instant between its begin and its end,  *)
(* or fails, and a call that fails has no effect.  It is what the steps of *)
(* Cache that call the store take for granted.                             *)
(***************************************************************************)
CONSTANTS
    Processes,      \* whoever calls the store, one call at a time
    Requests,       \* what values are stored for
    Values,         \* the serialised entries
    None            \* no value

VARIABLES
    contents,       \* the value of every request, None if it has none
    calls           \* the call of every process

storeVars == <<contents, calls>>

Called(op, request, value) ==
    [at |-> "called", op |-> op, request |-> request, value |-> value,
     answer |-> None, err |-> "nil"]

NoCall == Called("none", None, None)

Init ==
    /\ contents = [r \in Requests |-> None]
    /\ calls = [p \in Processes |-> NoCall]

Begin(p) ==
    /\ calls[p] = NoCall
    /\ \E op \in {"get", "set", "delete"}, r \in Requests, v \in Values \cup {None} :
          calls' = [calls EXCEPT ![p] = Called(op, r, v)]
    /\ UNCHANGED contents

Ends(p, answer, err) ==
    calls' = [calls EXCEPT ![p] = [at |-> "done", op |-> @.op, request |-> @.request,
                                   value |-> @.value, answer |-> answer, err |-> err]]

Get(p) ==
    /\ calls[p].op = "get" /\ calls[p].at = "called"
    /\ Ends(p, contents[calls[p].request], "nil")
    /\ UNCHANGED contents

(* A Set leaves its value, a Delete leaves none.                           *)
Put(p) ==
    /\ calls[p].op \in {"set", "delete"} /\ calls[p].at = "called"
    /\ contents' = [contents EXCEPT ![calls[p].request] = calls[p].value]
    /\ Ends(p, None, "nil")

(* Only a Get may still fail when it has found its value.                  *)
Fail(p) ==
    /\ calls[p].op # "none"
    /\ calls[p].at = "done" => calls[p].op = "get"
    /\ Ends(p, None, "failed")
    /\ UNCHANGED contents

(* The call returns, or its process dies.                                  *)
Leave(p) ==
    /\ calls[p].op # "none"
    /\ calls' = [calls EXCEPT ![p] = NoCall]
    /\ UNCHANGED contents

Next == \E p \in Processes : Begin(p) \/ Get(p) \/ Put(p) \/ Fail(p) \/ Leave(p)

Spec == Init /\ [][Next]_storeVars

=============================================================================
