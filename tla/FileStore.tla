----------------------------- MODULE FileStore -----------------------------
(***************************************************************************)
(* FileStore of pkg/cache/filestore.go: a Store with one file per key, in  *)
(* a directory that several processes share without any lock.  A value is  *)
(* written to a temporary file, which is then renamed over the file of its *)
(* key; the steps are the system calls, and each may fail or be the last   *)
(* one of its process.                                                     *)
(*                                                                         *)
(* A file is an inode with its bytes; the directory and the open files     *)
(* refer to inodes, as on the file systems of the code, so a reader goes   *)
(* on with the file that it opened when another one takes its name.  The   *)
(* name of a file is a digest of its key, taken to be injective: the key.  *)
(* What a power failure leaves of a file that was never synced is left     *)
(* out: a crash is the death of a process.                                 *)
(***************************************************************************)
EXTENDS Integers, Sequences, FiniteSets

CONSTANTS
    Processes,      \* the goroutines and processes that share the directory
    Requests,       \* what values are stored for
    KeysFor(_),      \* the keys that the derivation may give a request
    Byte,           \* what files are made of
    Values,         \* the serialised entries
    Inodes,         \* the files that fit on the disk
    None,           \* no file, no value
    MaxStray        \* bound: files that nobody will ever remove

ASSUME FileStoreAssumption ==
    /\ Values \subseteq Seq(Byte) \ {<<>>}
    /\ None \notin Values \cup Inodes
    /\ None \notin Requests

Keys == UNION {KeysFor(r) : r \in Requests}

(* One key for every request, and none shared.                             *)
KeysSound ==
    /\ \A r \in Requests : \E k \in Keys : KeysFor(r) = {k}
    /\ \A r, s \in Requests : KeysFor(r) \cap KeysFor(s) # {} => r = s

VARIABLES
    dir,            \* the file of every key, None if it has none
    temp,           \* the files under a temporary name
    data,           \* the bytes of every file
    op,             \* the call of every process
    stray           \* history: temporary files left by a crash or a failed removal

fileVars == <<dir, temp, data, op, stray>>

(* fd is the file that the call has open, or is writing, got what it read, *)
(* answer and err what it returns.                                         *)
NoOp == [at |-> "idle", op |-> "none", request |-> None, key |-> None,
         value |-> None, fd |-> None, got |-> <<>>, answer |-> None, err |-> "nil"]

Init ==
    /\ dir = [k \in Keys |-> None]
    /\ temp = {}
    /\ data = [i \in Inodes |-> <<>>]
    /\ op = [p \in Processes |-> NoOp]
    /\ stray = {}

(***************************************************************************)
(* The calls: the file name is derived from the key before anything else.  *)
(***************************************************************************)
Starts(p, kind, at, value) ==
    /\ op[p] = NoOp
    /\ \E r \in Requests : \E k \in KeysFor(r) :
          op' = [op EXCEPT ![p] = [NoOp EXCEPT !.at = at, !.op = kind, !.request = r,
                                               !.key = k, !.value = value]]
    /\ UNCHANGED <<dir, temp, data, stray>>

Get(p) == Starts(p, "get", "open", None)

Set(p) == \E v \in Values : Starts(p, "set", "create", v)

Delete(p) == Starts(p, "delete", "remove", None)

(* The call is over, and has closed what it had open.                      *)
Ends(p, answer, err) ==
    op' = [op EXCEPT ![p].at = "done", ![p].fd = None, ![p].got = <<>>,
                     ![p].answer = answer, ![p].err = err]

(***************************************************************************)
(* Get: os.ReadFile opens the file and reads it to its end.                *)
(***************************************************************************)
OpenFound(p) ==
    /\ op[p].at = "open"
    /\ dir[op[p].key] # None
    /\ op' = [op EXCEPT ![p].at = "read", ![p].fd = dir[op[p].key]]
    /\ UNCHANGED <<dir, temp, data, stray>>

OpenAbsent(p) ==
    /\ op[p].at = "open"
    /\ dir[op[p].key] = None
    /\ Ends(p, None, "nil")
    /\ UNCHANGED <<dir, temp, data, stray>>

ReadFails(p) ==
    /\ op[p].at \in {"open", "read"}
    /\ Ends(p, None, "failed")
    /\ UNCHANGED <<dir, temp, data, stray>>

\* Mutant of Unread: one read of the file is taken for the whole.
UnreadOnce(p) == op[p].got = <<>>

Unread(p) == Len(op[p].got) < Len(data[op[p].fd])

Read(p) ==
    /\ op[p].at = "read"
    /\ Unread(p)
    /\ op' = [op EXCEPT ![p].got = Append(@, data[op[p].fd][Len(@) + 1])]
    /\ UNCHANGED <<dir, temp, data, stray>>

ReadEnd(p) ==
    /\ op[p].at = "read"
    /\ ~ Unread(p)
    /\ Ends(p, op[p].got, "nil")
    /\ UNCHANGED <<dir, temp, data, stray>>

(***************************************************************************)
(* Set: os.CreateTemp, Write, Close, Rename; whatever fails after the      *)
(* first removes the temporary file, and ignores whether that succeeds.    *)
(***************************************************************************)
Linked(i) == i \in temp \/ \E k \in Keys : dir[k] = i

Free(i) == ~ Linked(i) /\ \A q \in Processes : op[q].fd # i

\* Mutant of CreateTemp: the file of the key is written in place.
CreateInPlace(p) ==
    /\ op[p].at = "create"
    /\ \E i \in Inodes :
          /\ IF dir[op[p].key] = None THEN Free(i) ELSE i = dir[op[p].key]
          /\ dir' = [dir EXCEPT ![op[p].key] = i]
          /\ data' = [data EXCEPT ![i] = <<>>]
          /\ op' = [op EXCEPT ![p].at = "write", ![p].fd = i]
    /\ UNCHANGED <<temp, stray>>

CreateTemp(p) ==
    /\ op[p].at = "create"
    /\ \E i \in Inodes :
          /\ Free(i)
          /\ temp' = temp \cup {i}
          /\ data' = [data EXCEPT ![i] = <<>>]
          /\ op' = [op EXCEPT ![p].at = "write", ![p].fd = i]
    /\ UNCHANGED <<dir, stray>>

CreateFails(p) ==
    /\ op[p].at = "create"
    /\ Ends(p, None, "failed")
    /\ UNCHANGED <<dir, temp, data, stray>>

(* One system call may write less than it was given: byte by byte.         *)
Write(p) ==
    /\ op[p].at = "write"
    /\ LET i == op[p].fd
           written == Append(data[i], op[p].value[Len(data[i]) + 1])
       IN  /\ data' = [data EXCEPT ![i] = written]
           /\ op' = [op EXCEPT ![p].at = IF Len(written) = Len(op[p].value)
                                         THEN "close" ELSE "write"]
    /\ UNCHANGED <<dir, temp, stray>>

Close(p) ==
    /\ op[p].at = "close"
    /\ op' = [op EXCEPT ![p].at = "rename"]
    /\ UNCHANGED <<dir, temp, data, stray>>

Rename(p) ==
    /\ op[p].at = "rename"
    /\ dir' = [dir EXCEPT ![op[p].key] = op[p].fd]
    /\ temp' = temp \ {op[p].fd}
    /\ Ends(p, None, "nil")
    /\ UNCHANGED <<data, stray>>

\* Mutant of SetFails: the temporary file is forgotten.
SetFailsAndForgets(p) ==
    /\ op[p].at \in {"write", "close", "rename"}
    /\ Ends(p, None, "failed")
    /\ UNCHANGED <<dir, temp, data, stray>>

SetFails(p) ==
    /\ op[p].at \in {"write", "close", "rename"}
    /\ op' = [op EXCEPT ![p].at = "undo"]
    /\ UNCHANGED <<dir, temp, data, stray>>

RemoveTemp(p) ==
    /\ op[p].at = "undo"
    /\ temp' = temp \ {op[p].fd}
    /\ Ends(p, None, "failed")
    /\ UNCHANGED <<dir, data, stray>>

RemoveTempFails(p) ==
    /\ op[p].at = "undo"
    /\ Cardinality(stray) < MaxStray
    /\ stray' = stray \cup {op[p].fd}
    /\ Ends(p, None, "failed")
    /\ UNCHANGED <<dir, temp, data>>

(***************************************************************************)
(* Delete: os.Remove; a file that is not there is no error.                *)
(***************************************************************************)
Unlink(p) ==
    /\ op[p].at = "remove"
    /\ dir' = [dir EXCEPT ![op[p].key] = None]
    /\ Ends(p, None, "nil")
    /\ UNCHANGED <<temp, data, stray>>

UnlinkFails(p) ==
    /\ op[p].at = "remove"
    /\ Ends(p, None, "failed")
    /\ UNCHANGED <<dir, temp, data, stray>>

Return(p) ==
    /\ op[p].at = "done"
    /\ op' = [op EXCEPT ![p] = NoOp]
    /\ UNCHANGED <<dir, temp, data, stray>>

(* The process dies: its files are closed, its temporary file stays.       *)
Crash(p) ==
    /\ op[p].at \notin {"idle", "done"}
    /\ Cardinality(stray) < MaxStray
    /\ op' = [op EXCEPT ![p] = NoOp]
    /\ stray' = IF op[p].fd \in temp THEN stray \cup {op[p].fd} ELSE stray
    /\ UNCHANGED <<dir, temp, data>>

GetStep(p) == OpenFound(p) \/ OpenAbsent(p) \/ ReadFails(p) \/ Read(p) \/ ReadEnd(p)

SetStep(p) == CreateTemp(p) \/ CreateFails(p) \/ Write(p) \/ Close(p) \/ Rename(p)
              \/ SetFails(p) \/ RemoveTemp(p) \/ RemoveTempFails(p)

DeleteStep(p) == Unlink(p) \/ UnlinkFails(p)

Next == \E p \in Processes :
           \/ Get(p) \/ Set(p) \/ Delete(p)
           \/ GetStep(p) \/ SetStep(p) \/ DeleteStep(p)
           \/ Return(p) \/ Crash(p)

Spec == Init /\ [][Next]_fileVars

(***************************************************************************)
(* What callers see: the bytes of the file of a request, and a call that   *)
(* has taken effect from the moment it opened, renamed or removed a file.  *)
(***************************************************************************)
TheKey == [r \in Requests |-> CHOOSE k \in KeysFor(r) : TRUE]

Contents(r) == LET i == dir[TheKey[r]] IN IF i = None THEN None ELSE data[i]

Visible(p) ==
    [at |-> IF op[p].at \in {"read", "done"} THEN "done" ELSE "called",
     op |-> op[p].op, request |-> op[p].request, value |-> op[p].value,
     answer |-> IF op[p].at = "read" THEN data[op[p].fd] ELSE op[p].answer,
     err |-> op[p].err]

Store == INSTANCE AtomicStore WITH
            contents <- [r \in Requests |-> Contents(r)],
            calls <- [p \in Processes |-> Visible(p)]

-----------------------------------------------------------------------------
(* Type invariant.                                                         *)
Operation == [at : {"idle", "open", "read", "create", "write", "close", "rename", "undo",
                    "remove", "done"},
              op : {"none", "get", "set", "delete"},
              request : Requests \cup {None},
              key : Keys \cup {None},
              value : Values \cup {None},
              fd : Inodes \cup {None},
              got : Seq(Byte),
              answer : Values \cup {None},
              err : {"nil", "failed"}]

FileStoreTypeOK ==
    /\ dir \in [Keys -> Inodes \cup {None}]
    /\ temp \subseteq Inodes
    /\ data \in [Inodes -> Seq(Byte)]
    /\ op \in [Processes -> Operation]
    /\ stray \subseteq Inodes

(* The store is a Store (filestore.go:58-60, cache.go:66-84): whatever the *)
(* processes do at the same time, and wherever they fail or die, a Get     *)
(* returns a value that was stored for its own request, whole, the last    *)
(* one at some instant of the call; a Set or Delete that fails changes     *)
(* nothing that a Get returns.                                             *)
ImplementsStore == Store!Spec

(* A temporary file is being written by one Set, or was left by a crash or *)
(* by a removal that failed: a Set that fails or succeeds leaves none      *)
(* behind (filestore.go:69-83).                                            *)
TempsAccounted ==
    \A i \in temp \ stray :
       \E p \in Processes :
          /\ op[p].fd = i
          /\ op[p].at \in {"write", "close", "rename", "undo"}
          /\ \A q \in Processes \ {p} : op[q].fd # i

=============================================================================
