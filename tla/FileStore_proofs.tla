-------------------------- MODULE FileStore_proofs --------------------------
(***************************************************************************)
(* Theorems about FileStore, for any processes, requests, values and any   *)
(* number of files, and about the keys of Artifact, for any tool calls and *)
(* pages.                                                                  *)
(***************************************************************************)
EXTENDS ArtifactStore, FiniteSetTheorems, TLAPS

Writing == {"write", "close", "rename", "undo"}

Prefix(s, t) == Len(s) <= Len(t) /\ \A j \in 1 .. Len(s) : s[j] = t[j]

(***************************************************************************)
(* The strengthening.  Called relates the locals of a call to where it is; *)
(* Holds says what it has open: a writer a file of its own under a         *)
(* temporary name, with the beginning of its value, a reader a file that   *)
(* nobody writes any more.                                                 *)
(***************************************************************************)
Called(o) ==
    /\ o.at = "idle" => o = NoOp
    /\ o.at # "idle" => /\ o.op \in {"get", "set", "delete"}
                        /\ o.request \in Requests
                        /\ o.key \in KeysFor(o.request)
    /\ o.at \in {"open", "read"} => o.op = "get"
    /\ o.at = "open" => o.got = <<>>
    /\ o.at \in {"create"} \cup Writing => o.op = "set" /\ o.value \in Values
    /\ o.at = "remove" => o.op = "delete" /\ o.value = None
    /\ o.at # "done" => o.err = "nil"
    /\ o.fd # None <=> o.at \in {"read"} \cup Writing

Holds(o) ==
    /\ o.at \in Writing => o.fd \in temp \ stray
    /\ o.at = "write" => Len(data[o.fd]) < Len(o.value) /\ Prefix(data[o.fd], o.value)
    /\ o.at \in {"close", "rename"} => data[o.fd] = o.value
    /\ o.at = "read" => o.fd \notin temp /\ data[o.fd] \in Values /\ Prefix(o.got, data[o.fd])

Links == \A k \in Keys : dir[k] # None => dir[k] \notin temp /\ data[dir[k]] \in Values

Apart == \A p, q \in Processes :
            p # q /\ op[p].at \in Writing /\ op[q].at \in Writing => op[p].fd # op[q].fd

Consistent ==
    /\ FileStoreTypeOK
    /\ stray \subseteq temp
    /\ \A p \in Processes : Called(op[p]) /\ Holds(op[p])
    /\ Links
    /\ Apart

LEMMA NothingRead == <<>> \in Seq(Byte)
  OBVIOUS

LEMMA PrefixGrows ==
    ASSUME NEW s \in Seq(Byte), NEW t \in Seq(Byte), Prefix(s, t), Len(s) < Len(t)
    PROVE  LET longer == Append(s, t[Len(s) + 1])
           IN  longer \in Seq(Byte) /\ Len(longer) = Len(s) + 1 /\ Prefix(longer, t)
<1> DEFINE n == Len(s) + 1
           longer == Append(s, t[n])
<1>1. t[n] \in Byte /\ n \in 1 .. Len(t)
  OBVIOUS
<1>2. longer \in Seq(Byte) /\ Len(longer) = n /\ longer[n] = t[n]
  BY <1>1
<1>3. ASSUME NEW j \in 1 .. n PROVE longer[j] = t[j]
  <2>1. CASE j = n
    BY <1>2, <2>1
  <2>2. CASE j # n
    <3>1. j \in 1 .. Len(s)
      BY <2>2
    <3>2. longer[j] = s[j]
      BY <1>1, <3>1
    <3> QED
      BY <3>1, <3>2 DEF Prefix
  <2> QED
    BY <2>1, <2>2
<1> HIDE DEF longer
<1>4. Prefix(longer, t)
  BY <1>1, <1>2, <1>3 DEF Prefix
<1> QED
  BY <1>2, <1>4 DEF longer

LEMMA PrefixWhole ==
    ASSUME NEW s \in Seq(Byte), NEW t \in Seq(Byte), Prefix(s, t), Len(s) >= Len(t)
    PROVE  s = t
  BY DEF Prefix

LEMMA InitConsistent == Init => Consistent
<1> SUFFICES ASSUME Init PROVE Consistent
  OBVIOUS
<1>1. NoOp \in Operation
  BY DEF NoOp, Operation
<1>2. FileStoreTypeOK
  BY <1>1 DEF Init, FileStoreTypeOK
<1>3. ASSUME NEW p \in Processes PROVE op[p] = NoOp
  BY DEF Init
<1>4. Called(NoOp) /\ Holds(NoOp)
  BY DEF NoOp, Called, Holds, Writing
<1>5. Links
  BY DEF Init, Links
<1>6. Apart
  BY <1>3 DEF Apart, NoOp, Writing
<1> QED
  BY <1>2, <1>3, <1>4, <1>5, <1>6 DEF Consistent, Init

(***************************************************************************)
(* A step of p: it suffices that p's new call is consistent with the files *)
(* and that the files that the others have open are as they were.          *)
(***************************************************************************)
LEMMA StepConsistent ==
    ASSUME Consistent, NEW p \in Processes, NEW o \in Operation,
           op' = [op EXCEPT ![p] = o],
           dir' \in [Keys -> Inodes \cup {None}], temp' \subseteq Inodes,
           data' \in [Inodes -> Seq(Byte)], stray' \subseteq temp',
           Called(o), Holds(o)', Links',
           \A q \in Processes \ {p} :
              /\ op[q].at \in Writing => op[q].fd \in temp' \ stray'
              /\ op[q].at \in Writing /\ o.at \in Writing => op[q].fd # o.fd
              /\ op[q].at = "read" => op[q].fd \notin temp'
              /\ op[q].at \in {"read"} \cup Writing => data'[op[q].fd] = data[op[q].fd]
    PROVE  Consistent'
<1>1. op \in [Processes -> Operation]
  BY DEF Consistent, FileStoreTypeOK
<1>2. op'[p] = o /\ \A q \in Processes \ {p} : op'[q] = op[q]
  BY <1>1
<1>3. FileStoreTypeOK'
  BY <1>1 DEF FileStoreTypeOK
<1>4. ASSUME NEW q \in Processes PROVE Called(op'[q]) /\ Holds(op[q])'
  <2>1. CASE q = p
    BY <1>2, <2>1 DEF Called, Holds
  <2>2. CASE q # p
    <3>1. op'[q] = op[q] /\ Called(op[q]) /\ Holds(op[q])
      BY <1>2, <2>2 DEF Consistent
    <3>2. Holds(op[q])'
      BY <3>1, <2>2 DEF Holds, Writing
    <3> QED
      BY <3>1, <3>2
  <2> QED
    BY <2>1, <2>2
<1>5. Apart'
  BY <1>2 DEF Apart, Consistent
<1> QED
  BY <1>3, <1>4, <1>5 DEF Consistent, Called

(* A step of p that leaves the files alone.                                *)
LEMMA QuietStepConsistent ==
    ASSUME Consistent, NEW p \in Processes, NEW o \in Operation,
           op' = [op EXCEPT ![p] = o], UNCHANGED <<dir, temp, data, stray>>,
           Called(o), Holds(o),
           o.at \in Writing => op[p].at \in Writing /\ o.fd = op[p].fd
    PROVE  Consistent'
<1>1. /\ dir' \in [Keys -> Inodes \cup {None}]
      /\ data' \in [Inodes -> Seq(Byte)]
      /\ temp' \subseteq Inodes
      /\ stray' \subseteq temp'
  BY DEF Consistent, FileStoreTypeOK
<1>2. Holds(o)' /\ Links'
  BY DEF Consistent, Holds, Links
<1>3. ASSUME NEW q \in Processes \ {p}
      PROVE  /\ op[q].at \in Writing => op[q].fd \in temp' \ stray'
             /\ op[q].at \in Writing /\ o.at \in Writing => op[q].fd # o.fd
             /\ op[q].at = "read" => op[q].fd \notin temp'
             /\ op[q].at \in {"read"} \cup Writing => data'[op[q].fd] = data[op[q].fd]
  BY DEF Consistent, Holds, Apart
<1> QED
  BY <1>1, <1>2, <1>3, StepConsistent

(***************************************************************************)
(* The end of a call, which has nothing open any more.                     *)
(***************************************************************************)
Ended(o, answer, err) ==
    [o EXCEPT !.at = "done", !.fd = None, !.got = <<>>, !.answer = answer, !.err = err]

LEMMA EndedConsistent ==
    ASSUME Consistent, NEW p \in Processes, op[p].at # "idle",
           NEW answer \in Values \cup {None}, NEW err \in {"nil", "failed"}
    PROVE  /\ Ended(op[p], answer, err) \in Operation
           /\ Called(Ended(op[p], answer, err))
           /\ Ended(op[p], answer, err).at = "done"
<1>1. op[p] \in Operation /\ Called(op[p])
  BY DEF Consistent, FileStoreTypeOK
<1>2. Ended(op[p], answer, err) \in Operation
  BY <1>1, NothingRead DEF Ended, Operation
<1> QED
  BY <1>1, <1>2 DEF Ended, Operation, Called, Writing, NoOp

LEMMA QuietEndConsistent ==
    ASSUME Consistent, NEW p \in Processes, op[p].at # "idle",
           NEW answer \in Values \cup {None}, NEW err \in {"nil", "failed"},
           Ends(p, answer, err), UNCHANGED <<dir, temp, data, stray>>
    PROVE  Consistent'
<1>1. PICK o : o = Ended(op[p], answer, err)
  OBVIOUS
<1>2. op' = [op EXCEPT ![p] = o]
  BY <1>1 DEF Ends, Ended, Consistent, FileStoreTypeOK
<1>3. o \in Operation /\ Called(o) /\ o.at = "done"
  BY <1>1, EndedConsistent
<1>4. Holds(o)
  BY <1>3 DEF Holds, Writing
<1> QED
  BY <1>2, <1>3, <1>4, QuietStepConsistent DEF Writing

(***************************************************************************)
(* Every step keeps the calls and the files consistent.                    *)
(***************************************************************************)
LEMMA CallConsistent ==
    ASSUME Consistent, NEW p \in Processes, Get(p) \/ Set(p) \/ Delete(p)
    PROVE  Consistent'
<1>1. PICK kind \in {"get", "set", "delete"}, at \in {"open", "create", "remove"},
           value \in Values \cup {None} :
        /\ Starts(p, kind, at, value)
        /\ at = "open" => kind = "get"
        /\ at = "create" => kind = "set" /\ value \in Values
        /\ at = "remove" => kind = "delete" /\ value = None
  BY DEF Get, Set, Delete
<1>2. PICK r \in Requests : \E k \in KeysFor(r) :
        op' = [op EXCEPT ![p] = [NoOp EXCEPT !.at = at, !.op = kind, !.request = r,
                                             !.key = k, !.value = value]]
  BY <1>1 DEF Starts
<1>3. PICK k \in KeysFor(r) :
        op' = [op EXCEPT ![p] = [NoOp EXCEPT !.at = at, !.op = kind, !.request = r,
                                             !.key = k, !.value = value]]
  BY <1>2
<1>4. PICK o : o = [NoOp EXCEPT !.at = at, !.op = kind, !.request = r,
                                !.key = k, !.value = value]
  OBVIOUS
<1>5. k \in Keys
  BY DEF Keys
<1>6. o \in Operation
  BY <1>1, <1>4, <1>5, NothingRead DEF NoOp, Operation
<1>7. Called(o) /\ Holds(o) /\ o.at \notin Writing
  BY <1>1, <1>4 DEF NoOp, Called, Holds, Writing
<1>8. UNCHANGED <<dir, temp, data, stray>>
  BY <1>1 DEF Starts
<1> QED
  BY <1>3, <1>4, <1>6, <1>7, <1>8, QuietStepConsistent

(* What was read to the end is the whole file.                             *)
LEMMA WholeRead ==
    ASSUME Consistent, NEW p \in Processes, op[p].at = "read", ~ Unread(p)
    PROVE  op[p].got = data[op[p].fd]
<1>1. op[p] \in Operation /\ Called(op[p]) /\ Holds(op[p])
  BY DEF Consistent, FileStoreTypeOK
<1>2. op[p].fd \in Inodes /\ op[p].got \in Seq(Byte)
  BY <1>1 DEF Called, Operation
<1>3. data[op[p].fd] \in Seq(Byte)
  BY <1>2 DEF Consistent, FileStoreTypeOK
<1>4. Prefix(op[p].got, data[op[p].fd])
  BY <1>1 DEF Holds
<1> QED
  BY <1>2, <1>3, <1>4, PrefixWhole DEF Unread

LEMMA GetConsistent ==
    ASSUME Consistent, NEW p \in Processes, GetStep(p)
    PROVE  Consistent'
<1>1. op \in [Processes -> Operation] /\ op[p] \in Operation
  BY DEF Consistent, FileStoreTypeOK
<1>2. Called(op[p]) /\ Holds(op[p])
  BY DEF Consistent
<1>3. CASE OpenFound(p)
  <2>1. PICK o : o = [op[p] EXCEPT !.at = "read", !.fd = dir[op[p].key]]
    OBVIOUS
  <2>2. op' = [op EXCEPT ![p] = o] /\ UNCHANGED <<dir, temp, data, stray>>
    BY <1>1, <1>3, <2>1 DEF OpenFound
  <2>3. op[p].key \in Keys /\ op[p].at = "open" /\ dir[op[p].key] # None
    BY <1>2, <1>3 DEF OpenFound, Called, Keys
  <2>4. dir[op[p].key] \in Inodes
    BY <2>3 DEF Consistent, FileStoreTypeOK
  <2>5. o \in Operation
    BY <1>1, <2>1, <2>4 DEF Operation
  <2>6. Called(o)
    BY <1>1, <1>2, <2>1, <2>3 DEF Called, Operation, Writing, NoOp
  <2>7. o.at = "read" /\ o.fd = dir[op[p].key] /\ o.got = <<>>
    BY <1>1, <1>2, <2>1, <2>3 DEF Operation, Called
  <2>8. o.fd \notin temp /\ data[o.fd] \in Values
    BY <2>3, <2>7 DEF Consistent, Links
  <2>9. data[o.fd] \in Seq(Byte)
    BY <2>4, <2>7 DEF Consistent, FileStoreTypeOK
  <2>10. Holds(o) /\ o.at \notin Writing
    BY <2>7, <2>8, <2>9 DEF Holds, Prefix, Writing
  <2> QED
    BY <2>2, <2>5, <2>6, <2>10, QuietStepConsistent
<1>4. CASE OpenAbsent(p)
  BY <1>4, QuietEndConsistent DEF OpenAbsent
<1>5. CASE ReadFails(p)
  BY <1>5, QuietEndConsistent DEF ReadFails
<1>6. CASE Read(p)
  <2> DEFINE file == data[op[p].fd]
             got == op[p].got
  <2>1. PICK o : o = [op[p] EXCEPT !.got = Append(got, file[Len(got) + 1])]
    OBVIOUS
  <2>2. op' = [op EXCEPT ![p] = o] /\ UNCHANGED <<dir, temp, data, stray>>
    BY <1>1, <1>6, <2>1 DEF Read
  <2>3. op[p].at = "read" /\ op[p].fd \in Inodes /\ Len(got) < Len(file)
    BY <1>1, <1>2, <1>6 DEF Read, Unread, Called, Operation
  <2>4. file \in Seq(Byte) /\ got \in Seq(Byte)
    BY <1>1, <2>3 DEF Consistent, FileStoreTypeOK, Operation
  <2>5. file \in Values /\ op[p].fd \notin temp /\ Prefix(got, file)
    BY <1>2, <2>3 DEF Holds
  <2>6. PICK longer : longer = Append(got, file[Len(got) + 1])
    OBVIOUS
  <2>7. longer \in Seq(Byte) /\ Prefix(longer, file)
    BY <2>3, <2>4, <2>5, <2>6, PrefixGrows
  <2>8. /\ o \in Operation
        /\ o.at = "read" /\ o.fd = op[p].fd /\ o.got = longer
    BY <1>1, <2>1, <2>3, <2>6, <2>7 DEF Operation
  <2>9. Called(o)
    BY <1>1, <1>2, <2>1, <2>3 DEF Called, Operation, Writing, NoOp
  <2>10. Holds(o) /\ o.at \notin Writing
    BY <2>5, <2>7, <2>8 DEF Holds, Writing
  <2> QED
    BY <2>2, <2>8, <2>9, <2>10, QuietStepConsistent
<1>7. CASE ReadEnd(p)
  <2>1. op[p].at = "read" /\ op[p].fd \in Inodes
    BY <1>1, <1>2, <1>7 DEF ReadEnd, Called, Operation
  <2>2. op[p].got = data[op[p].fd] /\ data[op[p].fd] \in Values
    BY <1>1, <1>2, <1>7, <2>1, WholeRead DEF ReadEnd, Holds
  <2> QED
    BY <1>7, <2>1, <2>2, QuietEndConsistent DEF ReadEnd
<1> QED
  BY <1>3, <1>4, <1>5, <1>6, <1>7 DEF GetStep

(* The file that a Set fills is its own.                                   *)
LEMMA CreateConsistent ==
    ASSUME Consistent, NEW p \in Processes, CreateTemp(p)
    PROVE  Consistent'
<1>1. op \in [Processes -> Operation] /\ op[p] \in Operation
  BY DEF Consistent, FileStoreTypeOK
<1>2. PICK i \in Inodes :
        /\ Free(i)
        /\ temp' = temp \cup {i}
        /\ data' = [data EXCEPT ![i] = <<>>]
        /\ op' = [op EXCEPT ![p].at = "write", ![p].fd = i]
  BY DEF CreateTemp
<1>3. PICK o : o = [op[p] EXCEPT !.at = "write", !.fd = i]
  OBVIOUS
<1>4. op' = [op EXCEPT ![p] = o] /\ dir' = dir /\ stray' = stray
  BY <1>1, <1>2, <1>3 DEF CreateTemp
<1>5. op[p].at = "create" /\ Called(op[p])
  BY DEF CreateTemp, Consistent
<1>6. /\ o \in Operation
      /\ o.at = "write" /\ o.fd = i /\ o.value \in Values
  BY <1>1, <1>3, <1>5 DEF Operation, Called
<1>7. Called(o)
  BY <1>1, <1>3, <1>5, FileStoreAssumption DEF Called, Operation, Writing, NoOp
<1>8. i \notin temp /\ (\A k \in Keys : dir[k] # i) /\ \A q \in Processes : op[q].fd # i
  BY <1>2 DEF Free, Linked
<1>9. /\ temp' \subseteq Inodes
      /\ data' \in [Inodes -> Seq(Byte)]
      /\ data'[i] = <<>>
      /\ \A j \in Inodes \ {i} : data'[j] = data[j]
      /\ dir' \in [Keys -> Inodes \cup {None}]
      /\ stray' \subseteq temp'
  BY <1>2, <1>4, NothingRead DEF Consistent, FileStoreTypeOK
<1>10. Holds(o)'
  <2>1. Len(data'[i]) < Len(o.value) /\ Prefix(data'[i], o.value)
    BY <1>6, <1>9, FileStoreAssumption DEF Prefix
  <2>2. i \in temp' \ stray'
    BY <1>2, <1>4, <1>8 DEF Consistent
  <2> QED
    BY <1>6, <2>1, <2>2 DEF Holds, Writing
<1>11. Links'
  <2> SUFFICES ASSUME NEW k \in Keys, dir[k] # None
               PROVE  dir[k] \notin temp' /\ data'[dir[k]] \in Values
    BY <1>4 DEF Links
  <2>1. dir[k] \in Inodes \ {i}
    BY <1>8 DEF Consistent, FileStoreTypeOK
  <2> QED
    BY <1>2, <1>9, <2>1 DEF Consistent, Links
<1>12. ASSUME NEW q \in Processes \ {p}
       PROVE  /\ op[q].at \in Writing => op[q].fd \in temp' \ stray'
              /\ op[q].at \in Writing /\ o.at \in Writing => op[q].fd # o.fd
              /\ op[q].at = "read" => op[q].fd \notin temp'
              /\ op[q].at \in {"read"} \cup Writing => data'[op[q].fd] = data[op[q].fd]
  <2>1. Called(op[q]) /\ Holds(op[q]) /\ op[q] \in Operation
    BY DEF Consistent, FileStoreTypeOK
  <2>2. op[q].at \in {"read"} \cup Writing => op[q].fd \in Inodes \ {i}
    BY <1>8, <2>1 DEF Called, Operation
  <2> QED
    BY <1>2, <1>4, <1>6, <1>8, <1>9, <2>1, <2>2 DEF Holds, Writing
<1> QED
  BY <1>4, <1>6, <1>7, <1>9, <1>10, <1>11, <1>12, StepConsistent

LEMMA WriteConsistent ==
    ASSUME Consistent, NEW p \in Processes, Write(p)
    PROVE  Consistent'
<1> DEFINE i == op[p].fd
           value == op[p].value
           at == IF Len(data[i]) + 1 = Len(value) THEN "close" ELSE "write"
<1>1. op \in [Processes -> Operation] /\ op[p] \in Operation
  BY DEF Consistent, FileStoreTypeOK
<1>2. Called(op[p]) /\ Holds(op[p]) /\ op[p].at = "write"
  BY DEF Consistent, Write
<1>3. i \in Inodes /\ value \in Values /\ i \in temp \ stray
  BY <1>1, <1>2 DEF Called, Holds, Operation, Writing
<1>4. /\ data \in [Inodes -> Seq(Byte)] /\ data[i] \in Seq(Byte)
      /\ value \in Seq(Byte)
      /\ Len(data[i]) < Len(value) /\ Prefix(data[i], value)
  BY <1>2, <1>3, FileStoreAssumption DEF Consistent, FileStoreTypeOK, Holds
<1>5. PICK written : written = Append(data[i], value[Len(data[i]) + 1])
  OBVIOUS
<1>6. /\ written \in Seq(Byte) /\ Len(written) = Len(data[i]) + 1
      /\ Prefix(written, value)
  BY <1>4, <1>5, PrefixGrows
<1>7. Len(written) = Len(value) => written = value
  BY <1>4, <1>6, PrefixWhole
<1>8. data' = [data EXCEPT ![i] = written] /\ UNCHANGED <<dir, temp, stray>>
  BY <1>5 DEF Write
<1>9. PICK o : o = [op[p] EXCEPT !.at = at]
  OBVIOUS
<1>10. op' = [op EXCEPT ![p] = o]
  BY <1>1, <1>5, <1>6, <1>9 DEF Write
<1>11. /\ o \in Operation /\ o.at = at /\ at \in {"write", "close"}
       /\ o.fd = i /\ o.value = value
  BY <1>1, <1>9 DEF Operation
<1>12. Called(o)
  BY <1>1, <1>2, <1>9 DEF Called, Operation, Writing, NoOp
<1>13. data' \in [Inodes -> Seq(Byte)] /\ data'[i] = written
       /\ \A j \in Inodes \ {i} : data'[j] = data[j]
  BY <1>3, <1>4, <1>6, <1>8
<1>14. Holds(o)'
  <2>1. at = "write" => Len(written) < Len(value)
    BY <1>4, <1>6
  <2>2. at = "close" => written = value
    BY <1>6, <1>7
  <2> QED
    BY <1>3, <1>6, <1>8, <1>11, <1>13, <2>1, <2>2 DEF Holds, Writing
<1>15. Links'
  <2> SUFFICES ASSUME NEW k \in Keys, dir[k] # None
               PROVE  dir[k] \notin temp /\ data'[dir[k]] \in Values
    BY <1>8 DEF Links
  <2>1. dir[k] \in Inodes /\ dir[k] \notin temp
    BY DEF Consistent, FileStoreTypeOK, Links
  <2> QED
    BY <1>3, <1>13, <2>1 DEF Consistent, Links
<1>16. ASSUME NEW q \in Processes \ {p}
       PROVE  /\ op[q].at \in Writing => op[q].fd \in temp' \ stray'
              /\ op[q].at \in Writing /\ o.at \in Writing => op[q].fd # o.fd
              /\ op[q].at = "read" => op[q].fd \notin temp'
              /\ op[q].at \in {"read"} \cup Writing => data'[op[q].fd] = data[op[q].fd]
  <2>1. Called(op[q]) /\ Holds(op[q]) /\ op[q] \in Operation
    BY DEF Consistent, FileStoreTypeOK
  <2>2. op[q].at \in {"read"} \cup Writing => op[q].fd \in Inodes
    BY <2>1 DEF Called, Operation
  <2>3. op[q].at \in Writing => op[q].fd # i
    BY <1>2 DEF Consistent, Apart, Writing
  <2>4. op[q].at = "read" => op[q].fd # i
    BY <1>3, <2>1 DEF Holds
  <2> QED
    BY <1>8, <1>11, <1>13, <2>1, <2>2, <2>3, <2>4 DEF Holds
<1>17. /\ dir' \in [Keys -> Inodes \cup {None}]
       /\ temp' \subseteq Inodes /\ stray' \subseteq temp'
  BY <1>8 DEF Consistent, FileStoreTypeOK
<1> QED
  BY <1>10, <1>11, <1>12, <1>13, <1>14, <1>15, <1>16, <1>17, StepConsistent

LEMMA RenameConsistent ==
    ASSUME Consistent, NEW p \in Processes, Rename(p)
    PROVE  Consistent'
<1> DEFINE i == op[p].fd
           key == op[p].key
<1>1. op \in [Processes -> Operation] /\ op[p] \in Operation
  BY DEF Consistent, FileStoreTypeOK
<1>2. Called(op[p]) /\ Holds(op[p]) /\ op[p].at = "rename"
  BY DEF Consistent, Rename
<1>3. i \in Inodes /\ i \in temp \ stray /\ data[i] \in Values /\ key \in Keys
  BY <1>1, <1>2 DEF Called, Holds, Operation, Writing, Keys
<1>4. PICK o : o = Ended(op[p], None, "nil")
  OBVIOUS
<1>5. op' = [op EXCEPT ![p] = o]
  BY <1>1, <1>4 DEF Rename, Ends, Ended
<1>6. o \in Operation /\ Called(o) /\ o.at = "done"
  BY <1>2, <1>4, EndedConsistent
<1>7. /\ dir' = [dir EXCEPT ![key] = i]
      /\ temp' = temp \ {i}
      /\ data' = data /\ stray' = stray
  BY DEF Rename
<1>8. /\ dir' \in [Keys -> Inodes \cup {None}]
      /\ temp' \subseteq Inodes
      /\ data' \in [Inodes -> Seq(Byte)]
      /\ stray' \subseteq temp'
  BY <1>3, <1>7 DEF Consistent, FileStoreTypeOK
<1>9. Holds(o)'
  BY <1>6 DEF Holds, Writing
<1>10. Links'
  <2> SUFFICES ASSUME NEW k \in Keys, dir'[k] # None
               PROVE  dir'[k] \notin temp' /\ data'[dir'[k]] \in Values
    BY DEF Links
  <2>1. CASE k = key
    BY <1>3, <1>7, <2>1 DEF Consistent, FileStoreTypeOK
  <2>2. CASE k # key
    <3>1. dir'[k] = dir[k]
      BY <1>7, <2>2 DEF Consistent, FileStoreTypeOK
    <3> QED
      BY <1>7, <3>1 DEF Consistent, Links
  <2> QED
    BY <2>1, <2>2
<1>11. ASSUME NEW q \in Processes \ {p}
       PROVE  /\ op[q].at \in Writing => op[q].fd \in temp' \ stray'
              /\ op[q].at \in Writing /\ o.at \in Writing => op[q].fd # o.fd
              /\ op[q].at = "read" => op[q].fd \notin temp'
              /\ op[q].at \in {"read"} \cup Writing => data'[op[q].fd] = data[op[q].fd]
  <2>1. Holds(op[q])
    BY DEF Consistent
  <2>2. op[q].at \in Writing => op[q].fd # i
    BY <1>2 DEF Consistent, Apart, Writing
  <2> QED
    BY <1>6, <1>7, <2>1, <2>2 DEF Holds, Writing
<1> QED
  BY <1>5, <1>6, <1>8, <1>9, <1>10, <1>11, StepConsistent

(* A Set that fails removes its temporary file, or leaves it as a stray.   *)
LEMMA UndoConsistent ==
    ASSUME Consistent, NEW p \in Processes, RemoveTemp(p) \/ RemoveTempFails(p)
    PROVE  Consistent'
<1> DEFINE i == op[p].fd
<1>1. op \in [Processes -> Operation] /\ op[p] \in Operation
  BY DEF Consistent, FileStoreTypeOK
<1>2. Called(op[p]) /\ Holds(op[p]) /\ op[p].at = "undo"
  BY DEF Consistent, RemoveTemp, RemoveTempFails
<1>3. i \in Inodes /\ i \in temp \ stray
  BY <1>1, <1>2 DEF Called, Holds, Operation, Writing
<1>4. PICK o : o = Ended(op[p], None, "failed")
  OBVIOUS
<1>5. op' = [op EXCEPT ![p] = o]
  BY <1>1, <1>4 DEF RemoveTemp, RemoveTempFails, Ends, Ended
<1>6. o \in Operation /\ Called(o) /\ o.at = "done"
  BY <1>2, <1>4, EndedConsistent
<1>7. /\ dir' = dir /\ data' = data
      /\ \/ temp' = temp \ {i} /\ stray' = stray
         \/ temp' = temp /\ stray' = stray \cup {i}
  BY DEF RemoveTemp, RemoveTempFails
<1>8. /\ dir' \in [Keys -> Inodes \cup {None}]
      /\ temp' \subseteq Inodes
      /\ data' \in [Inodes -> Seq(Byte)]
      /\ stray' \subseteq temp'
  BY <1>3, <1>7 DEF Consistent, FileStoreTypeOK
<1>9. Holds(o)' /\ Links'
  BY <1>6, <1>7 DEF Holds, Writing, Links, Consistent
<1>10. ASSUME NEW q \in Processes \ {p}
       PROVE  /\ op[q].at \in Writing => op[q].fd \in temp' \ stray'
              /\ op[q].at \in Writing /\ o.at \in Writing => op[q].fd # o.fd
              /\ op[q].at = "read" => op[q].fd \notin temp'
              /\ op[q].at \in {"read"} \cup Writing => data'[op[q].fd] = data[op[q].fd]
  <2>1. Holds(op[q])
    BY DEF Consistent
  <2>2. op[q].at \in Writing => op[q].fd # i
    BY <1>2 DEF Consistent, Apart, Writing
  <2> QED
    BY <1>6, <1>7, <2>1, <2>2 DEF Holds, Writing
<1> QED
  BY <1>5, <1>6, <1>8, <1>9, <1>10, StepConsistent

LEMMA SetConsistent ==
    ASSUME Consistent, NEW p \in Processes, SetStep(p)
    PROVE  Consistent'
<1>1. op \in [Processes -> Operation] /\ op[p] \in Operation
  BY DEF Consistent, FileStoreTypeOK
<1>2. Called(op[p]) /\ Holds(op[p])
  BY DEF Consistent
<1>3. CASE CreateFails(p)
  BY <1>3, QuietEndConsistent DEF CreateFails
<1>4. CASE Close(p) \/ SetFails(p)
  <2>1. PICK at : at = IF Close(p) THEN "rename" ELSE "undo"
    OBVIOUS
  <2>2. PICK o : o = [op[p] EXCEPT !.at = at]
    OBVIOUS
  <2>3. op' = [op EXCEPT ![p] = o] /\ UNCHANGED <<dir, temp, data, stray>>
    BY <1>4, <2>1, <2>2 DEF Close, SetFails
  <2>4. op[p].at \in Writing /\ at \in {"rename", "undo"}
        /\ (at = "rename" => op[p].at = "close")
    BY <1>4, <2>1 DEF Close, SetFails, Writing
  <2>5. o \in Operation /\ o.at = at /\ o.fd = op[p].fd /\ o.value = op[p].value
    BY <1>1, <2>2, <2>4 DEF Operation
  <2>6. Called(o)
    BY <1>1, <1>2, <2>2, <2>4 DEF Called, Operation, Writing, NoOp
  <2>7. Holds(o)
    BY <1>2, <2>4, <2>5 DEF Holds, Writing
  <2> QED
    BY <2>3, <2>4, <2>5, <2>6, <2>7, QuietStepConsistent
<1> QED
  BY <1>3, <1>4, CreateConsistent, WriteConsistent, RenameConsistent, UndoConsistent
     DEF SetStep

LEMMA DeleteConsistent ==
    ASSUME Consistent, NEW p \in Processes, DeleteStep(p)
    PROVE  Consistent'
<1>1. CASE UnlinkFails(p)
  BY <1>1, QuietEndConsistent DEF UnlinkFails
<1>2. CASE Unlink(p)
  <2>1. op \in [Processes -> Operation] /\ op[p].at = "remove"
    BY <1>2 DEF Consistent, FileStoreTypeOK, Unlink
  <2>2. PICK o : o = Ended(op[p], None, "nil")
    OBVIOUS
  <2>3. op' = [op EXCEPT ![p] = o] /\ UNCHANGED <<temp, data, stray>>
    BY <1>2, <2>1, <2>2 DEF Unlink, Ends, Ended
  <2>4. o \in Operation /\ Called(o) /\ o.at = "done"
    BY <2>1, <2>2, EndedConsistent
  <2>5. /\ dir' \in [Keys -> Inodes \cup {None}]
        /\ \A k \in Keys : dir'[k] \in {dir[k], None}
    BY <1>2 DEF Unlink, Consistent, FileStoreTypeOK
  <2>6. /\ temp' \subseteq Inodes
        /\ data' \in [Inodes -> Seq(Byte)]
        /\ stray' \subseteq temp'
    BY <2>3 DEF Consistent, FileStoreTypeOK
  <2>7. Holds(o)' /\ Links'
    BY <2>3, <2>4, <2>5 DEF Holds, Writing, Links, Consistent
  <2>8. ASSUME NEW q \in Processes \ {p}
        PROVE  /\ op[q].at \in Writing => op[q].fd \in temp' \ stray'
               /\ op[q].at \in Writing /\ o.at \in Writing => op[q].fd # o.fd
               /\ op[q].at = "read" => op[q].fd \notin temp'
               /\ op[q].at \in {"read"} \cup Writing => data'[op[q].fd] = data[op[q].fd]
    BY <2>3, <2>4 DEF Holds, Writing, Consistent
  <2> QED
    BY <2>3, <2>4, <2>5, <2>6, <2>7, <2>8, StepConsistent
<1> QED
  BY <1>1, <1>2 DEF DeleteStep

(* The call returns, or its process dies.                                  *)
LEMMA LeaveConsistent ==
    ASSUME Consistent, NEW p \in Processes, Return(p) \/ Crash(p)
    PROVE  Consistent'
<1>1. op \in [Processes -> Operation]
  BY DEF Consistent, FileStoreTypeOK
<1>2. op' = [op EXCEPT ![p] = NoOp] /\ UNCHANGED <<dir, temp, data>>
  BY DEF Return, Crash
<1>3. NoOp \in Operation /\ Called(NoOp) /\ Holds(NoOp)' /\ NoOp.at = "idle"
  BY DEF NoOp, Operation, Called, Holds, Writing
<1>4. \/ stray' = stray
      \/ stray' = stray \cup {op[p].fd} /\ op[p].fd \in temp
  BY DEF Return, Crash
<1>5. /\ dir' \in [Keys -> Inodes \cup {None}]
      /\ temp' \subseteq Inodes
      /\ data' \in [Inodes -> Seq(Byte)]
      /\ stray' \subseteq temp'
      /\ Links'
  BY <1>2, <1>4 DEF Consistent, FileStoreTypeOK, Links
<1>6. ASSUME NEW q \in Processes \ {p}
      PROVE  /\ op[q].at \in Writing => op[q].fd \in temp' \ stray'
             /\ op[q].at \in Writing /\ NoOp.at \in Writing => op[q].fd # NoOp.fd
             /\ op[q].at = "read" => op[q].fd \notin temp'
             /\ op[q].at \in {"read"} \cup Writing => data'[op[q].fd] = data[op[q].fd]
  <2>1. Called(op[p]) /\ Holds(op[p]) /\ Holds(op[q])
    BY DEF Consistent
  <2>2. op[p].fd \in temp => op[p].at \in Writing
    BY <2>1, FileStoreAssumption DEF Called, Holds, Consistent, FileStoreTypeOK
  <2>3. op[q].at \in Writing /\ op[p].at \in Writing => op[q].fd # op[p].fd
    BY DEF Consistent, Apart
  <2> QED
    BY <1>2, <1>3, <1>4, <2>1, <2>2, <2>3 DEF Holds, Writing
<1> QED
  BY <1>1, <1>2, <1>3, <1>5, <1>6, StepConsistent

LEMMA NextConsistent == Consistent /\ [Next]_fileVars => Consistent'
<1> SUFFICES ASSUME Consistent, [Next]_fileVars PROVE Consistent'
  OBVIOUS
<1>1. CASE UNCHANGED fileVars
  BY <1>1 DEF fileVars, Consistent, FileStoreTypeOK, Holds, Links, Apart
<1>2. CASE Next
  BY <1>2, CallConsistent, GetConsistent, SetConsistent, DeleteConsistent, LeaveConsistent
     DEF Next
<1> QED
  BY <1>1, <1>2

THEOREM AlwaysConsistent == Spec => []Consistent
  BY InitConsistent, NextConsistent, PTL DEF Spec

(***************************************************************************)
(* The calls and the files stay in their types; in particular a Get only   *)
(* ever answers with a whole value.                                        *)
(***************************************************************************)
THEOREM TypeCorrect == Spec => []FileStoreTypeOK
<1>1. Consistent => FileStoreTypeOK
  BY DEF Consistent
<1> QED
  BY <1>1, AlwaysConsistent, PTL

(***************************************************************************)
(* Temporary files are accounted for.                                      *)
(***************************************************************************)
Owned == \A i \in temp \ stray : \E p \in Processes : op[p].fd = i /\ op[p].at \in Writing

LEMMA StepOwned ==
    ASSUME Owned, NEW p \in Processes,
           \A q \in Processes \ {p} : op'[q] = op[q],
           \A i \in temp' \ stray' :
              i \in temp \ stray \/ (op'[p].fd = i /\ op'[p].at \in Writing),
           op[p].at \in Writing /\ op[p].fd \in temp' \ stray' =>
              op'[p].at \in Writing /\ op'[p].fd = op[p].fd
    PROVE  Owned'
<1> SUFFICES ASSUME NEW i \in temp' \ stray'
             PROVE  \E q \in Processes : op'[q].fd = i /\ op'[q].at \in Writing
  BY DEF Owned
<1>1. CASE op'[p].fd = i /\ op'[p].at \in Writing
  BY <1>1
<1>2. CASE i \in temp \ stray /\ ~ (op'[p].fd = i /\ op'[p].at \in Writing)
  <2>1. PICK q \in Processes : op[q].fd = i /\ op[q].at \in Writing
    BY <1>2 DEF Owned
  <2>2. q # p
    BY <1>2, <2>1
  <2> QED
    BY <2>1, <2>2
<1> QED
  BY <1>1, <1>2

LEMMA NextOwned == Consistent /\ Owned /\ [Next]_fileVars => Owned'
<1> SUFFICES ASSUME Consistent, Owned, [Next]_fileVars PROVE Owned'
  OBVIOUS
<1>1. op \in [Processes -> Operation]
  BY DEF Consistent, FileStoreTypeOK
<1>2. CASE UNCHANGED fileVars
  BY <1>2 DEF fileVars, Owned
<1>3. ASSUME NEW p \in Processes, Get(p) \/ Set(p) \/ Delete(p) PROVE Owned'
  <2>1. PICK kind, at, value : Starts(p, kind, at, value)
    BY <1>3 DEF Get, Set, Delete
  <2>2. op[p] = NoOp /\ UNCHANGED <<temp, stray>>
        /\ \A q \in Processes \ {p} : op'[q] = op[q]
    BY <1>1, <2>1 DEF Starts
  <2>3. op[p].at = "idle"
    BY <2>2 DEF NoOp
  <2> QED
    BY <2>2, <2>3, StepOwned DEF Writing
<1>4. ASSUME NEW p \in Processes, GetStep(p) PROVE Owned'
  <2>1. op[p].at \in {"open", "read"} /\ UNCHANGED <<temp, stray>>
        /\ \A q \in Processes \ {p} : op'[q] = op[q]
    BY <1>1, <1>4 DEF GetStep, OpenFound, OpenAbsent, ReadFails, Read, ReadEnd, Ends
  <2> QED
    BY <2>1, StepOwned DEF Writing
<1>5. ASSUME NEW p \in Processes, DeleteStep(p) PROVE Owned'
  <2>1. op[p].at = "remove" /\ UNCHANGED <<temp, stray>>
        /\ \A q \in Processes \ {p} : op'[q] = op[q]
    BY <1>1, <1>5 DEF DeleteStep, Unlink, UnlinkFails, Ends
  <2> QED
    BY <2>1, StepOwned DEF Writing
<1>6. ASSUME NEW p \in Processes, SetStep(p) PROVE Owned'
  <2>1. op[p] \in Operation
    BY <1>1
  <2>2. CASE CreateTemp(p)
    <3>1. PICK i \in Inodes : /\ temp' = temp \cup {i} /\ stray' = stray
                              /\ op' = [op EXCEPT ![p].at = "write", ![p].fd = i]
      BY <2>2 DEF CreateTemp
    <3>2. op[p].at = "create" /\ op'[p].at = "write" /\ op'[p].fd = i
          /\ \A q \in Processes \ {p} : op'[q] = op[q]
      BY <1>1, <2>1, <2>2, <3>1 DEF CreateTemp, Operation
    <3> QED
      BY <3>1, <3>2, StepOwned DEF Writing
  <2>3. CASE CreateFails(p)
    <3>1. op[p].at = "create" /\ UNCHANGED <<temp, stray>>
          /\ \A q \in Processes \ {p} : op'[q] = op[q]
      BY <1>1, <2>3 DEF CreateFails, Ends
    <3> QED
      BY <3>1, StepOwned DEF Writing
  <2>4. CASE Write(p) \/ Close(p) \/ SetFails(p)
    <3>1. /\ op'[p].at \in Writing /\ op'[p].fd = op[p].fd
          /\ UNCHANGED <<temp, stray>>
          /\ \A q \in Processes \ {p} : op'[q] = op[q]
      BY <1>1, <2>1, <2>4 DEF Write, Close, SetFails, Operation, Writing
    <3> QED
      BY <3>1, StepOwned
  <2>5. CASE Rename(p) \/ RemoveTemp(p) \/ RemoveTempFails(p)
    <3>1. /\ temp' \ stray' = (temp \ stray) \ {op[p].fd}
          /\ \A q \in Processes \ {p} : op'[q] = op[q]
      BY <1>1, <2>5 DEF Rename, RemoveTemp, RemoveTempFails, Ends
    <3> QED
      BY <3>1, StepOwned
  <2> QED
    BY <1>6, <2>2, <2>3, <2>4, <2>5 DEF SetStep
<1>7. ASSUME NEW p \in Processes, Return(p) PROVE Owned'
  <2>1. op[p].at = "done" /\ UNCHANGED <<temp, stray>>
        /\ \A q \in Processes \ {p} : op'[q] = op[q]
    BY <1>1, <1>7 DEF Return
  <2> QED
    BY <2>1, StepOwned DEF Writing
<1>8. ASSUME NEW p \in Processes, Crash(p) PROVE Owned'
  <2>1. /\ temp' = temp /\ stray \subseteq stray'
        /\ op[p].fd \in temp => op[p].fd \in stray'
        /\ \A q \in Processes \ {p} : op'[q] = op[q]
    BY <1>1, <1>8 DEF Crash
  <2> QED
    BY <2>1, StepOwned
<1> QED
  BY <1>2, <1>3, <1>4, <1>5, <1>6, <1>7, <1>8 DEF Next

(***************************************************************************)
(* No Set leaves a temporary file behind, whatever fails, but by a crash   *)
(* or a removal that fails.                                                *)
(***************************************************************************)
THEOREM NoTempForgotten == Spec => []TempsAccounted
<1>1. Init => Owned
  BY DEF Init, Owned
<1>2. Consistent /\ Owned => TempsAccounted
  <2> SUFFICES ASSUME Consistent, Owned, NEW i \in temp \ stray
               PROVE  \E p \in Processes :
                         /\ op[p].fd = i
                         /\ op[p].at \in Writing
                         /\ \A q \in Processes \ {p} : op[q].fd # i
    BY DEF TempsAccounted, Writing
  <2>1. PICK p \in Processes : op[p].fd = i /\ op[p].at \in Writing
    BY DEF Owned
  <2>2. ASSUME NEW q \in Processes \ {p}, op[q].fd = i PROVE FALSE
    <3>1. Called(op[q]) /\ Holds(op[q]) /\ i \in Inodes
      BY DEF Consistent, FileStoreTypeOK
    <3>2. op[q].at \in {"read"} \cup Writing
      BY <2>2, <3>1, FileStoreAssumption DEF Called
    <3>3. op[q].at \in Writing
      BY <2>2, <3>1, <3>2 DEF Holds
    <3> QED
      BY <2>1, <2>2, <3>3 DEF Consistent, Apart
  <2> QED
    BY <2>1, <2>2
<1> QED
  BY <1>1, <1>2, NextOwned, AlwaysConsistent, PTL DEF Spec

-----------------------------------------------------------------------------
(***************************************************************************)
(* The refinement.  A request has a key of its own, so that the file of    *)
(* its key is its contents.                                                *)
(***************************************************************************)
LEMMA KeyOfRequest ==
    ASSUME KeysSound, NEW r \in Requests
    PROVE  /\ TheKey[r] \in Keys
           /\ KeysFor(r) = {TheKey[r]}
           /\ \A s \in Requests : TheKey[s] = TheKey[r] => s = r
<1>1. ASSUME NEW s \in Requests
      PROVE  KeysFor(s) = {TheKey[s]} /\ TheKey[s] \in Keys
  <2>1. PICK k \in Keys : KeysFor(s) = {k}
    BY DEF KeysSound
  <2> QED
    BY <2>1 DEF TheKey
<1>2. ASSUME NEW s \in Requests, TheKey[s] = TheKey[r] PROVE s = r
  <2>1. KeysFor(r) \cap KeysFor(s) # {}
    BY <1>1, <1>2
  <2> QED
    BY <2>1 DEF KeysSound
<1> QED
  BY <1>1, <1>2

LEMMA InitRefines == KeysSound /\ Init => Store!Init
<1> SUFFICES ASSUME KeysSound, Init PROVE Store!Init
  OBVIOUS
<1>1. ASSUME NEW r \in Requests PROVE Contents(r) = None
  BY KeyOfRequest DEF Init, Contents
<1>2. ASSUME NEW p \in Processes PROVE Visible(p) = Store!NoCall
  <2>1. op[p] = NoOp
    BY DEF Init
  <2> QED
    BY <2>1 DEF Visible, NoOp, Store!NoCall, Store!Called
<1> QED
  BY <1>1, <1>2 DEF Store!Init

(***************************************************************************)
(* A step of p is seen by nobody else: a file that is read is not written. *)
(***************************************************************************)
Unseen(p) ==
    \A q \in Processes \ {p} :
       /\ op'[q] = op[q]
       /\ op[q].at = "read" => data'[op[q].fd] = data[op[q].fd]

LEMMA StepSeen ==
    ASSUME Consistent, NEW p \in Processes, Unseen(p)
    PROVE  \A q \in Processes \ {p} : Visible(q)' = Visible(q)
  BY DEF Unseen, Visible

LEMMA QuietUnseen ==
    ASSUME Consistent, NEW p \in Processes, NEW o, op' = [op EXCEPT ![p] = o], data' = data
    PROVE  Unseen(p) /\ op'[p] = o
  BY DEF Unseen, Consistent, FileStoreTypeOK

(* What every process sees of the contents is the same.                    *)
LEMMA ContentsKept ==
    ASSUME KeysSound, Consistent, dir' = dir,
           \A i \in Inodes \ temp : data'[i] = data[i] \/ ~ Linked(i)
    PROVE  \A r \in Requests : Contents(r)' = Contents(r)
<1> SUFFICES ASSUME NEW r \in Requests PROVE Contents(r)' = Contents(r)
  OBVIOUS
<1>1. TheKey[r] \in Keys /\ TheKey' = TheKey
  BY KeyOfRequest DEF TheKey
<1>2. CASE dir[TheKey[r]] = None
  BY <1>1, <1>2 DEF Contents
<1>3. CASE dir[TheKey[r]] # None
  <2>1. dir[TheKey[r]] \in Inodes \ temp /\ Linked(dir[TheKey[r]])
    BY <1>1, <1>3 DEF Consistent, FileStoreTypeOK, Links, Linked
  <2> QED
    BY <1>1, <1>3, <2>1 DEF Contents
<1> QED
  BY <1>2, <1>3

LEMMA Stutters ==
    ASSUME \A r \in Requests : Contents(r)' = Contents(r),
           \A q \in Processes : Visible(q)' = Visible(q)
    PROVE  UNCHANGED Store!storeVars
  BY DEF Store!storeVars

LEMMA SeenEnd ==
    ASSUME Consistent, NEW p \in Processes, Unseen(p), NEW answer, NEW err,
           Visible(p)' = [at |-> "done", op |-> Visible(p).op, request |-> Visible(p).request,
                          value |-> Visible(p).value, answer |-> answer, err |-> err]
    PROVE  Store!Ends(p, answer, err)
<1>1. \A q \in Processes \ {p} : Visible(q)' = Visible(q)
  BY StepSeen
<1> QED
  BY <1>1 DEF Store!Ends

(* The end of a call is the end of the abstract one.                       *)
LEMMA EndRefines ==
    ASSUME Consistent, NEW p \in Processes, Unseen(p),
           NEW answer \in Values \cup {None}, NEW err \in {"nil", "failed"}, Ends(p, answer, err)
    PROVE  Store!Ends(p, answer, err)
<1>1. op \in [Processes -> Operation] /\ op[p] \in Operation
  BY DEF Consistent, FileStoreTypeOK
<1>2. op'[p] = Ended(op[p], answer, err)
  BY <1>1 DEF Ends, Ended
<1>3. Visible(p)' = [at |-> "done", op |-> Visible(p).op, request |-> Visible(p).request,
                     value |-> Visible(p).value, answer |-> answer, err |-> err]
  <2>1. /\ op'[p].op = op[p].op /\ op'[p].request = op[p].request /\ op'[p].value = op[p].value
        /\ op'[p].at = "done" /\ op'[p].answer = answer /\ op'[p].err = err
    BY <1>1, <1>2 DEF Ended, Operation
  <2> QED
    BY <2>1 DEF Visible
<1> QED
  BY <1>3, SeenEnd

LEMMA EndUnseen ==
    ASSUME Consistent, NEW p \in Processes, data' = data,
           NEW answer, NEW err, Ends(p, answer, err)
    PROVE  Unseen(p)
  BY DEF Ends, Unseen, Consistent, FileStoreTypeOK

(* A call that fails.                                                      *)
LEMMA FailRefines ==
    ASSUME KeysSound, Consistent, NEW p \in Processes, Ends(p, None, "failed"),
           dir' = dir, data' = data,
           op[p].at \notin {"idle", "done"}
    PROVE  Store!Fail(p)
<1>1. op[p] \in Operation /\ Called(op[p])
  BY DEF Consistent, FileStoreTypeOK
<1>2. Store!Ends(p, None, "failed")
  BY EndUnseen, EndRefines
<1>3. \A r \in Requests : Contents(r)' = Contents(r)
  BY ContentsKept
<1>4. Visible(p).op # "none" /\ (Visible(p).at = "done" => Visible(p).op = "get")
  BY <1>1 DEF Visible, Called
<1> QED
  BY <1>2, <1>3, <1>4 DEF Store!Fail

(***************************************************************************)
(* What the steps of each call do to the abstract store.                   *)
(***************************************************************************)
LEMMA CallRefines ==
    ASSUME KeysSound, Consistent, NEW p \in Processes, Get(p) \/ Set(p) \/ Delete(p)
    PROVE  Store!Begin(p)
<1>1. PICK kind \in {"get", "set", "delete"}, at \in {"open", "create", "remove"},
           value \in Values \cup {None} : Starts(p, kind, at, value)
  BY DEF Get, Set, Delete
<1>2. PICK r \in Requests : \E k \in KeysFor(r) :
        op' = [op EXCEPT ![p] = [NoOp EXCEPT !.at = at, !.op = kind, !.request = r,
                                             !.key = k, !.value = value]]
  BY <1>1 DEF Starts
<1>3. PICK k \in KeysFor(r) :
        op' = [op EXCEPT ![p] = [NoOp EXCEPT !.at = at, !.op = kind, !.request = r,
                                             !.key = k, !.value = value]]
  BY <1>2
<1>4. op[p] = NoOp /\ UNCHANGED <<dir, data>>
  BY <1>1 DEF Starts
<1>5. Unseen(p) /\ op'[p] = [NoOp EXCEPT !.at = at, !.op = kind, !.request = r,
                                         !.key = k, !.value = value]
  BY <1>3, <1>4, QuietUnseen
<1>6. Visible(p) = Store!NoCall
  BY <1>4 DEF Visible, NoOp, Store!NoCall, Store!Called
<1>7. Visible(p)' = Store!Called(kind, r, value)
  <2>1. /\ op'[p].op = kind /\ op'[p].request = r /\ op'[p].value = value
        /\ op'[p].at = at /\ op'[p].answer = None /\ op'[p].err = "nil"
    BY <1>5 DEF NoOp
  <2> QED
    BY <2>1 DEF Visible, Store!Called
<1>8. \A q \in Processes \ {p} : Visible(q)' = Visible(q)
  BY <1>5, StepSeen
<1>9. \A s \in Requests : Contents(s)' = Contents(s)
  BY <1>4, ContentsKept
<1> QED
  BY <1>6, <1>7, <1>8, <1>9 DEF Store!Begin

(* A step of p that nobody sees.                                           *)
LEMMA StutterRefines ==
    ASSUME KeysSound, Consistent, NEW p \in Processes, Unseen(p), dir' = dir,
           \A i \in Inodes \ temp : data'[i] = data[i] \/ ~ Linked(i),
           Visible(p)' = Visible(p)
    PROVE  UNCHANGED Store!storeVars
  BY ContentsKept, StepSeen, Stutters

LEMMA AbstractGet ==
    ASSUME KeysSound, Consistent, NEW p \in Processes, op[p].at = "open",
           UNCHANGED <<dir, data>>, Store!Ends(p, Contents(op[p].request), "nil")
    PROVE  Store!Get(p)
<1>1. op[p].op = "get" /\ op[p].request \in Requests
  BY DEF Consistent, Called
<1>2. \A r \in Requests : Contents(r)' = Contents(r)
  BY ContentsKept
<1>3. Visible(p).op = "get" /\ Visible(p).at = "called"
      /\ Visible(p).request = op[p].request
  BY <1>1 DEF Visible
<1> QED
  BY <1>1, <1>2, <1>3 DEF Store!Get

LEMMA GetRefines ==
    ASSUME KeysSound, Consistent, NEW p \in Processes, GetStep(p)
    PROVE  Store!Get(p) \/ Store!Fail(p) \/ UNCHANGED Store!storeVars
<1>1. op \in [Processes -> Operation] /\ op[p] \in Operation /\ Called(op[p])
  BY DEF Consistent, FileStoreTypeOK
<1>2. op[p].at = "open" => Contents(op[p].request) = IF dir[op[p].key] = None
                                                    THEN None ELSE data[dir[op[p].key]]
  <2> SUFFICES ASSUME op[p].at = "open"
               PROVE  op[p].request \in Requests /\ op[p].key = TheKey[op[p].request]
    BY DEF Contents
  <2>1. op[p].request \in Requests /\ op[p].key \in KeysFor(op[p].request)
    BY <1>1 DEF Called
  <2> QED
    BY <2>1, KeyOfRequest
<1>3. CASE OpenFound(p)
  <2>1. op[p].at = "open" /\ dir[op[p].key] # None /\ UNCHANGED <<dir, data>>
    BY <1>3 DEF OpenFound
  <2>2. PICK o : o = [op[p] EXCEPT !.at = "read", !.fd = dir[op[p].key]]
    OBVIOUS
  <2>3. op' = [op EXCEPT ![p] = o]
    BY <1>1, <1>3, <2>2 DEF OpenFound
  <2>4. Unseen(p) /\ op'[p] = o
    BY <2>1, <2>3, QuietUnseen
  <2>5. /\ op'[p].at = "read" /\ op'[p].fd = dir[op[p].key] /\ op'[p].err = "nil"
        /\ op'[p].op = op[p].op /\ op'[p].request = op[p].request
        /\ op'[p].value = op[p].value
    BY <1>1, <2>1, <2>2, <2>4 DEF Operation, Called
  <2>6. data'[op'[p].fd] = Contents(op[p].request)
    BY <1>2, <2>1, <2>5
  <2>7. Store!Ends(p, Contents(op[p].request), "nil")
    BY <2>4, <2>5, <2>6, SeenEnd DEF Visible
  <2> QED
    BY <2>1, <2>7, AbstractGet
<1>4. CASE OpenAbsent(p)
  <2>1. op[p].at = "open" /\ dir[op[p].key] = None /\ UNCHANGED <<dir, data>>
        /\ Ends(p, None, "nil")
    BY <1>4 DEF OpenAbsent
  <2>2. Store!Ends(p, None, "nil")
    BY <2>1, EndUnseen, EndRefines
  <2> QED
    BY <1>2, <2>1, <2>2, AbstractGet
<1>5. CASE ReadFails(p)
  BY <1>5, FailRefines DEF ReadFails
<1>6. CASE Read(p)
  <2>1. PICK o : o = [op[p] EXCEPT !.got = Append(op[p].got, data[op[p].fd][Len(op[p].got) + 1])]
    OBVIOUS
  <2>2. op' = [op EXCEPT ![p] = o] /\ UNCHANGED <<dir, data>> /\ op[p].at = "read"
    BY <1>1, <1>6, <2>1 DEF Read
  <2>3. Unseen(p) /\ op'[p] = o
    BY <2>2, QuietUnseen
  <2>4. /\ op'[p].at = op[p].at /\ op'[p].fd = op[p].fd /\ op'[p].err = op[p].err
        /\ op'[p].op = op[p].op /\ op'[p].request = op[p].request
        /\ op'[p].value = op[p].value
    BY <1>1, <2>1, <2>3 DEF Operation
  <2>5. Visible(p)' = Visible(p)
    BY <2>2, <2>4 DEF Visible
  <2> QED
    BY <2>2, <2>3, <2>5, StutterRefines
<1>7. CASE ReadEnd(p)
  <2>1. op[p].at = "read" /\ ~ Unread(p) /\ UNCHANGED <<dir, data>>
        /\ Ends(p, op[p].got, "nil")
    BY <1>7 DEF ReadEnd
  <2>2. op[p].got = data[op[p].fd] /\ op[p].err = "nil"
    BY <1>1, <2>1, WholeRead DEF Called
  <2>3. op'[p] = Ended(op[p], op[p].got, "nil")
    BY <1>1, <2>1 DEF Ends, Ended
  <2>4. /\ op'[p].at = "done" /\ op'[p].answer = op[p].got /\ op'[p].err = "nil"
        /\ op'[p].op = op[p].op /\ op'[p].request = op[p].request
        /\ op'[p].value = op[p].value
    BY <1>1, <2>3 DEF Ended, Operation
  <2>5. Visible(p)' = Visible(p)
    BY <2>1, <2>2, <2>4 DEF Visible
  <2>6. Unseen(p)
    BY <2>1, EndUnseen
  <2> QED
    BY <2>1, <2>5, <2>6, StutterRefines
<1> QED
  BY <1>3, <1>4, <1>5, <1>6, <1>7 DEF GetStep

(* The file of a key, once renamed or removed, is the value of the request *)
(* of that key and of no other.                                            *)
LEMMA AbstractPut ==
    ASSUME KeysSound, Consistent, NEW p \in Processes, op[p].at \in {"rename", "remove"},
           NEW i \in Inodes \cup {None}, dir' = [dir EXCEPT ![op[p].key] = i], data' = data,
           op[p].value = IF i = None THEN None ELSE data[i], Ends(p, None, "nil")
    PROVE  Store!Put(p)
<1>1. op[p] \in Operation /\ Called(op[p]) /\ dir \in [Keys -> Inodes \cup {None}]
  BY DEF Consistent, FileStoreTypeOK
<1>2. /\ op[p].request \in Requests /\ op[p].key \in KeysFor(op[p].request)
      /\ op[p].op \in {"set", "delete"}
  BY <1>1 DEF Called, Writing
<1>3. op[p].key = TheKey[op[p].request]
  BY <1>2, KeyOfRequest
<1>4. Store!Ends(p, None, "nil")
  BY EndUnseen, EndRefines
<1>5. ASSUME NEW r \in Requests
      PROVE  Contents(r)' = IF r = op[p].request THEN op[p].value ELSE Contents(r)
  <2>1. TheKey[r] \in Keys /\ TheKey' = TheKey
        /\ (TheKey[r] = TheKey[op[p].request] => r = op[p].request)
    BY <1>2, KeyOfRequest DEF TheKey
  <2>2. CASE r = op[p].request
    <3>1. dir'[TheKey[r]] = i
      BY <1>1, <1>3, <2>1, <2>2
    <3> QED
      BY <2>1, <2>2, <3>1 DEF Contents
  <2>3. CASE r # op[p].request
    <3>1. dir'[TheKey[r]] = dir[TheKey[r]]
      BY <1>1, <1>3, <2>1, <2>3
    <3> QED
      BY <2>1, <2>3, <3>1 DEF Contents
  <2> QED
    BY <2>2, <2>3
<1>6. /\ Visible(p).op \in {"set", "delete"} /\ Visible(p).at = "called"
      /\ Visible(p).request = op[p].request /\ Visible(p).value = op[p].value
  BY <1>2 DEF Visible
<1> QED
  BY <1>2, <1>4, <1>5, <1>6 DEF Store!Put

LEMMA SetRefines ==
    ASSUME KeysSound, Consistent, NEW p \in Processes, SetStep(p)
    PROVE  Store!Put(p) \/ Store!Fail(p) \/ UNCHANGED Store!storeVars
<1>1. op \in [Processes -> Operation] /\ op[p] \in Operation
  BY DEF Consistent, FileStoreTypeOK
<1>2. Called(op[p]) /\ Holds(op[p])
  BY DEF Consistent
<1>3. CASE CreateFails(p)
  BY <1>3, FailRefines DEF CreateFails
<1>4. CASE RemoveTemp(p) \/ RemoveTempFails(p)
  BY <1>4, FailRefines DEF RemoveTemp, RemoveTempFails
<1>5. CASE Rename(p)
  <2>1. op[p].at = "rename" /\ op[p].fd \in Inodes /\ op[p].value = data[op[p].fd]
    BY <1>1, <1>2, <1>5 DEF Rename, Called, Holds, Operation, Writing
  <2> QED
    BY <1>5, <2>1, AbstractPut, FileStoreAssumption DEF Rename
<1>6. ASSUME NEW o, op' = [op EXCEPT ![p] = o], dir' = dir,
             o.at \in {"write", "close", "rename", "undo"},
             op[p].at \in {"create", "write", "close", "rename"},
             o.op = op[p].op, o.request = op[p].request, o.value = op[p].value,
             o.answer = op[p].answer, o.err = op[p].err,
             \A q \in Processes \ {p} :
                op[q].at = "read" => data'[op[q].fd] = data[op[q].fd],
             \A i \in Inodes \ temp : data'[i] = data[i] \/ ~ Linked(i)
      PROVE  UNCHANGED Store!storeVars
  <2>1. op'[p] = o /\ Unseen(p)
    BY <1>1, <1>6 DEF Unseen
  <2>2. Visible(p)' = Visible(p)
    BY <1>6, <2>1 DEF Visible
  <2> QED
    BY <1>6, <2>1, <2>2, StutterRefines
<1>7. \A q \in Processes \ {p} :
         op[q].at = "read" => op[q].fd \in Inodes \ temp
  <2> SUFFICES ASSUME NEW q \in Processes \ {p}, op[q].at = "read"
               PROVE  op[q].fd \in Inodes \ temp
    OBVIOUS
  <2>1. op[q] \in Operation /\ Called(op[q]) /\ Holds(op[q])
    BY DEF Consistent, FileStoreTypeOK
  <2> QED
    BY <2>1 DEF Called, Holds, Operation
<1>8. CASE CreateTemp(p)
  <2>1. PICK i \in Inodes : Free(i) /\ data' = [data EXCEPT ![i] = <<>>]
                            /\ op' = [op EXCEPT ![p].at = "write", ![p].fd = i]
    BY <1>8 DEF CreateTemp
  <2>2. PICK o : o = [op[p] EXCEPT !.at = "write", !.fd = i]
    OBVIOUS
  <2>3. op' = [op EXCEPT ![p] = o] /\ dir' = dir /\ op[p].at = "create"
    BY <1>1, <1>8, <2>1, <2>2 DEF CreateTemp
  <2>4. /\ o.at = "write" /\ o.op = op[p].op /\ o.request = op[p].request
        /\ o.value = op[p].value /\ o.answer = op[p].answer /\ o.err = op[p].err
    BY <1>1, <2>2 DEF Operation
  <2>5. \A j \in Inodes : data'[j] = data[j] \/ j = i
    BY <2>1 DEF Consistent, FileStoreTypeOK
  <2>6. ~ Linked(i) /\ \A q \in Processes : op[q].fd # i
    BY <2>1 DEF Free
  <2> QED
    BY <1>6, <1>7, <2>3, <2>4, <2>5, <2>6
<1>9. CASE Write(p)
  <2> DEFINE i == op[p].fd
             at == IF Len(data'[i]) = Len(op[p].value) THEN "close" ELSE "write"
  <2>1. op[p].at = "write" /\ i \in Inodes /\ i \in temp
    BY <1>1, <1>2, <1>9 DEF Write, Called, Holds, Operation, Writing
  <2>2. PICK written : written = Append(data[i], op[p].value[Len(data[i]) + 1])
    OBVIOUS
  <2>3. /\ data' = [data EXCEPT ![i] = written] /\ dir' = dir
        /\ op' = [op EXCEPT ![p].at = IF Len(written) = Len(op[p].value)
                                      THEN "close" ELSE "write"]
    BY <1>9, <2>2 DEF Write
  <2>4. \A j \in Inodes \ {i} : data'[j] = data[j]
    BY <2>1, <2>3 DEF Consistent, FileStoreTypeOK
  <2>5. PICK o : o = [op[p] EXCEPT !.at = IF Len(written) = Len(op[p].value)
                                          THEN "close" ELSE "write"]
    OBVIOUS
  <2>6. op' = [op EXCEPT ![p] = o]
    BY <1>1, <2>3, <2>5
  <2>7. /\ o.at \in {"write", "close"} /\ o.op = op[p].op /\ o.request = op[p].request
        /\ o.value = op[p].value /\ o.answer = op[p].answer /\ o.err = op[p].err
    BY <1>1, <2>5 DEF Operation
  <2> QED
    BY <1>6, <1>7, <2>1, <2>3, <2>4, <2>6, <2>7
<1>10. CASE Close(p) \/ SetFails(p)
  <2>1. PICK at : at = IF Close(p) THEN "rename" ELSE "undo"
    OBVIOUS
  <2>2. PICK o : o = [op[p] EXCEPT !.at = at]
    OBVIOUS
  <2>3. op' = [op EXCEPT ![p] = o] /\ UNCHANGED <<dir, data>>
        /\ op[p].at \in {"write", "close", "rename"}
    BY <1>1, <1>10, <2>1, <2>2 DEF Close, SetFails
  <2>4. /\ o.at \in {"rename", "undo"} /\ o.op = op[p].op /\ o.request = op[p].request
        /\ o.value = op[p].value /\ o.answer = op[p].answer /\ o.err = op[p].err
    BY <1>1, <2>1, <2>2 DEF Operation
  <2> QED
    BY <1>6, <2>3, <2>4
<1> QED
  BY <1>3, <1>4, <1>5, <1>8, <1>9, <1>10 DEF SetStep

LEMMA DeleteRefines ==
    ASSUME KeysSound, Consistent, NEW p \in Processes, DeleteStep(p)
    PROVE  Store!Put(p) \/ Store!Fail(p)
<1>1. CASE Unlink(p)
  <2>1. op[p].at = "remove" /\ op[p].value = None
    BY <1>1 DEF Unlink, Consistent, Called
  <2> QED
    BY <1>1, <2>1, AbstractPut DEF Unlink
<1>2. CASE UnlinkFails(p)
  BY <1>2, FailRefines DEF UnlinkFails
<1> QED
  BY <1>1, <1>2 DEF DeleteStep

LEMMA LeaveRefines ==
    ASSUME KeysSound, Consistent, NEW p \in Processes, Return(p) \/ Crash(p)
    PROVE  Store!Leave(p)
<1>1. op' = [op EXCEPT ![p] = NoOp] /\ UNCHANGED <<dir, data>> /\ op[p].at # "idle"
  BY DEF Return, Crash
<1>2. Unseen(p) /\ op'[p] = NoOp
  BY <1>1, QuietUnseen
<1>3. Visible(p)' = Store!NoCall
  BY <1>2 DEF Visible, NoOp, Store!NoCall, Store!Called
<1>4. Visible(p).op # "none"
  BY <1>1 DEF Visible, Consistent, Called
<1>5. \A q \in Processes \ {p} : Visible(q)' = Visible(q)
  BY <1>2, StepSeen
<1>6. \A r \in Requests : Contents(r)' = Contents(r)
  BY <1>1, ContentsKept
<1> QED
  BY <1>3, <1>4, <1>5, <1>6 DEF Store!Leave

LEMMA NextRefines ==
    KeysSound /\ Consistent /\ [Next]_fileVars => [Store!Next]_(Store!storeVars)
<1> SUFFICES ASSUME KeysSound, Consistent, [Next]_fileVars
             PROVE  Store!Next \/ UNCHANGED Store!storeVars
  OBVIOUS
<1>1. CASE UNCHANGED fileVars
  BY <1>1, Stutters DEF fileVars, Contents, Visible, TheKey
<1>2. ASSUME NEW p \in Processes,
             \/ Get(p) \/ Set(p) \/ Delete(p)
             \/ GetStep(p) \/ SetStep(p) \/ DeleteStep(p)
             \/ Return(p) \/ Crash(p)
      PROVE  \/ Store!Begin(p) \/ Store!Get(p) \/ Store!Put(p) \/ Store!Fail(p)
             \/ Store!Leave(p) \/ UNCHANGED Store!storeVars
  BY <1>2, CallRefines, GetRefines, SetRefines, DeleteRefines, LeaveRefines
<1> QED
  BY <1>1, <1>2 DEF Next, Store!Next

(***************************************************************************)
(* The file store is an atomic store, if the derivation of keys gives      *)
(* every request a key of its own: for any processes, whatever their       *)
(* steps, failures and deaths, a Get returns the whole last value of its   *)
(* own request, and a call that fails has no effect (filestore.go:34-98).  *)
(***************************************************************************)
THEOREM Implements == KeysSound => (Spec => ImplementsStore)
<1> SUFFICES ASSUME KeysSound PROVE Spec => Store!Spec
  BY DEF ImplementsStore
<1>1. Init => Store!Init
  BY InitRefines
<1>2. Consistent /\ [Next]_fileVars => [Store!Next]_(Store!storeVars)
  BY NextRefines
<1> QED
  BY <1>1, <1>2, AlwaysConsistent, PTL DEF Spec, Store!Spec

-----------------------------------------------------------------------------
(***************************************************************************)
(* The keys of Artifact.  Induction and recursion over numbers and finite  *)
(* sets first; then the streams: whatever follows a stream in a key says   *)
(* what was written next, so two keys that are equal were written alike.   *)
(***************************************************************************)

(* The order of the natural numbers, as a relation.                        *)
Below == {p \in Nat \X Nat : p[1] < p[2]}

LEMMA LeastNatural ==
    ASSUME NEW T, T \subseteq Nat, T # {}
    PROVE  \E x \in T : \A y \in T : x <= y
<1>1. IsWellFoundedOn(Below, Nat)
  BY NatLessThanWellFounded DEF OpToRel, Below
<1>2. PICK x \in T : \A y \in T : ~ (<<y, x>> \in Below)
  BY <1>1, WFMin
<1>3. ASSUME NEW y \in T PROVE x <= y
  <2>1. x \in Nat /\ y \in Nat
    OBVIOUS
  <2>2. y < x => <<y, x>> \in Below
    BY <2>1 DEF Below
  <2> QED
    BY <1>2, <2>1, <2>2
<1> QED
  BY <1>3

(* Induction, stated with a set where the library has an operator.         *)
LEMMA NumberInduction ==
    ASSUME NEW Q, 0 \in Q, \A n \in Nat : n \in Q => n + 1 \in Q
    PROVE  Nat \subseteq Q
<1> SUFFICES ASSUME Nat \ Q # {} PROVE FALSE
  OBVIOUS
<1>1. PICK n \in Nat \ Q : \A m \in Nat \ Q : n <= m
  BY LeastNatural
<1>2. n # 0 /\ n - 1 \in Nat
  BY <1>1
<1>3. n - 1 \in Q
  BY <1>1, <1>2
<1> QED
  BY <1>1, <1>2, <1>3

(* A finite set is reached from its subsets of one element less.           *)
LEMMA SetInduction ==
    ASSUME NEW S, IsFiniteSet(S), NEW Q,
           \A T \in SUBSET S : (\A x \in T : T \ {x} \in Q) => T \in Q
    PROVE  SUBSET S \subseteq Q
<1> SUFFICES ASSUME NEW T0 \in SUBSET S, T0 \notin Q PROVE FALSE
  OBVIOUS
<1> DEFINE Sizes == {Cardinality(T) : T \in (SUBSET S) \ Q}
<1>1. \A T \in SUBSET S : IsFiniteSet(T) /\ Cardinality(T) \in Nat
  BY FS_Subset, FS_CardinalityType
<1>2. PICK T \in (SUBSET S) \ Q : \A U \in (SUBSET S) \ Q : Cardinality(T) <= Cardinality(U)
  <2>1. Sizes \subseteq Nat /\ Sizes # {}
    BY <1>1
  <2> HIDE DEF Sizes
  <2>2. PICK n \in Sizes : \A m \in Sizes : n <= m
    BY <2>1, LeastNatural
  <2>3. PICK T \in (SUBSET S) \ Q : n = Cardinality(T)
    BY <2>2 DEF Sizes
  <2>4. \A U \in (SUBSET S) \ Q : Cardinality(U) \in Sizes
    BY DEF Sizes
  <2> QED
    BY <2>2, <2>3, <2>4
<1>3. ASSUME NEW x \in T PROVE T \ {x} \in Q
  <2>1. Cardinality(T \ {x}) = Cardinality(T) - 1
    BY <1>1, FS_RemoveElement
  <2> QED
    BY <1>1, <1>2, <2>1
<1>4. T \in SUBSET S /\ T \notin Q
  BY <1>2
<1> QED
  BY <1>3, <1>4


(* f is the iteration of step from base.                                   *)
Iterates(f, V, base, step) ==
    /\ f \in [Nat -> V] /\ f[0] = base
    /\ \A n \in Nat : f[n + 1] = step[<<n, f[n]>>]

LEMMA NumberRecursion ==
    ASSUME NEW V, NEW base \in V, NEW step \in [Nat \X V -> V]
    PROVE  \E f : Iterates(f, V, base, step)
<1> DEFINE Good(n, g) == /\ g \in [Nat -> V] /\ g[0] = base
                         /\ \A i \in Nat : i < n => g[i + 1] = step[<<i, g[i]>>]
           Upto == {n \in Nat : \E g : Good(n, g)}
           pick(n) == CHOOSE g : Good(n, g)
           f == [n \in Nat |-> pick(n)[n]]
<1>1. 0 \in Upto
  <2>1. Good(0, [n \in Nat |-> base])
    OBVIOUS
  <2> QED
    BY <2>1
<1>2. ASSUME NEW n \in Nat, n \in Upto PROVE n + 1 \in Upto
  <2>1. PICK g : Good(n, g)
    BY <1>2
  <2> DEFINE h == [g EXCEPT ![n + 1] = step[<<n, g[n]>>]]
  <2>2. h \in [Nat -> V] /\ h[0] = base
    BY <2>1
  <2>3. ASSUME NEW i \in Nat, i < n + 1 PROVE h[i + 1] = step[<<i, h[i]>>]
    BY <2>1, <2>3
  <2> HIDE DEF h
  <2> QED
    BY <2>2, <2>3
<1>3. \A n \in Nat : Good(n, pick(n))
  <2>1. Nat \subseteq Upto
    <3> HIDE DEF Upto
    <3> QED
      BY <1>1, <1>2, NumberInduction
  <2> QED
    BY <2>1
<1> HIDE DEF pick
<1>4. ASSUME NEW n \in Nat PROVE pick(n + 1)[n] = pick(n)[n]
  <2> DEFINE Same == {i \in Nat : i <= n => pick(n + 1)[i] = pick(n)[i]}
  <2>1. Good(n, pick(n)) /\ Good(n + 1, pick(n + 1))
    BY <1>3
  <2>2. 0 \in Same
    BY <2>1
  <2>3. ASSUME NEW i \in Nat, i \in Same PROVE i + 1 \in Same
    <3>1. CASE i + 1 <= n
      <4>1. /\ pick(n)[i + 1] = step[<<i, pick(n)[i]>>]
            /\ pick(n + 1)[i + 1] = step[<<i, pick(n + 1)[i]>>]
            /\ pick(n + 1)[i] = pick(n)[i]
        BY <2>1, <2>3, <3>1
      <4> QED
        BY <4>1
    <3>2. CASE ~(i + 1 <= n)
      BY <3>2
    <3> QED
      BY <3>1, <3>2
  <2>4. n \in Same
    <3> HIDE DEF Same
    <3> QED
      BY <2>2, <2>3, NumberInduction
  <2> QED
    BY <2>4
<1>5. f \in [Nat -> V] /\ f[0] = base
  BY <1>3
<1>6. ASSUME NEW n \in Nat PROVE f[n + 1] = step[<<n, f[n]>>]
  <2>1. pick(n + 1)[n + 1] = step[<<n, pick(n + 1)[n]>>]
    BY <1>3
  <2> QED
    BY <1>4, <2>1
<1> HIDE DEF f
<1> QED
  BY <1>5, <1>6 DEF Iterates

-----------------------------------------------------------------------------
LEMMA PrefixChain ==
    ASSUME NEW s \in Text, NEW t \in Text, NEW u \in Text, Prefix(s, t), Prefix(t, u)
    PROVE  Prefix(s, u)
  BY DEF Prefix, Text

LEMMA NumberWritten ==
    ASSUME NEW stream \in Text, NEW n \in Nat
    PROVE  LET out == writeUint64(stream, n)
           IN  /\ out \in Text /\ Len(out) = Len(stream) + 1 /\ Len(stream) \in Nat
               /\ Prefix(stream, out) /\ out[Len(stream) + 1] = n
  BY DEF Text, writeUint64, Prefix

LEMMA FieldWritten ==
    ASSUME NEW stream \in Text, NEW field \in Text
    PROVE  LET out == writeField(stream, field)
           IN  /\ out \in Text /\ Len(out) = Len(stream) + 1 + Len(field)
               /\ Len(stream) \in Nat /\ Len(field) \in Nat
               /\ Prefix(stream, out) /\ Prefix(writeUint64(stream, Len(field)), out)
               /\ out[Len(stream) + 1] = Len(field)
               /\ \A i \in 1 .. Len(field) : out[Len(stream) + 1 + i] = field[i]
<1> DEFINE n == Len(field)
           front == writeUint64(stream, n)
           out == front \o field
<1>1. n \in Nat /\ Len(stream) \in Nat
  BY DEF Text
<1>2. /\ front \in Text /\ Len(front) = Len(stream) + 1
      /\ Prefix(stream, front) /\ front[Len(stream) + 1] = n
  BY <1>1, NumberWritten
<1> HIDE DEF front
<1>3. out \in Text /\ Len(out) = Len(front) + n
  <2>1. front \in Seq(Nat) /\ field \in Seq(Nat)
    BY <1>2 DEF Text
  <2>2. out \in Seq(Nat) /\ Len(out) = Len(front) + n
    BY <2>1
  <2> QED
    BY <2>2 DEF Text
<1>4. \A i \in 1 .. Len(front) : out[i] = front[i]
  BY <1>2 DEF Text
<1>5. \A i \in 1 .. n : out[Len(front) + i] = field[i]
  BY <1>1, <1>2 DEF Text
<1> HIDE DEF out, n
<1>6. Prefix(front, out)
  BY <1>1, <1>2, <1>3, <1>4 DEF Prefix
<1>7. Prefix(stream, out)
  BY <1>2, <1>3, <1>6, PrefixChain
<1>8. out[Len(stream) + 1] = n
  BY <1>1, <1>2, <1>4
<1> QED
  BY <1>1, <1>2, <1>3, <1>5, <1>6, <1>7, <1>8 DEF writeField, out, front, n

(* What follows a stream in a key decides the field that was written next. *)
LEMMA SameNumber ==
    ASSUME NEW key \in Text, NEW stream \in Text, NEW m \in Nat, NEW n \in Nat,
           Prefix(writeUint64(stream, m), key), Prefix(writeUint64(stream, n), key)
    PROVE  m = n
<1>1. /\ Len(stream) + 1 \in 1 .. Len(writeUint64(stream, m))
      /\ Len(stream) + 1 \in 1 .. Len(writeUint64(stream, n))
  <2>1. /\ Len(writeUint64(stream, m)) = Len(stream) + 1 /\ Len(stream) \in Nat
        /\ Len(writeUint64(stream, n)) = Len(stream) + 1
    BY NumberWritten
  <2> QED
    BY <2>1
<1>2. /\ writeUint64(stream, m)[Len(stream) + 1] = m
      /\ writeUint64(stream, n)[Len(stream) + 1] = n
  BY NumberWritten
<1> QED
  BY <1>1, <1>2 DEF Prefix

LEMMA SameField ==
    ASSUME NEW key \in Text, NEW stream \in Text, NEW f \in Text, NEW g \in Text,
           Prefix(writeField(stream, f), key), Prefix(writeField(stream, g), key)
    PROVE  f = g
<1>1. ASSUME NEW h \in Text, Prefix(writeField(stream, h), key)
      PROVE  /\ key[Len(stream) + 1] = Len(h)
             /\ \A i \in 1 .. Len(h) : key[Len(stream) + 1 + i] = h[i]
  <2> DEFINE out == writeField(stream, h)
  <2>1. /\ Len(out) = Len(stream) + 1 + Len(h) /\ Len(stream) \in Nat /\ Len(h) \in Nat
        /\ out[Len(stream) + 1] = Len(h)
        /\ \A i \in 1 .. Len(h) : out[Len(stream) + 1 + i] = h[i]
    BY FieldWritten
  <2>2. \A j \in 1 .. Len(out) : out[j] = key[j]
    BY <1>1 DEF Prefix
  <2> HIDE DEF out
  <2>3. /\ Len(stream) + 1 \in 1 .. Len(out)
        /\ \A i \in 1 .. Len(h) : Len(stream) + 1 + i \in 1 .. Len(out)
    BY <2>1
  <2> QED
    BY <2>1, <2>2, <2>3
<1>2. Len(f) = Len(g) /\ \A i \in 1 .. Len(f) : f[i] = g[i]
  BY <1>1
<1>3. f \in Seq(Nat) /\ g \in Seq(Nat)
  BY DEF Text
<1> QED
  BY <1>2, <1>3

(* after has the stream before each of the fields, and at the end.         *)
Stages(after, stream, fields) ==
    /\ after \in [0 .. Len(fields) -> Text]
    /\ after[0] = stream
    /\ \A n \in 1 .. Len(fields) : after[n] = writeField(after[n - 1], fields[n])

LEMMA FieldsWritten ==
    ASSUME NEW stream \in Text, NEW fields \in Seq(Text)
    PROVE  \E after : Stages(after, stream, fields) /\ writeFields(stream, fields) = after[Len(fields)]
<1> DEFINE N == Len(fields)
           step == [p \in Nat \X Text |-> IF p[1] < N THEN writeField(p[2], fields[p[1] + 1]) ELSE p[2]]
           Rule(g) == [n \in 0 .. N |-> IF n = 0 THEN stream ELSE writeField(g[n - 1], fields[n])]
           after == CHOOSE g : g = Rule(g)
<1>1. N \in Nat /\ \A i \in 1 .. N : fields[i] \in Text
  OBVIOUS
<1>2. step \in [Nat \X Text -> Text]
  <2>1. ASSUME NEW p \in Nat \X Text, p[1] < N PROVE writeField(p[2], fields[p[1] + 1]) \in Text
    <3>1. p[1] + 1 \in 1 .. N /\ p[2] \in Text
      BY <1>1, <2>1
    <3> QED
      BY <1>1, <3>1, FieldWritten
  <2> QED
    BY <2>1
<1>3. PICK f : Iterates(f, Text, stream, step)
  <2> HIDE DEF step
  <2> QED
    BY <1>2, NumberRecursion
<1> DEFINE g == [n \in 0 .. N |-> f[n]]
<1>4. f \in [Nat -> Text] /\ f[0] = stream
  BY <1>3 DEF Iterates
<1>5. ASSUME NEW n \in 1 .. N PROVE f[n] = writeField(f[n - 1], fields[n])
  <2>1. n - 1 \in Nat /\ (n - 1) + 1 = n /\ n - 1 < N
    BY <1>1
  <2>2. f[(n - 1) + 1] = step[<<n - 1, f[n - 1]>>]
    BY <1>3, <2>1 DEF Iterates
  <2>3. f[n - 1] \in Text
    BY <1>4, <2>1
  <2>4. step[<<n - 1, f[n - 1]>>] = writeField(f[n - 1], fields[n])
    BY <2>1, <2>3
  <2> QED
    BY <2>1, <2>2, <2>4
<1>6. g = Rule(g)
  <2>1. \A n \in 0 .. N : n # 0 => n \in 1 .. N /\ n - 1 \in 0 .. N
    BY <1>1
  <2> QED
    BY <1>4, <1>5, <2>1
<1>7. after = Rule(after)
  <2> HIDE DEF Rule, g
  <2> QED
    BY <1>6
<1>8. writeFields(stream, fields) = after[N]
  BY DEF writeFields
<1> HIDE DEF after
<1>9. /\ after[0] = stream
      /\ \A n \in 1 .. N : after[n] = writeField(after[n - 1], fields[n])
  <2>1. 0 \in 0 .. N /\ \A n \in 1 .. N : n \in 0 .. N /\ n # 0
    BY <1>1
  <2> QED
    BY <1>7, <2>1
<1>10. \A n \in 0 .. N : after[n] \in Text
  <2> DEFINE Q == {n \in Nat : n <= N => after[n] \in Text}
  <2>1. 0 \in Q
    BY <1>9
  <2>2. ASSUME NEW n \in Nat, n \in Q PROVE n + 1 \in Q
    <3> SUFFICES ASSUME n + 1 <= N PROVE after[n + 1] \in Text
      OBVIOUS
    <3>1. n + 1 \in 1 .. N /\ (n + 1) - 1 = n /\ after[n] \in Text
      BY <1>1, <2>2
    <3>2. after[n + 1] = writeField(after[n], fields[n + 1])
      BY <1>9, <3>1
    <3> QED
      BY <1>1, <3>1, <3>2, FieldWritten
  <2>3. Nat \subseteq Q
    <3> HIDE DEF Q
    <3> QED
      BY <2>1, <2>2, NumberInduction
  <2> QED
    BY <2>3
<1>11. after \in [0 .. N -> Text]
  BY <1>7, <1>10
<1> QED
  BY <1>8, <1>9, <1>11 DEF Stages

LEMMA StagesGrow ==
    ASSUME NEW stream \in Text, NEW fields \in Seq(Text), NEW after, Stages(after, stream, fields)
    PROVE  \A n \in 0 .. Len(fields) : /\ Prefix(after[n], after[Len(fields)])
                                       /\ Len(after[n]) \in Nat /\ Len(after[n]) >= Len(stream) + n
<1> DEFINE N == Len(fields)
           Q == {k \in Nat : k <= N => Prefix(after[N - k], after[N])}
           R == {k \in Nat : k <= N => Len(after[k]) \in Nat /\ Len(after[k]) >= Len(stream) + k}
<1>1. /\ N \in Nat /\ Len(stream) \in Nat
      /\ \A n \in 0 .. N : after[n] \in Text
      /\ \A n \in 1 .. N : fields[n] \in Text /\ after[n] = writeField(after[n - 1], fields[n])
      /\ after[0] = stream
  <2>1. N \in Nat /\ \A n \in 1 .. N : fields[n] \in Text
    OBVIOUS
  <2>2. Len(stream) \in Nat
    BY DEF Text
  <2> QED
    BY <2>1, <2>2 DEF Stages
<1>2. \A n \in 1 .. N : /\ n - 1 \in 0 .. N /\ n \in 0 .. N
                        /\ Prefix(after[n - 1], after[n])
                        /\ Len(after[n]) = Len(after[n - 1]) + 1 + Len(fields[n]) /\ Len(fields[n]) \in Nat
  <2> SUFFICES ASSUME NEW n \in 1 .. N
               PROVE  /\ n - 1 \in 0 .. N /\ n \in 0 .. N
                      /\ Prefix(after[n - 1], after[n])
                      /\ Len(after[n]) = Len(after[n - 1]) + 1 + Len(fields[n]) /\ Len(fields[n]) \in Nat
    OBVIOUS
  <2>1. n - 1 \in 0 .. N /\ n \in 0 .. N
    BY <1>1
  <2>2. after[n] = writeField(after[n - 1], fields[n]) /\ after[n - 1] \in Text /\ fields[n] \in Text
    BY <1>1, <2>1
  <2>3. \A s, f \in Text : /\ Prefix(s, writeField(s, f)) /\ Len(f) \in Nat
                            /\ Len(writeField(s, f)) = Len(s) + 1 + Len(f)
    BY FieldWritten
  <2> QED
    BY <2>1, <2>2, <2>3
<1>3. 0 \in Q /\ 0 \in R
  BY <1>1 DEF Prefix
<1>4. ASSUME NEW k \in Nat, k \in Q PROVE k + 1 \in Q
  <2> SUFFICES ASSUME k + 1 <= N PROVE Prefix(after[N - (k + 1)], after[N])
    OBVIOUS
  <2> DEFINE n == N - k
  <2>1. n \in 1 .. N /\ N - (k + 1) = n - 1 /\ Prefix(after[n], after[N]) /\ N \in 0 .. N
    BY <1>1, <1>4
  <2> HIDE DEF n
  <2>2. Prefix(after[n - 1], after[n]) /\ after[n - 1] \in Text /\ after[n] \in Text /\ after[N] \in Text
    BY <1>1, <1>2, <2>1
  <2> QED
    BY <2>1, <2>2, PrefixChain
<1>5. ASSUME NEW k \in Nat, k \in R PROVE k + 1 \in R
  <2> SUFFICES ASSUME k + 1 <= N
               PROVE  Len(after[k + 1]) \in Nat /\ Len(after[k + 1]) >= Len(stream) + (k + 1)
    OBVIOUS
  <2>1. k + 1 \in 1 .. N /\ (k + 1) - 1 = k /\ Len(after[k]) \in Nat /\ Len(after[k]) >= Len(stream) + k
    BY <1>1, <1>5
  <2> DEFINE l == Len(after[k])
             m == Len(after[k + 1])
             d == Len(fields[k + 1])
             z == Len(stream)
  <2>2. m = l + 1 + d /\ d \in Nat /\ l \in Nat /\ l >= z + k /\ z \in Nat
    BY <1>1, <1>2, <2>1
  <2> HIDE DEF l, m, d, z
  <2>3. m \in Nat /\ m >= z + (k + 1)
    BY <2>2
  <2> QED
    BY <2>3 DEF m, z
<1>6. Nat \subseteq Q /\ Nat \subseteq R
  <2> HIDE DEF Q, R
  <2> QED
    BY <1>3, <1>4, <1>5, NumberInduction
<1>7. ASSUME NEW n \in 0 .. N
      PROVE  Prefix(after[n], after[N]) /\ Len(after[n]) \in Nat /\ Len(after[n]) >= Len(stream) + n
  <2>1. n \in Nat /\ N - n \in Nat /\ N - n <= N /\ n <= N /\ N - (N - n) = n
    BY <1>1
  <2>2. Prefix(after[N - (N - n)], after[N])
    BY <1>6, <2>1
  <2> QED
    BY <1>6, <2>1, <2>2
<1> QED
  BY <1>7

LEMMA FieldsKeepStream ==
    ASSUME NEW stream \in Text, NEW fields \in Seq(Text)
    PROVE  /\ writeFields(stream, fields) \in Text
           /\ Prefix(stream, writeFields(stream, fields))
           /\ Len(stream) \in Nat /\ Len(fields) \in Nat
           /\ Len(writeFields(stream, fields)) \in Nat
           /\ Len(writeFields(stream, fields)) >= Len(stream) + Len(fields)
<1>1. PICK after : Stages(after, stream, fields) /\ writeFields(stream, fields) = after[Len(fields)]
  BY FieldsWritten
<1>2. /\ Len(fields) \in Nat /\ 0 \in 0 .. Len(fields) /\ Len(fields) \in 0 .. Len(fields)
      /\ Len(stream) \in Nat
  BY DEF Text
<1>3. after[0] = stream /\ after[Len(fields)] \in Text
  BY <1>1, <1>2 DEF Stages
<1> QED
  BY <1>1, <1>2, <1>3, StagesGrow

LEMMA SameFields ==
    ASSUME NEW key \in Text, NEW stream \in Text, NEW f \in Seq(Text), NEW g \in Seq(Text),
           Len(f) = Len(g), Prefix(writeFields(stream, f), key), Prefix(writeFields(stream, g), key)
    PROVE  f = g
<1> DEFINE N == Len(f)
<1>1. PICK a : Stages(a, stream, f) /\ writeFields(stream, f) = a[N]
  BY FieldsWritten
<1>2. PICK b : Stages(b, stream, g) /\ writeFields(stream, g) = b[N]
  BY FieldsWritten
<1>3. /\ N \in Nat /\ Len(g) = N
      /\ \A n \in 0 .. N : a[n] \in Text /\ b[n] \in Text
      /\ \A n \in 1 .. N : f[n] \in Text /\ g[n] \in Text
  BY <1>1, <1>2 DEF Stages
<1>4. \A n \in 0 .. N : Prefix(a[n], key) /\ Prefix(b[n], key)
  <2>1. N \in 0 .. N
    BY <1>3
  <2>2. \A n \in 0 .. N : Prefix(a[n], a[N]) /\ Prefix(b[n], b[N])
    BY <1>1, <1>2, <1>3, StagesGrow
  <2> QED
    BY <1>1, <1>2, <1>3, <2>1, <2>2, PrefixChain
<1>5. ASSUME NEW n \in 1 .. N, a[n - 1] = b[n - 1] PROVE f[n] = g[n] /\ a[n] = b[n]
  <2>1. n - 1 \in 0 .. N /\ n \in 0 .. N
    BY <1>3
  <2>2. a[n] = writeField(a[n - 1], f[n]) /\ b[n] = writeField(a[n - 1], g[n])
    BY <1>1, <1>2, <1>3, <1>5 DEF Stages
  <2>3. f[n] = g[n]
    BY <1>3, <1>4, <2>1, <2>2, SameField
  <2> QED
    BY <2>2, <2>3
<1> DEFINE Q == {n \in Nat : n <= N => a[n] = b[n]}
<1>6. 0 \in Q
  BY <1>1, <1>2 DEF Stages
<1>7. ASSUME NEW n \in Nat, n \in Q PROVE n + 1 \in Q
  <2>1. n + 1 <= N => n + 1 \in 1 .. N /\ (n + 1) - 1 = n /\ a[n] = b[n]
    BY <1>3, <1>7
  <2> QED
    BY <1>5, <2>1
<1>8. Nat \subseteq Q
  <2> HIDE DEF Q
  <2> QED
    BY <1>6, <1>7, NumberInduction
<1>9. \A n \in 1 .. N : f[n] = g[n]
  <2>1. \A n \in 1 .. N : n - 1 \in Nat /\ n - 1 <= N
    BY <1>3
  <2> QED
    BY <1>5, <1>8, <2>1
<1> QED
  BY <1>3, <1>9

-----------------------------------------------------------------------------
(* s comes before t, and position i shows it.                              *)
LessAt(s, t, i) ==
    /\ i \in 1 .. Len(s) + 1 /\ i <= Len(t)
    /\ \A j \in 1 .. i - 1 : s[j] = t[j]
    /\ i <= Len(s) => s[i] < t[i]

LEMMA LessMeans ==
    ASSUME NEW s \in Text, NEW t \in Text
    PROVE  StringLess(s, t) <=> \E i \in Nat : LessAt(s, t, i)
<1>1. /\ s \in Seq(Nat) /\ t \in Seq(Nat) /\ Len(s) \in Nat /\ Len(t) \in Nat
      /\ \A i \in 1 .. Len(s) : s[i] \in Nat
      /\ \A i \in 1 .. Len(t) : t[i] \in Nat
  BY DEF Text
<1>2. Len(s) <= Len(t) => (SubSeq(s, 1, Len(s)) = SubSeq(t, 1, Len(s)) <=>
                              \A j \in 1 .. Len(s) : s[j] = t[j])
  <2> SUFFICES ASSUME Len(s) <= Len(t)
               PROVE  SubSeq(s, 1, Len(s)) = SubSeq(t, 1, Len(s)) <=> \A j \in 1 .. Len(s) : s[j] = t[j]
    OBVIOUS
  <2>1. /\ SubSeq(s, 1, Len(s)) = [j \in 1 .. Len(s) |-> s[j]]
        /\ SubSeq(t, 1, Len(s)) = [j \in 1 .. Len(s) |-> t[j]]
    BY <1>1
  <2> QED
    BY <2>1
<1>3. Len(s) = Len(t) /\ (\A j \in 1 .. Len(s) : s[j] = t[j]) => s = t
  BY <1>1
<1>4. IsStrictPrefix(s, t) => LessAt(s, t, Len(s) + 1)
  BY <1>1, <1>2, <1>3 DEF IsStrictPrefix, IsPrefix, LessAt
<1>5. ASSUME NEW i \in 1 .. Len(s), i <= Len(t), s[i] < t[i], \A j \in 1 .. i - 1 : s[j] = t[j]
      PROVE  LessAt(s, t, i) /\ i \in Nat
  BY <1>1, <1>5 DEF LessAt
<1>6. ASSUME NEW i \in Nat, LessAt(s, t, i) PROVE StringLess(s, t)
  <2>1. CASE i <= Len(s)
    BY <1>1, <1>6, <2>1 DEF LessAt, StringLess
  <2>2. CASE i = Len(s) + 1
    <3>1. Len(s) < Len(t) /\ \A j \in 1 .. Len(s) : s[j] = t[j]
      BY <1>1, <1>6, <2>2 DEF LessAt
    <3> QED
      BY <1>1, <1>2, <3>1 DEF IsStrictPrefix, IsPrefix, StringLess
  <2> QED
    BY <1>1, <1>6, <2>1, <2>2 DEF LessAt
<1>7. StringLess(s, t) => \E i \in Nat : LessAt(s, t, i)
  <2>1. Len(s) + 1 \in Nat
    BY <1>1
  <2> QED
    BY <1>4, <1>5, <2>1 DEF StringLess
<1> QED
  BY <1>6, <1>7

(* The order of strings is one: sort.Strings has a result.                 *)
LEMMA LessIsTransitive ==
    ASSUME NEW s \in Text, NEW t \in Text, NEW u \in Text, StringLess(s, t), StringLess(t, u)
    PROVE  StringLess(s, u)
<1>1. PICK i \in Nat : LessAt(s, t, i)
  BY LessMeans
<1>2. PICK k \in Nat : LessAt(t, u, k)
  BY LessMeans
<1>3. /\ Len(s) \in Nat /\ Len(t) \in Nat /\ Len(u) \in Nat
      /\ \A j \in 1 .. Len(s) : s[j] \in Nat
      /\ \A j \in 1 .. Len(t) : t[j] \in Nat
      /\ \A j \in 1 .. Len(u) : u[j] \in Nat
  BY DEF Text
<1>4. CASE i < k
  <2>1. LessAt(s, u, i)
    BY <1>1, <1>2, <1>3, <1>4 DEF LessAt
  <2> QED
    BY <2>1, LessMeans
<1>5. CASE i = k
  <2>1. i \in 1 .. Len(t) /\ i \in 1 .. Len(u) /\ t[i] < u[i] /\ (i <= Len(s) => s[i] < t[i] /\ i \in 1 .. Len(s))
    BY <1>1, <1>2, <1>3, <1>5 DEF LessAt
  <2>2. i <= Len(s) => s[i] < u[i]
    BY <1>3, <2>1
  <2>3. LessAt(s, u, i)
    BY <1>1, <1>2, <1>3, <1>5, <2>2 DEF LessAt
  <2> QED
    BY <2>3, LessMeans
<1>6. CASE k < i
  <2>1. LessAt(s, u, k)
    BY <1>1, <1>2, <1>3, <1>6 DEF LessAt
  <2> QED
    BY <2>1, LessMeans
<1> QED
  BY <1>4, <1>5, <1>6

LEMMA LessIsTotal ==
    ASSUME NEW s \in Text, NEW t \in Text, s # t
    PROVE  StringLess(s, t) \/ StringLess(t, s)
<1> DEFINE Differ == {i \in Nat : i \in 1 .. Len(s) /\ i \in 1 .. Len(t) /\ s[i] # t[i]}
<1>1. /\ s \in Seq(Nat) /\ t \in Seq(Nat) /\ Len(s) \in Nat /\ Len(t) \in Nat
      /\ \A i \in 1 .. Len(s) : s[i] \in Nat
      /\ \A i \in 1 .. Len(t) : t[i] \in Nat
  BY DEF Text
<1>2. CASE Differ # {}
  <2>1. PICK i \in Differ : \A j \in Differ : i <= j
    <3>1. Differ \subseteq Nat
      OBVIOUS
    <3> HIDE DEF Differ
    <3> QED
      BY <1>2, <3>1, LeastNatural
  <2>4. i \in 1 .. Len(s) /\ i \in 1 .. Len(t) /\ s[i] # t[i] /\ i \in Nat
    BY <2>1
  <2>5. ASSUME NEW j \in 1 .. i - 1 PROVE s[j] = t[j]
    <3>1. j \in Nat /\ j \in 1 .. Len(s) /\ j \in 1 .. Len(t) /\ ~(i <= j)
      BY <1>1, <2>4
    <3>2. j \notin Differ
      BY <2>1, <3>1
    <3> QED
      BY <3>1, <3>2
  <2>2. /\ i \in 1 .. Len(s) /\ i \in 1 .. Len(t) /\ s[i] # t[i]
        /\ \A j \in 1 .. i - 1 : s[j] = t[j]
    BY <2>4, <2>5
  <2>3. LessAt(s, t, i) \/ LessAt(t, s, i)
    <3>1. s[i] < t[i] \/ t[i] < s[i]
      BY <1>1, <2>2
    <3> QED
      BY <1>1, <2>2, <3>1 DEF LessAt
  <2> QED
    BY <2>1, <2>3, LessMeans
<1>3. CASE Differ = {}
  <2>1. ASSUME NEW i \in 1 .. Len(s), i <= Len(t) PROVE s[i] = t[i]
    <3>1. i \in Nat /\ i \in 1 .. Len(t)
      BY <1>1, <2>1
    <3>2. i \notin Differ
      BY <1>3
    <3> QED
      BY <3>1, <3>2
  <2>2. CASE Len(s) = Len(t)
    BY <1>1, <2>1, <2>2
  <2>3. CASE Len(s) < Len(t)
    <3>1. LessAt(s, t, Len(s) + 1) /\ Len(s) + 1 \in Nat
      BY <1>1, <2>1, <2>3 DEF LessAt
    <3> QED
      BY <3>1, LessMeans
  <2>4. CASE Len(t) < Len(s)
    <3>1. LessAt(t, s, Len(t) + 1) /\ Len(t) + 1 \in Nat
      BY <1>1, <2>1, <2>4 DEF LessAt
    <3> QED
      BY <3>1, LessMeans
  <2> QED
    BY <1>1, <2>2, <2>3, <2>4
<1> QED
  BY <1>2, <1>3

LEMMA GreatestString ==
    ASSUME NEW S \in SUBSET Text, IsFiniteSet(S)
    PROVE  \A T \in SUBSET S : T # {} => \E m \in T : \A x \in T \ {m} : StringLess(x, m)
<1> DEFINE Q == {T \in SUBSET S : T # {} => \E m \in T : \A x \in T \ {m} : StringLess(x, m)}
<1>1. ASSUME NEW T \in SUBSET S, \A x \in T : T \ {x} \in Q PROVE T \in Q
  <2> SUFFICES ASSUME T # {} PROVE \E m \in T : \A x \in T \ {m} : StringLess(x, m)
    OBVIOUS
  <2>1. PICK y \in T : TRUE
    OBVIOUS
  <2>2. CASE T \ {y} = {}
    BY <2>1, <2>2
  <2>3. CASE T \ {y} # {}
    <3>1. PICK m \in T \ {y} : \A x \in (T \ {y}) \ {m} : StringLess(x, m)
      BY <1>1, <2>1, <2>3
    <3>2. CASE StringLess(y, m)
      BY <3>1, <3>2
    <3>3. CASE StringLess(m, y)
      <4>1. \A x \in T \ {y} : StringLess(x, y)
        BY <3>1, <3>3, LessIsTransitive
      <4> QED
        BY <2>1, <4>1
    <3> QED
      BY <3>1, <3>2, <3>3, LessIsTotal
  <2> QED
    BY <2>2, <2>3
<1>2. SUBSET S \subseteq Q
  <2> HIDE DEF Q
  <2> QED
    BY <1>1, SetInduction
<1> QED
  BY <1>2

Ascending(s) == \A i, j \in DOMAIN s : i < j => StringLess(s[i], s[j])

LEMMA SortedListing ==
    ASSUME NEW S \in SUBSET Text, IsFiniteSet(S)
    PROVE  \E s \in SetToSeqs(S) : Ascending(s)
<1> DEFINE Q == {T \in SUBSET S : \E s \in SetToSeqs(T) : Ascending(s)}
<1>1. ASSUME NEW T \in SUBSET S, \A x \in T : T \ {x} \in Q PROVE T \in Q
  <2>1. CASE T = {}
    <3>1. Cardinality(T) = 0
      BY <2>1, FS_EmptySet
    <3>2. [i \in 1 .. 0 |-> 0] \in SetToSeqs(T)
      BY <3>1 DEF SetToSeqs
    <3>3. Ascending([i \in 1 .. 0 |-> 0])
      BY DEF Ascending
    <3> QED
      BY <3>2, <3>3
  <2>2. CASE T # {}
    <3>1. PICK m \in T : \A x \in T \ {m} : StringLess(x, m)
      BY <2>2, GreatestString
    <3>2. PICK s \in SetToSeqs(T \ {m}) : Ascending(s)
      BY <1>1, <3>1
    <3> DEFINE n == Cardinality(T \ {m})
               longer == [i \in 1 .. n + 1 |-> IF i = n + 1 THEN m ELSE s[i]]
    <3>3. n \in Nat /\ Cardinality(T) = n + 1
      <4>1. IsFiniteSet(T) /\ Cardinality(T) \in Nat
        BY FS_Subset, FS_CardinalityType
      <4>2. IsFiniteSet(T \ {m}) /\ Cardinality(T \ {m}) \in Nat
        BY <4>1, FS_Subset, FS_CardinalityType
      <4>3. Cardinality(T \ {m}) = Cardinality(T) - 1
        BY <4>1, FS_RemoveElement
      <4> QED
        BY <4>1, <4>2, <4>3
    <3>4. s \in [1 .. n -> T \ {m}] /\ \A i, j \in 1 .. n : i # j => s[i] # s[j]
      BY <3>2 DEF SetToSeqs
    <3> HIDE DEF n
    <3>5. \A i \in 1 .. n + 1 : i # n + 1 => i \in 1 .. n /\ s[i] \in T \ {m} /\ longer[i] = s[i]
      BY <3>3, <3>4
    <3>6. longer \in SetToSeqs(T)
      <4>1. longer \in [1 .. n + 1 -> T]
        BY <3>4, <3>5
      <4>2. \A i, j \in 1 .. n + 1 : i # j => longer[i] # longer[j]
        BY <3>4, <3>5
      <4> QED
        BY <3>3, <4>1, <4>2 DEF SetToSeqs
    <3>7. Ascending(longer)
      <4> SUFFICES ASSUME NEW i \in 1 .. n + 1, NEW j \in 1 .. n + 1, i < j
                   PROVE  StringLess(longer[i], longer[j])
        BY DEF Ascending
      <4>1. i \in 1 .. n /\ longer[i] = s[i] /\ s[i] \in T \ {m}
        BY <3>3, <3>5
      <4>2. CASE j = n + 1
        BY <3>1, <4>1, <4>2
      <4>3. CASE j # n + 1
        BY <3>2, <3>4, <3>5, <4>1, <4>3 DEF Ascending
      <4> QED
        BY <4>2, <4>3
    <3> QED
      BY <3>6, <3>7
  <2> QED
    BY <2>1, <2>2
<1>2. SUBSET S \subseteq Q
  <2> HIDE DEF Q
  <2> QED
    BY <1>1, SetInduction
<1> QED
  BY <1>2

(* What SortStrings makes of the keys of a map.                            *)
Ordered(S) == CHOOSE s \in SetToSeqs(S) : Ascending(s)

LEMMA ListingIsWhole ==
    ASSUME NEW S, IsFiniteSet(S), NEW s \in SetToSeqs(S)
    PROVE  ToSet(s) = S /\ DOMAIN s = 1 .. Cardinality(S) /\ Len(s) = Cardinality(S)
           /\ s \in Seq(S) /\ Cardinality(S) \in Nat
<1> DEFINE D == 1 .. Cardinality(S)
<1>1. /\ Cardinality(S) \in Nat
      /\ s \in [D -> S] /\ \A i, j \in D : i # j => s[i] # s[j]
  BY FS_CardinalityType DEF SetToSeqs
<1>2. s \in Injection(D, S)
  BY <1>1 DEF Injection, IsInjective
<1>3. IsFiniteSet(D) /\ Cardinality(D) = Cardinality(S)
  <2>1. IsFiniteSet(1 .. Cardinality(S)) /\ Cardinality(1 .. Cardinality(S)) = Cardinality(S)
    BY <1>1, FS_Interval
  <2> QED
    BY <2>1
<1> HIDE DEF D
<1>4. s \in Surjection(D, S)
  BY <1>2, <1>3, FS_Injection
<1>5. ToSet(s) = S
  BY <1>1, <1>4 DEF ToSet, Surjection
<1>6. s \in Seq(S) /\ Len(s) = Cardinality(S)
  BY <1>1 DEF D
<1> QED
  BY <1>1, <1>5, <1>6 DEF D

LEMMA OrderedListing ==
    ASSUME NEW S \in SUBSET Text, IsFiniteSet(S)
    PROVE  /\ Ordered(S) \in SetToSeqs(S)
           /\ \A it \in SetToSeqs(S) : SortStrings(it) = Ordered(S)
<1>1. Ordered(S) \in SetToSeqs(S)
  BY SortedListing DEF Ordered
<1>2. \A paths : SortStrings(paths) = Ordered(ToSet(paths))
  BY DEF SortStrings, Ordered, Ascending
<1> QED
  BY <1>1, <1>2, ListingIsWhole

-----------------------------------------------------------------------------
(* The stream of a tool call as it grows.                                  *)
IsTool(r) == WellFormed(r) /\ r.kind = "tool"

IsPage(r) == WellFormed(r) /\ r.kind = "web"

Paths(r) == Ordered(DOMAIN r.inputs)

Pairs(r) == [n \in 1 .. 2 * Len(Paths(r)) |->
                IF n % 2 = 1 THEN Paths(r)[(n + 1) \div 2] ELSE r.inputs[Paths(r)[n \div 2]]]

Named(r) == writeField(<<>>, r.tool)

Counted(r) == writeUint64(Named(r), Len(r.argv))

Argued(r) == writeFields(Counted(r), r.argv)

Headed(r) == writeField(Argued(r), r.head)

Placed(r) == writeUint64(Headed(r), Len(Paths(r)))

ToolKey(r) == writeFields(Placed(r), Pairs(r))

LEMMA ToolFields ==
    ASSUME NEW r, IsTool(r)
    PROVE  /\ r = Tool(r.tool, r.argv, r.head, r.inputs)
           /\ r.tool \in Text /\ r.argv \in Seq(Text) /\ Len(r.argv) \in Nat /\ r.head \in Text
           /\ IsFiniteSet(DOMAIN r.inputs) /\ DOMAIN r.inputs \in SUBSET Text
           /\ r.inputs \in [DOMAIN r.inputs -> Text]
<1>1. r.kind # "web"
  BY DEF IsTool
<1>2. /\ r = Tool(r.tool, r.argv, r.head, r.inputs)
      /\ r.tool \in Text /\ r.argv \in Seq(Text) /\ r.head \in Text
      /\ IsFiniteSet(DOMAIN r.inputs) /\ DOMAIN r.inputs \subseteq Text
      /\ r.inputs \in [DOMAIN r.inputs -> Text]
  BY <1>1 DEF IsTool, WellFormed
<1> QED
  BY <1>2

LEMMA PathsListed ==
    ASSUME NEW r, IsTool(r)
    PROVE  /\ Len(Paths(r)) \in Nat /\ Paths(r) \in Seq(Text)
           /\ DOMAIN Paths(r) = 1 .. Len(Paths(r))
           /\ ToSet(Paths(r)) = DOMAIN r.inputs
           /\ \A it \in SetToSeqs(DOMAIN r.inputs) : SortStrings(it) = Paths(r)
           /\ SetToSeqs(DOMAIN r.inputs) # {}
<1> DEFINE S == DOMAIN r.inputs
           paths == Paths(r)
<1>1. S \in SUBSET Text /\ IsFiniteSet(S)
  BY ToolFields
<1>2. paths = Ordered(S)
  BY DEF Paths
<1> HIDE DEF S, paths
<1>3. paths \in SetToSeqs(S) /\ \A it \in SetToSeqs(S) : SortStrings(it) = paths
  BY <1>1, <1>2, OrderedListing
<1>4. /\ ToSet(paths) = S /\ DOMAIN paths = 1 .. Cardinality(S) /\ Len(paths) = Cardinality(S)
      /\ paths \in Seq(S) /\ Cardinality(S) \in Nat
  BY <1>1, <1>3, ListingIsWhole
<1>5. paths \in Seq(Text)
  BY <1>1, <1>4
<1> QED
  BY <1>3, <1>4, <1>5 DEF S, paths

LEMMA PairsWritten ==
    ASSUME NEW r, IsTool(r)
    PROVE  /\ Pairs(r) \in Seq(Text) /\ Len(Pairs(r)) = 2 * Len(Paths(r))
           /\ \A i \in 1 .. Len(Paths(r)) : /\ Pairs(r)[2 * i - 1] = Paths(r)[i]
                                            /\ Pairs(r)[2 * i] = r.inputs[Paths(r)[i]]
<1> DEFINE n == Len(Paths(r))
           p == Paths(r)
           q == Pairs(r)
<1>1. /\ n \in Nat /\ \A i \in 1 .. n : p[i] \in DOMAIN r.inputs /\ p[i] \in Text
      /\ \A x \in DOMAIN r.inputs : r.inputs[x] \in Text
  <2>1. \A i \in 1 .. n : p[i] \in ToSet(p)
    BY PathsListed DEF ToSet
  <2> QED
    BY <2>1, PathsListed, ToolFields
<1>2. q = [j \in 1 .. 2 * n |-> IF j % 2 = 1 THEN p[(j + 1) \div 2] ELSE r.inputs[p[j \div 2]]]
  BY DEF Pairs
<1> HIDE DEF n, p, q
<1>3. \A j \in 1 .. 2 * n : /\ j % 2 = 1 => (j + 1) \div 2 \in 1 .. n
                            /\ j % 2 # 1 => j \div 2 \in 1 .. n
  BY <1>1
<1>4. q \in [1 .. 2 * n -> Text]
  BY <1>1, <1>2, <1>3
<1>5. q \in Seq(Text) /\ Len(q) = 2 * n
  BY <1>1, <1>4
<1>6. ASSUME NEW i \in 1 .. n
      PROVE  q[2 * i - 1] = p[i] /\ q[2 * i] = r.inputs[p[i]]
  <2>1. /\ 2 * i - 1 \in 1 .. 2 * n /\ (2 * i - 1) % 2 = 1 /\ ((2 * i - 1) + 1) \div 2 = i
        /\ 2 * i \in 1 .. 2 * n /\ (2 * i) % 2 # 1 /\ (2 * i) \div 2 = i
    BY <1>1
  <2> QED
    BY <1>2, <2>1
<1> QED
  BY <1>5, <1>6 DEF n, p, q

LEMMA ToolStages ==
    ASSUME NEW r, IsTool(r)
    PROVE  /\ <<>> \in Text /\ Named(r) \in Text /\ Counted(r) \in Text /\ Argued(r) \in Text
           /\ Headed(r) \in Text /\ Placed(r) \in Text /\ ToolKey(r) \in Text
           /\ Prefix(Named(r), ToolKey(r)) /\ Prefix(Counted(r), ToolKey(r))
           /\ Prefix(Argued(r), ToolKey(r)) /\ Prefix(Headed(r), ToolKey(r))
           /\ Prefix(Placed(r), ToolKey(r)) /\ Prefix(ToolKey(r), ToolKey(r))
<1>1. r.tool \in Text /\ r.argv \in Seq(Text) /\ Len(r.argv) \in Nat /\ r.head \in Text
  BY ToolFields
<1>2. Len(Paths(r)) \in Nat /\ Pairs(r) \in Seq(Text)
  BY PathsListed, PairsWritten
<1>3. <<>> \in Text
  BY DEF Text
<1>4. Named(r) \in Text
  BY <1>1, <1>3, FieldWritten DEF Named
<1>5. Counted(r) \in Text /\ Prefix(Named(r), Counted(r))
  BY <1>1, <1>4, NumberWritten DEF Counted
<1>6. Argued(r) \in Text /\ Prefix(Counted(r), Argued(r))
  BY <1>1, <1>5, FieldsKeepStream DEF Argued
<1>7. Headed(r) \in Text /\ Prefix(Argued(r), Headed(r))
  BY <1>1, <1>6, FieldWritten DEF Headed
<1>8. Placed(r) \in Text /\ Prefix(Headed(r), Placed(r))
  BY <1>2, <1>7, NumberWritten DEF Placed
<1>9. ToolKey(r) \in Text /\ Prefix(Placed(r), ToolKey(r))
  BY <1>2, <1>8, FieldsKeepStream DEF ToolKey
<1>10. Prefix(ToolKey(r), ToolKey(r))
  BY <1>9 DEF Prefix, Text
<1>11. Prefix(Headed(r), ToolKey(r))
  BY <1>7, <1>8, <1>9, PrefixChain
<1>12. Prefix(Argued(r), ToolKey(r))
  BY <1>6, <1>7, <1>9, <1>11, PrefixChain
<1>13. Prefix(Counted(r), ToolKey(r))
  BY <1>5, <1>6, <1>9, <1>12, PrefixChain
<1>14. Prefix(Named(r), ToolKey(r))
  BY <1>4, <1>5, <1>9, <1>13, PrefixChain
<1> QED
  BY <1>3, <1>4, <1>5, <1>6, <1>7, <1>8, <1>9, <1>10, <1>11, <1>12, <1>13, <1>14

(* The order in which the map is walked does not reach the key.            *)
LEMMA ToolHasOneKey ==
    ASSUME NEW r, IsTool(r)
    PROVE  KeysOf(r) = {ToolKey(r)}
<1> DEFINE S == DOMAIN r.inputs
           key(it) == ArtifactKey(r.tool, r.argv, r.head, r.inputs, it)
<1>1. \A it \in SetToSeqs(S) : key(it) = ToolKey(r)
  <2>1. \A it \in SetToSeqs(S) : SortStrings(it) = Paths(r)
    BY PathsListed
  <2> QED
    BY <2>1 DEF ArtifactKey, ToolKey, Placed, Headed, Argued, Counted, Named, Pairs
<1>2. KeysOf(r) = {key(it) : it \in SetToSeqs(S)}
  BY DEF KeysOf, IsTool
<1>3. SetToSeqs(S) # {}
  BY PathsListed
<1> HIDE DEF key, S
<1> QED
  BY <1>1, <1>2, <1>3

LEMMA ToolsApart ==
    ASSUME NEW r, NEW s, IsTool(r), IsTool(s), ToolKey(r) = ToolKey(s)
    PROVE  r = s
<1> DEFINE key == ToolKey(r)
<1>1. key \in Text /\ <<>> \in Text /\ Named(r) \in Text /\ Counted(r) \in Text /\ Argued(r) \in Text
      /\ Headed(r) \in Text /\ Placed(r) \in Text
  BY ToolStages
<1>2. \A x \in {r, s} : /\ Prefix(Named(x), key) /\ Prefix(Counted(x), key) /\ Prefix(Argued(x), key)
                        /\ Prefix(Headed(x), key) /\ Prefix(Placed(x), key) /\ Prefix(ToolKey(x), key)
  BY ToolStages
<1>3. \A x \in {r, s} : /\ x = Tool(x.tool, x.argv, x.head, x.inputs)
                        /\ x.tool \in Text /\ x.argv \in Seq(Text) /\ Len(x.argv) \in Nat /\ x.head \in Text
                        /\ x.inputs \in [DOMAIN x.inputs -> Text]
  BY ToolFields
<1>4. \A x \in {r, s} : /\ Len(Paths(x)) \in Nat /\ Paths(x) \in Seq(Text) /\ Pairs(x) \in Seq(Text)
                        /\ Len(Pairs(x)) = 2 * Len(Paths(x)) /\ ToSet(Paths(x)) = DOMAIN x.inputs
                        /\ DOMAIN Paths(x) = 1 .. Len(Paths(x))
  BY PathsListed, PairsWritten
<1>5. r.tool = s.tool /\ Named(r) = Named(s)
  <2>1. Prefix(writeField(<<>>, r.tool), key) /\ Prefix(writeField(<<>>, s.tool), key)
    BY <1>2 DEF Named
  <2>2. r.tool = s.tool
    BY <1>1, <1>3, <2>1, SameField
  <2> QED
    BY <2>2 DEF Named
<1>6. Len(r.argv) = Len(s.argv) /\ Counted(r) = Counted(s)
  <2>1. Prefix(writeUint64(Named(r), Len(r.argv)), key) /\ Prefix(writeUint64(Named(r), Len(s.argv)), key)
    BY <1>2, <1>5 DEF Counted
  <2>2. Len(r.argv) = Len(s.argv)
    BY <1>1, <1>3, <2>1, SameNumber
  <2> QED
    BY <1>5, <2>2 DEF Counted
<1>7. r.argv = s.argv /\ Argued(r) = Argued(s)
  <2>1. Prefix(writeFields(Counted(r), r.argv), key) /\ Prefix(writeFields(Counted(r), s.argv), key)
    BY <1>2, <1>6 DEF Argued
  <2>2. r.argv = s.argv
    BY <1>1, <1>3, <1>6, <2>1, SameFields
  <2> QED
    BY <1>6, <2>2 DEF Argued
<1>8. r.head = s.head /\ Headed(r) = Headed(s)
  <2>1. Prefix(writeField(Argued(r), r.head), key) /\ Prefix(writeField(Argued(r), s.head), key)
    BY <1>2, <1>7 DEF Headed
  <2>2. r.head = s.head
    BY <1>1, <1>3, <2>1, SameField
  <2> QED
    BY <1>7, <2>2 DEF Headed
<1>9. Len(Paths(r)) = Len(Paths(s)) /\ Placed(r) = Placed(s)
  <2>1. Prefix(writeUint64(Headed(r), Len(Paths(r))), key) /\ Prefix(writeUint64(Headed(r), Len(Paths(s))), key)
    BY <1>2, <1>8 DEF Placed
  <2>2. Len(Paths(r)) = Len(Paths(s))
    BY <1>1, <1>4, <2>1, SameNumber
  <2> QED
    BY <1>8, <2>2 DEF Placed
<1>10. Pairs(r) = Pairs(s)
  <2>1. Prefix(writeFields(Placed(r), Pairs(r)), key) /\ Prefix(writeFields(Placed(r), Pairs(s)), key)
    BY <1>2, <1>9 DEF ToolKey
  <2> QED
    BY <1>1, <1>4, <1>9, <2>1, SameFields
<1>11. Paths(r) = Paths(s) /\ \A i \in 1 .. Len(Paths(r)) : r.inputs[Paths(r)[i]] = s.inputs[Paths(r)[i]]
  <2>1. \A i \in 1 .. Len(Paths(r)) : Paths(r)[i] = Paths(s)[i]
    BY <1>9, <1>10, PairsWritten
  <2>2. Paths(r) = Paths(s)
    BY <1>4, <1>9, <2>1
  <2> QED
    BY <1>10, <2>2, PairsWritten
<1>12. r.inputs = s.inputs
  <2>1. DOMAIN r.inputs = DOMAIN s.inputs
    BY <1>4, <1>11
  <2>2. \A x \in DOMAIN r.inputs : r.inputs[x] = s.inputs[x]
    <3>1. \A x \in DOMAIN r.inputs : \E i \in 1 .. Len(Paths(r)) : x = Paths(r)[i]
      BY <1>4 DEF ToSet
    <3> QED
      BY <1>11, <3>1
  <2> QED
    BY <1>3, <2>1, <2>2
<1> QED
  BY <1>3, <1>5, <1>7, <1>8, <1>12

LEMMA PageFields ==
    ASSUME NEW r, IsPage(r)
    PROVE  /\ r = Web(r.url, r.etag) /\ r.url \in Text /\ r.etag \in Text
           /\ KeysOf(r) = {ArtifactKeyWeb(r.url, r.etag)}
           /\ writeField(<<>>, r.url) \in Text
           /\ ArtifactKeyWeb(r.url, r.etag) \in Text
           /\ Prefix(writeField(<<>>, r.url), ArtifactKeyWeb(r.url, r.etag))
<1>1. r = Web(r.url, r.etag) /\ r.url \in Text /\ r.etag \in Text
  BY DEF IsPage, WellFormed
<1>2. KeysOf(r) = {ArtifactKeyWeb(r.url, r.etag)}
  BY DEF KeysOf, IsPage
<1>3. <<>> \in Text
  BY DEF Text
<1>4. writeField(<<>>, r.url) \in Text
  BY <1>1, <1>3, FieldWritten
<1> QED
  BY <1>1, <1>2, <1>4, FieldWritten DEF ArtifactKeyWeb

LEMMA PagesApart ==
    ASSUME NEW r, NEW s, IsPage(r), IsPage(s),
           ArtifactKeyWeb(r.url, r.etag) = ArtifactKeyWeb(s.url, s.etag)
    PROVE  r = s
<1> DEFINE key == ArtifactKeyWeb(r.url, r.etag)
<1>1. key \in Text /\ <<>> \in Text /\ writeField(<<>>, r.url) \in Text
      /\ r.url \in Text /\ s.url \in Text /\ r.etag \in Text /\ s.etag \in Text
      /\ Prefix(writeField(<<>>, r.url), key) /\ Prefix(writeField(<<>>, s.url), key)
  <2>1. <<>> \in Text
    BY DEF Text
  <2> QED
    BY <2>1, PageFields
<1>2. r.url = s.url
  BY <1>1, SameField
<1>3. /\ Prefix(writeField(writeField(<<>>, r.url), r.etag), key)
      /\ Prefix(writeField(writeField(<<>>, r.url), s.etag), key)
  <2>1. Prefix(key, key)
    BY <1>1 DEF Prefix, Text
  <2> QED
    BY <1>2, <2>1 DEF ArtifactKeyWeb
<1>4. r.etag = s.etag
  BY <1>1, <1>3, SameField
<1>5. r = Web(r.url, r.etag) /\ s = Web(s.url, s.etag)
  BY PageFields
<1> QED
  BY <1>2, <1>4, <1>5

(***************************************************************************)
(* The stream of a page ends where that of a tool call of the same name    *)
(* still has a length for every argument, for the head and for the inputs  *)
(* to come.                                                                *)
(***************************************************************************)
LEMMA PageIsNoTool ==
    ASSUME NEW r, NEW s, IsTool(r), IsPage(s)
    PROVE  ToolKey(r) # ArtifactKeyWeb(s.url, s.etag)
<1> SUFFICES ASSUME ToolKey(r) = ArtifactKeyWeb(s.url, s.etag) PROVE FALSE
  OBVIOUS
<1> DEFINE key == ToolKey(r)
           n == Len(r.argv)
<1>1. /\ key \in Text /\ <<>> \in Text /\ Named(r) \in Text /\ Counted(r) \in Text /\ Argued(r) \in Text
      /\ Headed(r) \in Text /\ Placed(r) \in Text
      /\ Prefix(Named(r), key) /\ Prefix(Counted(r), key) /\ Prefix(Placed(r), key)
  BY ToolStages
<1>2. r.tool \in Text /\ r.argv \in Seq(Text) /\ n \in Nat /\ r.head \in Text /\ Len(Paths(r)) \in Nat
  BY ToolFields, PathsListed
<1>3. s.url \in Text /\ s.etag \in Text /\ Prefix(writeField(<<>>, s.url), key)
  BY PageFields
<1>4. Named(r) = writeField(<<>>, s.url)
  <2>1. r.tool = s.url
    BY <1>1, <1>2, <1>3, SameField DEF Named
  <2> QED
    BY <2>1 DEF Named
<1>5. key = writeField(Named(r), s.etag)
  BY <1>4 DEF ArtifactKeyWeb
<1>6. Len(s.etag) \in Nat /\ Prefix(writeUint64(Named(r), Len(s.etag)), key) /\ Len(Named(r)) \in Nat
      /\ Len(key) = Len(Named(r)) + 1 + Len(s.etag)
  <2>1. \A t, f \in Text : /\ Len(f) \in Nat /\ Len(t) \in Nat
                            /\ Prefix(writeUint64(t, Len(f)), writeField(t, f))
                            /\ Len(writeField(t, f)) = Len(t) + 1 + Len(f)
    BY FieldWritten
  <2> HIDE DEF key
  <2> QED
    BY <1>1, <1>3, <1>5, <2>1
<1>7. Len(s.etag) = n
  <2>1. Prefix(writeUint64(Named(r), n), key)
    BY <1>1 DEF Counted
  <2> HIDE DEF n, key
  <2> QED
    BY <1>1, <1>2, <1>6, <2>1, SameNumber
<1>8. Len(Counted(r)) = Len(Named(r)) + 1
  BY <1>1, <1>2, NumberWritten DEF Counted
<1>9. Len(Argued(r)) >= Len(Counted(r)) + n /\ Len(Argued(r)) \in Nat
  BY <1>1, <1>2, FieldsKeepStream DEF Argued
<1>10. Len(Headed(r)) = Len(Argued(r)) + 1 + Len(r.head) /\ Len(r.head) \in Nat
  BY <1>1, <1>2, FieldWritten DEF Headed
<1>11. Len(Placed(r)) = Len(Headed(r)) + 1
  BY <1>1, <1>2, NumberWritten DEF Placed
<1>12. Len(Placed(r)) <= Len(key)
  BY <1>1 DEF Prefix
<1> DEFINE a == Len(Named(r))
           b == Len(Argued(r))
           c == Len(Headed(r))
           d == Len(Placed(r))
           h == Len(r.head)
           l == Len(key)
<1>13. /\ a \in Nat /\ b \in Nat /\ h \in Nat /\ n \in Nat
       /\ l = a + 1 + n /\ b >= a + 1 + n /\ c = b + 1 + h /\ d = c + 1 /\ d <= l
  BY <1>2, <1>6, <1>7, <1>8, <1>9, <1>10, <1>11, <1>12
<1> HIDE DEF a, b, c, d, h, l, n
<1> QED
  BY <1>13

(***************************************************************************)
(* Every request has one key, however the map of its inputs is walked, and *)
(* no two requests share it: tool calls with any arguments and inputs, and *)
(* pages (artifact.go 61-75).                                              *)
(***************************************************************************)
THEOREM OneKeyEach ==
    ASSUME NEW r, WellFormed(r)
    PROVE  /\ \E k \in Text : KeysOf(r) = {k}
           /\ \A s : WellFormed(s) /\ KeysOf(r) \cap KeysOf(s) # {} => r = s
<1>1. \A x : WellFormed(x) => IsTool(x) \/ IsPage(x)
  BY DEF WellFormed, IsTool, IsPage
<1>2. \A x : IsTool(x) => KeysOf(x) = {ToolKey(x)} /\ ToolKey(x) \in Text
  BY ToolHasOneKey, ToolStages
<1>3. \A x : IsPage(x) => /\ KeysOf(x) = {ArtifactKeyWeb(x.url, x.etag)}
                          /\ ArtifactKeyWeb(x.url, x.etag) \in Text
  BY PageFields
<1>4. \E k \in Text : KeysOf(r) = {k}
  BY <1>1, <1>2, <1>3
<1>5. ASSUME NEW s, WellFormed(s), KeysOf(r) \cap KeysOf(s) # {} PROVE r = s
  <2>1. CASE IsTool(r) /\ IsTool(s)
    <3>1. ToolKey(r) = ToolKey(s)
      BY <1>2, <1>5, <2>1
    <3> QED
      BY <2>1, <3>1, ToolsApart
  <2>2. CASE IsPage(r) /\ IsPage(s)
    <3>1. ArtifactKeyWeb(r.url, r.etag) = ArtifactKeyWeb(s.url, s.etag)
      BY <1>3, <1>5, <2>2
    <3> QED
      BY <2>2, <3>1, PagesApart
  <2>3. CASE IsTool(r) /\ IsPage(s)
    BY <1>2, <1>3, <1>5, <2>3, PageIsNoTool
  <2>4. CASE IsPage(r) /\ IsTool(s)
    BY <1>2, <1>3, <1>5, <2>4, PageIsNoTool
  <2> QED
    BY <1>1, <1>5, <2>1, <2>2, <2>3, <2>4
<1> QED
  BY <1>4, <1>5

-----------------------------------------------------------------------------
(***************************************************************************)
(* The keys that the store is used with: ArtifactStoreAssumption says that *)
(* they are those of the derivation, for requests that Go can express.     *)
(***************************************************************************)
LEMMA RequestsApart == KeysSound
<1>1. \A r \in Requests : WellFormed(r) /\ KeysFor(r) = KeysOf(r)
  BY ArtifactStoreAssumption
<1>2. ASSUME NEW r \in Requests PROVE \E k \in Keys : KeysFor(r) = {k}
  <2>1. PICK k : KeysFor(r) = {k}
    BY <1>1, OneKeyEach
  <2>2. k \in Keys
    BY <2>1 DEF Keys
  <2> QED
    BY <2>1, <2>2
<1>3. ASSUME NEW r \in Requests, NEW s \in Requests, KeysFor(r) \cap KeysFor(s) # {}
      PROVE  r = s
  BY <1>1, <1>3, OneKeyEach
<1> QED
  BY <1>2, <1>3 DEF KeysSound

LEMMA PopulationApart == Unstable = 0 /\ Shared = 0
<1>1. /\ IsFiniteSet(Population)
      /\ \A r \in Population : \E k : KeysOf(r) = {k}
      /\ \A r, s \in Population : KeysOf(r) \cap KeysOf(s) # {} => r = s
  <2>1. \A r \in Population : WellFormed(r)
    BY ArtifactStoreAssumption
  <2> QED
    BY <2>1, ArtifactStoreAssumption, OneKeyEach
<1>2. Unstable = 0
  <2>1. \A r \in Population : Cardinality(KeysOf(r)) = 1
    BY <1>1, FS_Singleton
  <2>2. {r \in Population : Cardinality(KeysOf(r)) # 1} = {}
    BY <2>1
  <2> QED
    BY <2>2, FS_EmptySet DEF Unstable
<1>3. Shared = 0
  <2> DEFINE f == [r \in Population |-> CHOOSE k : KeysOf(r) = {k}]
             K == UNION {KeysOf(r) : r \in Population}
  <2>1. \A r \in Population : KeysOf(r) = {f[r]}
    BY <1>1
  <2> HIDE DEF f
  <2>2. f \in Bijection(Population, K)
    <3>1. f = [r \in Population |-> f[r]]
      BY DEF f
    <3>2. f \in [Population -> K]
      BY <2>1, <3>1
    <3>3. \A r, s \in Population : f[r] = f[s] => r = s
      BY <1>1, <2>1
    <3>4. \A k \in K : \E r \in Population : f[r] = k
      BY <2>1
    <3> HIDE DEF K
    <3> QED
      BY <3>2, <3>3, <3>4 DEF Bijection, Injection, Surjection, IsInjective
  <2> HIDE DEF K
  <2>3. Cardinality(K) = Cardinality(Population) /\ Cardinality(Population) \in Nat
    BY <1>1, <2>2, FS_Bijection, FS_CardinalityType DEF ExistsBijection
  <2> QED
    BY <2>3 DEF Shared, K
<1> QED
  BY <1>2, <1>3

(***************************************************************************)
(* Two processes use one file exactly when they mean one request, and the  *)
(* derivation gives every request of any population a key of its own.      *)
(***************************************************************************)
THEOREM KeysStayDistinct == Spec => []KeysDistinct
<1>1. Consistent => KeysDistinct
  <2> SUFFICES ASSUME Consistent PROVE KeysDistinct
    OBVIOUS
  <2>1. ASSUME NEW p \in Processes
        PROVE  \/ op[p].key = None /\ op[p].request = None
               \/ /\ op[p].request \in Requests /\ op[p].key \in Keys
                  /\ op[p].key \in KeysFor(op[p].request)
    <3>1. Called(op[p])
      BY DEF Consistent
    <3>2. CASE op[p].at = "idle"
      BY <3>1, <3>2 DEF Called, NoOp
    <3>3. CASE op[p].at # "idle"
      <4>1. op[p].request \in Requests /\ op[p].key \in KeysFor(op[p].request)
        BY <3>1, <3>3 DEF Called
      <4> QED
        BY <4>1 DEF Keys
    <3> QED
      BY <3>2, <3>3
  <2>2. None \notin Requests /\ None \notin Keys
    BY FileStoreAssumption, ArtifactStoreAssumption
  <2>3. \A r \in Requests : \E k \in Keys : KeysFor(r) = {k}
    BY RequestsApart DEF KeysSound
  <2>4. \A r, s \in Requests : KeysFor(r) \cap KeysFor(s) # {} => r = s
    BY RequestsApart DEF KeysSound
  <2>5. ASSUME NEW p \in Processes, NEW q \in Processes
        PROVE  op[p].key = op[q].key <=> op[p].request = op[q].request
    <3>1. op[p].key = op[q].key => op[p].request = op[q].request
      BY <2>1, <2>2, <2>4
    <3>2. op[p].request = op[q].request => op[p].key = op[q].key
      BY <2>1, <2>2, <2>3
    <3> QED
      BY <3>1, <3>2
  <2> QED
    BY <2>5, RequestsApart, PopulationApart DEF KeysDistinct
<1> QED
  BY <1>1, AlwaysConsistent, PTL

(***************************************************************************)
(* With the keys of artifact.go nothing is left to assume: the file store  *)
(* is a Store.                                                             *)
(***************************************************************************)
THEOREM ArtifactsAreStored == Spec => ImplementsStore
  BY RequestsApart, Implements

=============================================================================
