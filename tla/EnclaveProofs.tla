--------------------------- MODULE EnclaveProofs ---------------------------
(***************************************************************************)
(* The enclave for any number of rotations and any configuration file:     *)
(* the queues of the two locks, the guard of the orchestrator client, and  *)
(* what readiness says of the service.                                     *)
(***************************************************************************)
EXTENDS Enclave, TLAPS

Labels == {"idle", "sign", "lock", "evidence", "connect", "rpc", "waiting", "done"}

(* Queues.                                                                 *)

\* The queue q holds the calls of the set S, each once.
Holds(q, S) ==
    /\ q \in Seq(Rotations)
    /\ \A r \in Rotations : r \in S <=> \E i \in DOMAIN q : q[i] = r
    /\ \A i, j \in DOMAIN q : q[i] = q[j] => i = j

At(label) == {r \in Rotations : pc[r] = label}

\* A call that joins a queue is its last.
LEMMA AppendHolds ==
    ASSUME NEW S, NEW q, Holds(q, S), NEW r \in Rotations, r \notin S
    PROVE  Holds(Append(q, r), S \cup {r})
<1> DEFINE p == Append(q, r)
<1>1. /\ q \in Seq(Rotations) /\ Len(q) \in Nat /\ DOMAIN q = 1..Len(q)
      /\ \A x \in Rotations : x \in S <=> \E i \in DOMAIN q : q[i] = x
      /\ \A i, j \in DOMAIN q : q[i] = q[j] => i = j
  BY DEF Holds
<1>2. /\ p \in Seq(Rotations) /\ DOMAIN p = 1..(Len(q) + 1)
      /\ \A i \in 1..Len(q) : p[i] = q[i]
      /\ p[Len(q) + 1] = r
  BY <1>1
<1> HIDE DEF p
<1>3. \A i \in 1..Len(q) : q[i] # r
  BY <1>1
<1>4. \A i, j \in DOMAIN p : p[i] = p[j] => i = j
  BY <1>1, <1>2, <1>3
<1>5. ASSUME NEW x \in Rotations
      PROVE  x \in S \cup {r} <=> \E i \in DOMAIN p : p[i] = x
  BY <1>1, <1>2
<1>6. QED
  BY <1>2, <1>4, <1>5 DEF Holds, p

\* The call that is served leaves the head of the queue.
LEMMA TailHolds ==
    ASSUME NEW S, NEW q, Holds(q, S), q # <<>>
    PROVE  Holds(Tail(q), S \ {Head(q)})
<1> DEFINE p == Tail(q)
<1>1. /\ q \in Seq(Rotations) /\ Len(q) \in Nat /\ Len(q) >= 1 /\ DOMAIN q = 1..Len(q)
      /\ Head(q) = q[1]
      /\ \A x \in Rotations : x \in S <=> \E i \in DOMAIN q : q[i] = x
      /\ \A i, j \in DOMAIN q : q[i] = q[j] => i = j
  BY DEF Holds
<1>2. /\ p \in Seq(Rotations) /\ DOMAIN p = 1..(Len(q) - 1)
      /\ \A i \in 1..(Len(q) - 1) : p[i] = q[i + 1]
  BY <1>1
<1> HIDE DEF p
<1>3. \A i, j \in DOMAIN p : p[i] = p[j] => i = j
  <2> SUFFICES ASSUME NEW i \in DOMAIN p, NEW j \in DOMAIN p, p[i] = p[j]
               PROVE  i = j
    OBVIOUS
  <2>1. q[i + 1] = q[j + 1] /\ i + 1 \in DOMAIN q /\ j + 1 \in DOMAIN q
    BY <1>1, <1>2
  <2>2. i + 1 = j + 1
    BY <1>1, <2>1
  <2>3. QED
    BY <1>2, <2>2
<1>4. ASSUME NEW x \in Rotations
      PROVE  x \in S \ {q[1]} <=> \E i \in DOMAIN p : p[i] = x
  <2>1. ASSUME x \in S \ {q[1]} PROVE \E i \in DOMAIN p : p[i] = x
    <3>1. PICK i \in DOMAIN q : q[i] = x
      BY <1>1, <2>1
    <3>2. i - 1 \in DOMAIN p /\ p[i - 1] = q[(i - 1) + 1] /\ (i - 1) + 1 = i
      BY <1>1, <1>2, <2>1, <3>1
    <3>3. QED
      BY <3>1, <3>2
  <2>2. ASSUME NEW i \in DOMAIN p, p[i] = x PROVE x \in S \ {q[1]}
    <3>1. i + 1 \in DOMAIN q /\ q[i + 1] = x /\ 1 \in DOMAIN q /\ i + 1 # 1
      BY <1>1, <1>2, <2>2
    <3>2. QED
      BY <1>1, <3>1
  <2>3. QED
    BY <2>1, <2>2
<1>5. QED
  BY <1>1, <1>2, <1>3, <1>4 DEF Holds, p

\* A call whose future is dropped leaves the queue wherever it stands.
LEMMA LeaveHolds ==
    ASSUME NEW S, NEW q, Holds(q, S), NEW r \in Rotations, NEW p, Leaves(r, q, p)
    PROVE  Holds(p, S \ {r})
<1>1. /\ q \in Seq(Rotations) /\ Len(q) \in Nat /\ DOMAIN q = 1..Len(q)
      /\ \A x \in Rotations : x \in S <=> \E i \in DOMAIN q : q[i] = x
      /\ \A i, j \in DOMAIN q : q[i] = q[j] => i = j
  BY DEF Holds
<1>2. PICK k \in DOMAIN q : q[k] = r /\ p = SubSeq(q, 1, k - 1) \o SubSeq(q, k + 1, Len(q))
  BY Zenon DEF Leaves
<1> DEFINE a == SubSeq(q, 1, k - 1)
           b == SubSeq(q, k + 1, Len(q))
<1>3. /\ a \in Seq(Rotations) /\ Len(a) = k - 1 /\ \A i \in 1..(k - 1) : a[i] = q[i]
      /\ b \in Seq(Rotations) /\ Len(b) = Len(q) - k /\ \A i \in 1..(Len(q) - k) : b[i] = q[k + i]
  <2>1. q \in Seq(Rotations) /\ k \in 1..Len(q) /\ Len(q) \in Nat
    BY <1>1
  <2>2. a \in Seq(Rotations) /\ Len(a) = k - 1 /\ \A i \in 1..(k - 1) : a[i] = q[i]
    BY <2>1
  <2>3. b \in Seq(Rotations) /\ Len(b) = Len(q) - k /\ \A i \in 1..(Len(q) - k) : b[i] = q[k + i]
    BY <2>1
  <2>4. QED
    BY <2>2, <2>3
<1>4. p = a \o b
  BY <1>2
<1> HIDE DEF a, b
<1>5. a \in Seq(Rotations) /\ b \in Seq(Rotations)
  BY <1>3
<1>6. /\ p \in Seq(Rotations) /\ Len(p) = Len(a) + Len(b)
      /\ \A i \in 1..Len(a) : p[i] = a[i]
      /\ \A i \in 1..Len(b) : p[Len(a) + i] = b[i]
  BY <1>4, <1>5
<1>7. /\ p \in Seq(Rotations) /\ DOMAIN p = 1..(Len(q) - 1)
      /\ \A i \in 1..(k - 1) : p[i] = q[i]
  BY <1>1, <1>3, <1>6
<1>8. ASSUME NEW i \in k..(Len(q) - 1) PROVE p[i] = q[i + 1]
  <2>1. i - (k - 1) \in 1..(Len(q) - k) /\ (k - 1) + (i - (k - 1)) = i /\ k + (i - (k - 1)) = i + 1
    BY <1>1
  <2>2. p[(k - 1) + (i - (k - 1))] = b[i - (k - 1)]
    BY <1>3, <1>6, <2>1, Zenon
  <2>3. b[i - (k - 1)] = q[k + (i - (k - 1))]
    BY <1>3, <2>1, Zenon
  <2>4. QED
    BY <2>1, <2>2, <2>3
<1>9. \A i \in DOMAIN p : \E j \in DOMAIN q : j = (IF i < k THEN i ELSE i + 1) /\ p[i] = q[j] /\ j # k
  BY <1>1, <1>7, <1>8
<1>10. \A i, j \in DOMAIN p : p[i] = p[j] => i = j
  <2> SUFFICES ASSUME NEW i \in DOMAIN p, NEW j \in DOMAIN p, p[i] = p[j]
               PROVE  i = j
    OBVIOUS
  <2>1. PICK m \in DOMAIN q : m = (IF i < k THEN i ELSE i + 1) /\ p[i] = q[m]
    BY <1>9
  <2>2. PICK n \in DOMAIN q : n = (IF j < k THEN j ELSE j + 1) /\ p[j] = q[n]
    BY <1>9
  <2>3. q[m] = q[n]
    BY <2>1, <2>2
  <2>4. m = n
    BY <1>1, <2>3, Zenon
  <2>5. QED
    BY <1>1, <1>7, <2>1, <2>2, <2>4
<1>11. ASSUME NEW x \in Rotations
       PROVE  x \in S \ {r} <=> \E i \in DOMAIN p : p[i] = x
  <2>1. ASSUME x \in S \ {r} PROVE \E i \in DOMAIN p : p[i] = x
    <3>1. PICK j \in DOMAIN q : q[j] = x
      BY <1>1, <2>1
    <3>2. j # k
      BY <1>2, <2>1, <3>1
    <3>3. CASE j < k
      <4>1. j \in 1..(k - 1) /\ j \in DOMAIN p
        BY <1>1, <1>7, <3>3
      <4>2. QED
        BY <1>7, <3>1, <4>1, Zenon
    <3>4. CASE k < j
      <4>1. j - 1 \in k..(Len(q) - 1) /\ j - 1 \in DOMAIN p /\ (j - 1) + 1 = j
        BY <1>1, <1>7, <3>4
      <4>2. QED
        BY <1>8, <3>1, <4>1
    <3>5. QED
      BY <1>1, <3>2, <3>3, <3>4
  <2>2. ASSUME NEW i \in DOMAIN p, p[i] = x PROVE x \in S \ {r}
    <3>1. PICK j \in DOMAIN q : p[i] = q[j] /\ j # k
      BY <1>9
    <3>2. QED
      BY <1>1, <1>2, <2>2, <3>1
  <2>3. QED
    BY <2>1, <2>2
<1>12. QED
  BY <1>7, <1>10, <1>11 DEF Holds

-----------------------------------------------------------------------------
(* The calls.                                                              *)

Codes == {"none", "Ok", "Internal", "Unavailable", "Cancelled"}

TcaTypes ==
    /\ ca \in Rotations \cup {NoCA}
    /\ attester \in Rotations \cup {NoCA}
    /\ pc \in [Rotations -> Labels]
    /\ status \in [Rotations -> Codes]

Queues == Holds(queue, At("lock")) /\ Holds(waiters, At("waiting"))

TcaInv == TcaTypes /\ Queues /\ AttesterGuarded

\* A call that moves leaves the calls of one label and joins those of another.
LEMMA Moved ==
    ASSUME TcaTypes, NEW r \in Rotations, NEW label \in Labels, Goto(r, label)
    PROVE  /\ pc' \in [Rotations -> Labels]
           /\ pc'[r] = label /\ \A x \in Rotations \ {r} : pc'[x] = pc[x]
           /\ At(label)' = At(label) \cup {r}
           /\ \A m \in Labels \ {label} : At(m)' = At(m) \ {r}
BY DEF TcaTypes, Goto, At

\* Types are kept by every step of a call.
LEMMA TypesKept ==
    ASSUME TcaTypes, NEW tca_client, TcaNext(tca_client)
    PROVE  TcaTypes'
<1> USE DEF TcaTypes, Goto, Finish, Labels, Codes, Code
<1>1. PICK r \in Rotations :
        \/ RotateCall(r, tca_client) \/ Sign(r) \/ TakeAttester(r) \/ FetchEvidence(r)
        \/ Connect(r) \/ Answer(r) \/ NetworkFails(r) \/ Install(r) \/ Cancel(r)
  BY DEF TcaNext
<1>2. CASE RotateCall(r, tca_client)
  BY <1>2 DEF RotateCall
<1>3. CASE Sign(r)
  BY <1>3 DEF Sign
<1>4. CASE TakeAttester(r)
  BY <1>4 DEF TakeAttester
<1>5. CASE FetchEvidence(r)
  BY <1>5 DEF FetchEvidence, DropGuard
<1>6. CASE Connect(r)
  BY <1>6 DEF Connect
<1>7. CASE Answer(r)
  BY <1>7 DEF Answer
<1>8. CASE NetworkFails(r)
  BY <1>8 DEF NetworkFails
<1>9. CASE Install(r)
  BY <1>9 DEF Install
<1>10. CASE Cancel(r)
  BY <1>10 DEF Cancel
<1>11. QED
  BY <1>1, <1>2, <1>3, <1>4, <1>5, <1>6, <1>7, <1>8, <1>9, <1>10

\* The guard follows the call that fetches evidence.
LEMMA GuardKept ==
    ASSUME TcaTypes, AttesterGuarded, NEW tca_client, TcaNext(tca_client)
    PROVE  AttesterGuarded'
<1> USE NoRotationAssumption DEF TcaTypes, AttesterGuarded, Goto, Finish
<1>1. PICK r \in Rotations :
        \/ RotateCall(r, tca_client) \/ Sign(r) \/ TakeAttester(r) \/ FetchEvidence(r)
        \/ Connect(r) \/ Answer(r) \/ NetworkFails(r) \/ Install(r) \/ Cancel(r)
  BY DEF TcaNext
<1>2. CASE RotateCall(r, tca_client)
  BY <1>2 DEF RotateCall
<1>3. CASE Sign(r)
  BY <1>3 DEF Sign
<1>4. CASE TakeAttester(r)
  BY <1>4 DEF TakeAttester
<1>5. CASE FetchEvidence(r)
  BY <1>5 DEF FetchEvidence, DropGuard
<1>6. CASE Connect(r)
  BY <1>6 DEF Connect
<1>7. CASE Answer(r)
  BY <1>7 DEF Answer
<1>8. CASE NetworkFails(r)
  BY <1>8 DEF NetworkFails
<1>9. CASE Install(r)
  BY <1>9 DEF Install
<1>10. CASE Cancel(r)
  BY <1>10 DEF Cancel
<1>11. QED
  BY <1>1, <1>2, <1>3, <1>4, <1>5, <1>6, <1>7, <1>8, <1>9, <1>10

\* Each queue holds the calls that wait in it, however they come and go.
LEMMA QueuesKept ==
    ASSUME TcaTypes, Queues, NEW tca_client, TcaNext(tca_client)
    PROVE  Queues'
<1>1. PICK r \in Rotations :
        \/ RotateCall(r, tca_client) \/ Sign(r) \/ TakeAttester(r) \/ FetchEvidence(r)
        \/ Connect(r) \/ Answer(r) \/ NetworkFails(r) \/ Install(r) \/ Cancel(r)
  BY DEF TcaNext
<1>2. Holds(queue, At("lock")) /\ Holds(waiters, At("waiting"))
  BY DEF Queues
<1>3. SUFFICES Holds(queue', At("lock")') /\ Holds(waiters', At("waiting")')
  BY DEF Queues, Holds
<1>4. \A label : r \in At(label) <=> pc[r] = label
  BY DEF At
\* A move between labels outside both queues.
<1>5. ASSUME NEW label \in Labels \ {"lock", "waiting"}, Goto(r, label),
             pc[r] \notin {"lock", "waiting"}, UNCHANGED <<queue, waiters>>
      PROVE  Holds(queue', At("lock")') /\ Holds(waiters', At("waiting")')
  <2>1. At("lock")' = At("lock") \ {r} /\ At("waiting")' = At("waiting") \ {r}
    BY <1>5, Moved DEF Labels
  <2>2. At("lock")' = At("lock") /\ At("waiting")' = At("waiting")
    BY <1>4, <1>5, <2>1
  <2>3. QED
    BY <1>2, <1>5, <2>2
\* The slot's lock is requested.
<1>6. ASSUME Goto(r, "waiting"), pc[r] \notin {"lock", "waiting"},
             waiters' = Append(waiters, r), UNCHANGED queue
      PROVE  Holds(queue', At("lock")') /\ Holds(waiters', At("waiting")')
  <2>1. At("lock")' = At("lock") \ {r} /\ At("waiting")' = At("waiting") \cup {r}
    BY <1>6, Moved DEF Labels
  <2>2. At("lock")' = At("lock")
    BY <1>4, <1>6, <2>1
  <2>3. Holds(Append(waiters, r), At("waiting") \cup {r})
    BY <1>2, <1>4, <1>6, AppendHolds
  <2>4. QED
    BY <1>2, <1>6, <2>1, <2>2, <2>3, Zenon
<1>7. CASE RotateCall(r, tca_client)
  BY <1>5, <1>6, <1>7 DEF RotateCall, Finish, Labels
<1>8. CASE Sign(r)
  <2>1. CASE Goto(r, "lock") /\ queue' = Append(queue, r)
    <3>1. pc[r] = "sign" /\ waiters' = waiters
      BY <1>8 DEF Sign
    <3>2. At("lock")' = At("lock") \cup {r} /\ At("waiting")' = At("waiting") \ {r}
      BY <2>1, Moved DEF Labels
    <3>3. At("waiting")' = At("waiting")
      BY <1>4, <3>1, <3>2
    <3>4. Holds(Append(queue, r), At("lock") \cup {r})
      BY <1>2, <1>4, <3>1, AppendHolds
    <3>5. QED
      BY <1>2, <2>1, <3>1, <3>2, <3>3, <3>4, Zenon
  <2>2. CASE Finish(r, Code("Platform")) /\ UNCHANGED queue
    BY <1>5, <1>8, <2>2 DEF Sign, Finish, Labels
  <2>3. QED
    BY <1>8, <2>1, <2>2 DEF Sign
<1>9. CASE TakeAttester(r)
  <2>1. /\ pc[r] = "lock" /\ queue # <<>> /\ Head(queue) = r /\ queue' = Tail(queue)
        /\ Goto(r, "evidence") /\ waiters' = waiters
    BY <1>9 DEF TakeAttester
  <2>2. At("lock")' = At("lock") \ {r} /\ At("waiting")' = At("waiting") \ {r}
    BY <2>1, Moved DEF Labels
  <2>3. At("waiting")' = At("waiting")
    <3>1. pc[r] = "lock"
      BY <2>1
    <3>2. r \notin At("waiting")
      BY <3>1 DEF At
    <3>3. QED
      BY <2>2, <3>2
  <2>4. Holds(Tail(queue), At("lock") \ {r})
    BY <1>2, <2>1, TailHolds
  <2>5. QED
    BY <1>2, <2>1, <2>2, <2>3, <2>4, Zenon
<1>10. CASE FetchEvidence(r)
  BY <1>5, <1>10 DEF FetchEvidence, Finish, Labels
<1>11. CASE Connect(r)
  BY <1>5, <1>11 DEF Connect, Labels
<1>12. CASE Answer(r)
  BY <1>5, <1>6, <1>12 DEF Answer, Finish, Labels
<1>13. CASE NetworkFails(r)
  BY <1>5, <1>13 DEF NetworkFails, Finish, Labels
<1>14. CASE Install(r)
  <2>1. /\ pc[r] = "waiting" /\ waiters # <<>> /\ Head(waiters) = r /\ waiters' = Tail(waiters)
        /\ Goto(r, "done") /\ queue' = queue
    BY <1>14 DEF Install, Finish
  <2>2. At("lock")' = At("lock") \ {r} /\ At("waiting")' = At("waiting") \ {r}
    BY <2>1, Moved DEF Labels
  <2>3. At("lock")' = At("lock")
    <3>1. pc[r] = "waiting"
      BY <2>1
    <3>2. r \notin At("lock")
      BY <3>1 DEF At
    <3>3. QED
      BY <2>2, <3>2
  <2>4. Holds(Tail(waiters), At("waiting") \ {r})
    BY <1>2, <2>1, TailHolds
  <2>5. QED
    BY <1>2, <2>1, <2>2, <2>3, <2>4, Zenon
<1>15. CASE Cancel(r)
  <2>1. Goto(r, "done")
    BY <1>15 DEF Cancel, Finish
  <2>2. At("lock")' = At("lock") \ {r} /\ At("waiting")' = At("waiting") \ {r}
    BY <2>1, Moved DEF Labels
  <2>3. CASE pc[r] \in {"sign", "connect", "rpc", "evidence"} /\ UNCHANGED <<waiters, queue>>
    BY <1>5, <2>1, <2>3 DEF Labels
  <2>4. CASE pc[r] = "lock" /\ Leaves(r, queue, queue') /\ UNCHANGED <<waiters, attester>>
    <3>1. At("waiting")' = At("waiting")
      BY <1>4, <2>2, <2>4
    <3>2. Holds(queue', At("lock") \ {r})
      BY <1>2, <2>4, LeaveHolds
    <3>3. QED
      BY <1>2, <2>2, <2>4, <3>1, <3>2
  <2>5. CASE pc[r] = "waiting" /\ Leaves(r, waiters, waiters') /\ UNCHANGED <<attester, queue>>
    <3>1. At("lock")' = At("lock")
      BY <1>4, <2>2, <2>5
    <3>2. Holds(waiters', At("waiting") \ {r})
      BY <1>2, <2>5, LeaveHolds
    <3>3. QED
      BY <1>2, <2>2, <2>5, <3>1, <3>2
  <2>6. \/ pc[r] \in {"sign", "connect", "rpc", "evidence"} /\ UNCHANGED <<waiters, queue>>
        \/ pc[r] = "lock" /\ Leaves(r, queue, queue') /\ UNCHANGED <<waiters, attester>>
        \/ pc[r] = "waiting" /\ Leaves(r, waiters, waiters') /\ UNCHANGED <<attester, queue>>
    BY <1>15 DEF Cancel
  <2>7. QED
    BY <2>3, <2>4, <2>5, <2>6
<1>16. QED
  BY <1>1, <1>7, <1>8, <1>9, <1>10, <1>11, <1>12, <1>13, <1>14, <1>15

-----------------------------------------------------------------------------
(* The start.                                                              *)

Phases == {"channel", "configure", "client", "announce", "bind", "serving", "exited"}

\* The configuration that a file stands for.
Parsed == IF file.kind = "empty" THEN Default ELSE FromJson(file.set)

Built ==
    /\ file.kind # "broken"
    /\ service = <<[tca_client |-> IF Parsed.use_self_signed_cert THEN <<>> ELSE <<Parsed.tca_endpoint>>,
                    include_development_policy |-> Parsed.include_development_policy,
                    enable_c2sp_tlog |-> Parsed.enable_c2sp_tlog]>>

MainInv ==
    /\ phase \in Phases /\ file \in Files /\ ready \in BOOLEAN
    /\ phase = "client" => file.kind # "broken" /\ config = <<Parsed>>
    /\ phase \in {"announce", "bind", "serving"} \/ ready => Built
    /\ phase \in {"channel", "configure", "client"} => ~ready

\* main keeps track of the file it was given.
LEMMA MainKept ==
    ASSUME MainInv, MainNext
    PROVE  MainInv'
<1> USE DEF MainInv, Phases
<1>1. CASE OpenChannel
  BY <1>1 DEF OpenChannel, Exit, Parsed, Built
<1>2. CASE Configure
  BY <1>2 DEF Configure, Exit, Parsed, Built
<1>3. CASE BuildService
  BY <1>3 DEF BuildService, Exit, Parsed, Built
<1>4. CASE Announce
  BY <1>4, Zenon DEF Announce, Exit, Parsed, Built
<1>5. CASE Bind
  BY <1>5 DEF Bind, Exit, Parsed, Built
<1>6. QED
  BY <1>1, <1>2, <1>3, <1>4, <1>5 DEF MainNext

-----------------------------------------------------------------------------
(* Theorems.                                                               *)

Inv == MainInv /\ TcaInv

\* The invariant of the process.
LEMMA Invariant == Spec => []Inv
<1>1. Init => Inv
  <2> SUFFICES ASSUME Init
               PROVE  Inv
    OBVIOUS
  <2>1. MainInv
    BY Zenon DEF Init, MainInit, MainInv, Phases
  <2>2. TcaTypes /\ AttesterGuarded
    BY NoRotationAssumption DEF Init, TcaInit, TcaTypes, AttesterGuarded, Labels, Codes
  <2>3. queue = <<>> /\ waiters = <<>> /\ At("lock") = {} /\ At("waiting") = {}
    BY DEF Init, TcaInit, At
  <2>4. Holds(<<>>, {})
    BY DEF Holds
  <2>5. QED
    BY <2>1, <2>2, <2>3, <2>4 DEF Inv, TcaInv, Queues
<1>2. Inv /\ [Next]_vars => Inv'
  <2> SUFFICES ASSUME Inv, [Next]_vars
               PROVE  Inv'
    OBVIOUS
  <2>1. CASE MainNext /\ UNCHANGED tcaVars
    <3>1. MainInv'
      BY <2>1, MainKept DEF Inv
    <3>2. TcaInv'
      BY <2>1 DEF Inv, tcaVars, TcaInv, TcaTypes, Queues, Holds, At, AttesterGuarded
    <3>3. QED
      BY <3>1, <3>2 DEF Inv
  <2>2. CASE Serve
    <3>1. MainInv'
      BY <2>2 DEF Inv, Serve, mainVars, MainInv, Built, Parsed
    <3>2. TcaTypes /\ Queues /\ AttesterGuarded /\ TcaNext(service[1].tca_client # <<>>)
      BY <2>2 DEF Inv, TcaInv, Serve
    <3>3. TcaInv'
      BY <3>2, TypesKept, GuardKept, QueuesKept DEF TcaInv
    <3>4. QED
      BY <3>1, <3>3 DEF Inv
  <2>3. CASE UNCHANGED vars
    <3>1. UNCHANGED mainVars /\ UNCHANGED tcaVars
      BY <2>3 DEF vars
    <3>2. MainInv'
      BY <3>1 DEF Inv, mainVars, MainInv, Built, Parsed
    <3>3. TcaInv'
      BY <3>1 DEF Inv, tcaVars, TcaInv, TcaTypes, Queues, Holds, At, AttesterGuarded
    <3>4. QED
      BY <3>2, <3>3 DEF Inv
  <2>4. QED
    BY <2>1, <2>2, <2>3 DEF Next
<1>3. QED
  BY <1>1, <1>2, PTL DEF Spec

\* However many calls rotate the key, fail or are dropped: each stands in
\* the queue it waits in, once, and in no other.
THEOREM QueuesExact == Spec => []TypeOK
<1>1. Inv => TypeOK
  BY DEF Inv, MainInv, Phases, TcaInv, TcaTypes, Labels, Codes, Queues, Holds, At, TypeOK, Queued
<1>2. QED
  BY <1>1, Invariant, PTL

\* The guard of the orchestrator client (attestation.rs) is held exactly
\* while its holder fetches evidence, for any number of rotations.
THEOREM AttesterExclusive == Spec => []AttesterGuarded
<1>1. Inv => AttesterGuarded
  BY DEF Inv, TcaInv
<1>2. QED
  BY <1>1, Invariant, PTL

\* What a field of the configuration is, for a file of any content.
LEMMA ParsedField ==
    ASSUME file \in Files, NEW field \in Fields
    PROVE  Parsed[field] = IF field \in DOMAIN file.set THEN file.set[field] ELSE Default[field]
BY FilesAssumption DEF Parsed, FromJson, Default, Fields

\* Whatever the configuration file holds: when the orchestrator hears that
\* the service is ready, it was built as the file says (main.rs, config.rs).
THEOREM ReadyMeansConfigured == Spec => []ReadyAsConfigured
<1>1. Inv => ReadyAsConfigured
  <2> SUFFICES ASSUME Inv, ready
               PROVE  ReadyAsConfigured
    BY Zenon DEF ReadyAsConfigured
  <2> DEFINE Says(field, value) == field \in DOMAIN file.set /\ file.set[field] = value
             signed == Parsed.use_self_signed_cert
             development == Parsed.include_development_policy
             c2sp == Parsed.enable_c2sp_tlog
  <2>1. file \in Files /\ Built
    BY DEF Inv, MainInv
  <2>2. \A field \in DOMAIN file.set \ {"tca_endpoint"} : file.set[field] \in BOOLEAN
    BY <2>1, FilesAssumption
  <2>3. signed = Says("use_self_signed_cert", TRUE)
    <3>1. signed = IF "use_self_signed_cert" \in DOMAIN file.set
                   THEN file.set["use_self_signed_cert"] ELSE FALSE
      BY <2>1, ParsedField, Zenon DEF Fields, Default
    <3>2. QED
      BY <2>2, <3>1, Zenon
  <2>4. development = ~Says("include_development_policy", FALSE)
    <3>1. development = IF "include_development_policy" \in DOMAIN file.set
                        THEN file.set["include_development_policy"] ELSE TRUE
      BY <2>1, ParsedField, Zenon DEF Fields, Default
    <3>2. QED
      BY <2>2, <3>1, Zenon
  <2>5. c2sp = Says("enable_c2sp_tlog", TRUE)
    <3>1. c2sp = IF "enable_c2sp_tlog" \in DOMAIN file.set
                 THEN file.set["enable_c2sp_tlog"] ELSE FALSE
      BY <2>1, ParsedField, Zenon DEF Fields, Default
    <3>2. QED
      BY <2>2, <3>1, Zenon
  <2>6. /\ service # <<>> /\ file.kind # "broken"
        /\ service[1].tca_client = IF signed THEN <<>> ELSE <<Parsed.tca_endpoint>>
        /\ service[1].include_development_policy = development
        /\ service[1].enable_c2sp_tlog = c2sp
    BY <2>1 DEF Built
  <2> HIDE DEF signed, development, c2sp
  <2>7. (service[1].tca_client = <<>>) = Says("use_self_signed_cert", TRUE)
    <3>1. service[1].tca_client = <<>> <=> signed
      BY <2>3, <2>6
    <3>2. QED
      BY <2>3, <3>1, Zenon
  <2>8. QED
    BY <2>4, <2>5, <2>6, <2>7 DEF ReadyAsConfigured
<1>2. QED
  BY <1>1, Invariant, PTL

-----------------------------------------------------------------------------
(* The steps of the client, seen from the service.                         *)

Awaiting == {"sign", "lock", "evidence", "connect", "rpc"}

Seen(label) == IF label \in Awaiting THEN "await_tca" ELSE label
SeenPc == [r \in Rotations |-> IF pc[r] \in Awaiting THEN "await_tca" ELSE pc[r]]

\* What the service shows of a call.
ServerView == <<ca, waiters, SeenPc, status>>

\* The service starts without an authority and without calls.
LEMMA ServerInit == Init => Server(FALSE)!Init
<1> SUFFICES ASSUME Init
             PROVE  Server(FALSE)!Init
  OBVIOUS
<1>1. /\ <<>> = [c \in {} \cup {} |-> NoCA]
      /\ <<>> = [c \in {} |-> NoCA]
      /\ <<>> = [c \in {} |-> <<>>]
  OBVIOUS
<1>2. {} = [key: {}, nonce: {NoCA}]
  OBVIOUS
<1>3. Server(FALSE)!Calls = Rotations
  BY DEF Server!Calls
<1>4. QED
  BY <1>1, <1>2, <1>3, Zenon DEF Init, TcaInit, Server!Init

\* A move of the call is a move of what is seen of it.
LEMMA SeenMoves ==
    ASSUME TcaTypes, NEW r \in Rotations, NEW label \in Labels, Goto(r, label)
    PROVE  SeenPc' = [SeenPc EXCEPT ![r] = Seen(label)]
BY Zenon DEF TcaTypes, Goto, SeenPc, Seen

\* And nothing is seen of a move between two awaits of the client.
LEMMA UnseenMoves ==
    ASSUME TcaTypes, NEW r \in Rotations, NEW label \in Awaiting, pc[r] \in Awaiting, Goto(r, label)
    PROVE  SeenPc' = SeenPc
BY DEF TcaTypes, Goto, SeenPc, Awaiting

\* A call that fails while the client awaits.
LEMMA SeenFailure ==
    ASSUME TcaTypes, NEW b \in BOOLEAN, NEW r \in Rotations, pc[r] \in Awaiting,
           NEW code \in {"Unavailable", "Internal"}, Finish(r, code), UNCHANGED <<ca, waiters>>
    PROVE  Server(b)!TcaFailed(r)
<1>1. SeenPc[r] = "await_tca"
  BY DEF SeenPc
<1>2. SeenPc' = [SeenPc EXCEPT ![r] = "done"]
  BY SeenMoves DEF Finish, Labels, Seen, Awaiting
<1>3. status' = [status EXCEPT ![r] = code]
  BY DEF Finish
<1>4. QED
  BY <1>1, <1>2, <1>3, Zenon
     DEF Server!TcaFailed, Server!Finish, Server!Goto, Server!lockVars, Server!sessionVars, SeenPc, Awaiting

\* A call that joins the queue of the slot.
LEMMA SeenEnqueue ==
    ASSUME TcaTypes, NEW b \in BOOLEAN, NEW r \in Rotations,
           Goto(r, "waiting"), waiters' = Append(waiters, r)
    PROVE  Server(b)!Enqueue(r)
<1>1. SeenPc' = [SeenPc EXCEPT ![r] = "waiting"]
  BY SeenMoves DEF Labels, Seen, Awaiting
<1>2. QED
  BY <1>1 DEF Server!Enqueue, Server!Goto, SeenPc, Awaiting

\* Every step of the client is a step of the service or invisible to it.
LEMMA ServerStep ==
    ASSUME TcaTypes, NEW b \in BOOLEAN, TcaNext(~b)
    PROVE  Server(b)!Next \/ UNCHANGED ServerView
<1>1. PICK r \in Rotations :
        \/ RotateCall(r, ~b) \/ Sign(r) \/ TakeAttester(r) \/ FetchEvidence(r)
        \/ Connect(r) \/ Answer(r) \/ NetworkFails(r) \/ Install(r) \/ Cancel(r)
  BY DEF TcaNext
<1>2. pc[r] \in Labels /\ SeenPc[r] = Seen(pc[r])
  BY DEF TcaTypes, SeenPc, Seen
<1>3. \/ Server(b)!RotateCall(r) \/ Server(b)!TcaCertified(r) \/ Server(b)!TcaFailed(r)
      \/ Server(b)!Install(r) \/ Server(b)!RotateCancel(r) \/ UNCHANGED ServerView
  <2>1. CASE RotateCall(r, ~b)
    <3>1. pc[r] = "idle" /\ SeenPc[r] = "idle" /\ UNCHANGED ca
      BY <1>2, <2>1 DEF RotateCall, Seen, Awaiting
    <3>2. CASE Finish(r, "Internal") /\ UNCHANGED waiters
      <4>1. SeenPc' = [SeenPc EXCEPT ![r] = "done"] /\ status' = [status EXCEPT ![r] = "Internal"]
        BY <3>2, SeenMoves DEF Finish, Labels, Seen, Awaiting
      <4>2. Server(b)!Finish(r, "done", "Internal")
        BY <4>1 DEF Server!Finish, Server!Goto, SeenPc, Awaiting
      <4>3. Server(b)!RotateCall(r)
        BY <3>1, <3>2, <4>2 DEF Server!RotateCall, Server!sessionVars, SeenPc, Awaiting
      <4>4. QED
        BY <4>3
    <3>3. CASE ~b /\ Goto(r, "sign") /\ UNCHANGED <<waiters, status>>
      <4>1. SeenPc' = [SeenPc EXCEPT ![r] = "await_tca"]
        BY <3>3, SeenMoves DEF Labels, Seen, Awaiting
      <4>2. Server(b)!AskTca(r)
        BY <3>3, <4>1 DEF Server!AskTca, Server!Goto, SeenPc, Awaiting
      <4>3. Server(b)!RotateCall(r)
        BY <3>1, <3>3, <4>2 DEF Server!RotateCall, Server!sessionVars, SeenPc, Awaiting
      <4>4. QED
        BY <4>3
    <3>4. CASE b /\ Goto(r, "waiting") /\ waiters' = Append(waiters, r) /\ UNCHANGED status
      <4>1. Server(b)!Enqueue(r)
        BY <3>4, SeenEnqueue, Zenon
      <4>2. Server(b)!RotateCall(r)
        BY <3>1, <3>4, <4>1, Zenon DEF Server!RotateCall, Server!sessionVars, SeenPc, Awaiting
      <4>3. QED
        BY <4>2
    <3>5. QED
      BY <2>1, <3>2, <3>3, <3>4 DEF RotateCall, Code
  <2>2. CASE Sign(r)
    <3>1. CASE Goto(r, "lock") /\ UNCHANGED status
      <4>1. SeenPc' = SeenPc
        BY <2>2, <3>1, UnseenMoves DEF Sign, Awaiting
      <4>2. QED
        BY <2>2, <3>1, <4>1 DEF Sign, ServerView
    <3>2. CASE Finish(r, "Internal")
      BY <2>2, <3>2, SeenFailure DEF Sign, Awaiting
    <3>3. QED
      BY <2>2, <3>1, <3>2 DEF Sign, Code
  <2>3. CASE TakeAttester(r)
    <3>1. SeenPc' = SeenPc
      BY <2>3, UnseenMoves DEF TakeAttester, Awaiting
    <3>2. QED
      BY <2>3, <3>1 DEF TakeAttester, ServerView
  <2>4. CASE FetchEvidence(r)
    <3>1. CASE Goto(r, "connect") /\ UNCHANGED status
      <4>1. SeenPc' = SeenPc
        BY <2>4, <3>1, UnseenMoves DEF FetchEvidence, Awaiting
      <4>2. QED
        BY <2>4, <3>1, <4>1 DEF FetchEvidence, ServerView
    <3>2. CASE Finish(r, "Internal")
      BY <2>4, <3>2, SeenFailure DEF FetchEvidence, Awaiting
    <3>3. QED
      BY <2>4, <3>1, <3>2 DEF FetchEvidence, Code
  <2>5. CASE Connect(r)
    <3>1. SeenPc' = SeenPc
      BY <2>5, UnseenMoves DEF Connect, Awaiting
    <3>2. QED
      BY <2>5, <3>1 DEF Connect, ServerView
  <2>6. CASE Answer(r)
    <3>1. pc[r] = "rpc" /\ SeenPc[r] = "await_tca" /\ UNCHANGED ca
      BY <1>2, <2>6 DEF Answer, Seen, Awaiting
    <3>2. CASE Goto(r, "waiting") /\ waiters' = Append(waiters, r) /\ UNCHANGED status
      <4>1. Server(b)!Enqueue(r)
        BY <3>2, SeenEnqueue
      <4>2. Server(b)!TcaCertified(r)
        BY <3>1, <3>2, <4>1 DEF Server!TcaCertified, Server!sessionVars, SeenPc, Awaiting
      <4>3. QED
        BY <4>2
    <3>3. CASE Finish(r, "Internal") /\ UNCHANGED waiters
      BY <3>1, <3>3, SeenFailure DEF Awaiting
    <3>4. QED
      BY <2>6, <3>2, <3>3 DEF Answer, Code
  <2>7. CASE NetworkFails(r)
    BY <2>7, SeenFailure DEF NetworkFails, Code, Awaiting
  <2>8. CASE Install(r)
    <3>1. /\ pc[r] = "waiting" /\ waiters # <<>> /\ Head(waiters) = r /\ waiters' = Tail(waiters)
          /\ ca' = r /\ Goto(r, "done") /\ status' = [status EXCEPT ![r] = "Ok"]
      BY <2>8 DEF Install, Finish
    <3>2. SeenPc[r] = "waiting" /\ SeenPc' = [SeenPc EXCEPT ![r] = "done"]
      BY <1>2, <3>1, SeenMoves DEF Labels, Seen, Awaiting
    <3>3. Server(b)!Granted(r)
      BY <3>1, <3>2 DEF Server!Granted, SeenPc, Awaiting
    <3>4. Server(b)!Finish(r, "done", "Ok")
      BY <3>1, <3>2 DEF Server!Finish, Server!Goto, SeenPc, Awaiting
    <3>5. Server(b)!Install(r)
      BY <3>1, <3>3, <3>4 DEF Server!Install, Server!sessionVars
    <3>6. QED
      BY <3>5
  <2>9. CASE Cancel(r)
    <3>1. Finish(r, "Cancelled") /\ UNCHANGED ca
      BY <2>9 DEF Cancel
    <3>2. SeenPc' = [SeenPc EXCEPT ![r] = "done"] /\ status' = [status EXCEPT ![r] = "Cancelled"]
      BY <3>1, SeenMoves DEF Finish, Labels, Seen, Awaiting
    <3>3. Server(b)!Finish(r, "done", "Cancelled")
      BY <3>2 DEF Server!Finish, Server!Goto, SeenPc, Awaiting
    <3>4. \/ SeenPc[r] = "await_tca" /\ UNCHANGED waiters
          \/ SeenPc[r] = "waiting" /\ Server(b)!Abandon(r)
      <4>1. CASE pc[r] \in Awaiting /\ UNCHANGED waiters
        BY <1>2, <4>1 DEF Seen
      <4>2. CASE pc[r] = "waiting" /\ Leaves(r, waiters, waiters')
        <5>1. SeenPc[r] = "waiting"
          BY <1>2, <4>2 DEF Seen, Awaiting
        <5>2. Server(b)!Abandon(r)
          BY <4>2, Zenon DEF Leaves, Server!Abandon
        <5>3. QED
          BY <5>1, <5>2
      <4>3. QED
        BY <2>9, <4>1, <4>2 DEF Cancel, Awaiting
    <3>5. Server(b)!RotateCancel(r)
      BY <3>1, <3>3, <3>4 DEF Server!RotateCancel, Server!sessionVars, SeenPc, Awaiting
    <3>6. QED
      BY <3>5
  <2>10. QED
    BY <1>1, <2>1, <2>2, <2>3, <2>4, <2>5, <2>6, <2>7, <2>8, <2>9
<1>4. QED
  BY <1>3 DEF Server!Next

\* For any number of rotations: seen from the service, the signing, the
\* mutex, the evidence, the connection and the request of the TCA client are
\* one await, which ends with a certificate, an error or the call.
THEOREM ClientImplementsServer == Spec => ImplementsServer
<1> DEFINE A == /\ phase = "serving"
                /\ IF service[1].tca_client # <<>> THEN Server(FALSE)!Next ELSE Server(TRUE)!Next
<1>1. Inv /\ [Next]_vars => [A]_(Server(FALSE)!vars)
  <2> SUFFICES ASSUME Inv, [Next]_vars
               PROVE  A \/ UNCHANGED (Server(FALSE)!vars)
    BY Zenon
  <2>1. UNCHANGED ServerView => UNCHANGED (Server(FALSE)!vars)
    BY DEF ServerView, SeenPc, Awaiting, Server!vars
  <2>2. CASE UNCHANGED tcaVars
    BY <2>1, <2>2, Zenon DEF tcaVars, ServerView, SeenPc
  <2>3. CASE Serve
    <3>1. TcaTypes /\ phase = "serving"
      BY <2>3 DEF Inv, TcaInv, Serve
    <3>2. CASE service[1].tca_client # <<>>
      <4>1. TcaNext(~FALSE)
        BY <2>3, <3>2 DEF Serve, TcaNext, RotateCall
      <4>2. Server(FALSE)!Next \/ UNCHANGED ServerView
        BY <3>1, <4>1, ServerStep, Zenon
      <4>3. QED
        BY <2>1, <3>1, <3>2, <4>2, Zenon
    <3>3. CASE service[1].tca_client = <<>>
      <4>1. TcaNext(~TRUE)
        BY <2>3, <3>3 DEF Serve, TcaNext, RotateCall
      <4>2. Server(TRUE)!Next \/ UNCHANGED ServerView
        BY <3>1, <4>1, ServerStep, Zenon
      <4>3. QED
        BY <2>1, <3>1, <3>3, <4>2, Zenon
    <3>4. QED
      BY <3>2, <3>3, Zenon
  <2>4. QED
    BY <2>2, <2>3, Zenon DEF Next, vars
<1>2. QED
  BY <1>1, ServerInit, Invariant, PTL DEF Spec, ImplementsServer
=============================================================================
