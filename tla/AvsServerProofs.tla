-------------------------- MODULE AvsServerProofs --------------------------
(***************************************************************************)
(* Proofs about AvsServer, for any number of calls, keys and nonces.       *)
(***************************************************************************)
EXTENDS AvsServer, TLAPS

Session == {"await_challenge", "send_challenge", "await_certify", "send_last"}

\* A call that is being served refers to an authority.
AuthorityInv ==
    /\ \A u \in Unary : pc[u] = "certify" => authority[u] # NoCA
    /\ \A s \in Streams : pc[s] \in Session => authority[s] # NoCA

-----------------------------------------------------------------------------
(* Type correctness.                                                       *)

\* Removing one waiter, or serving the first, leaves a queue of calls.
LEMMA QueueType ==
    ASSUME NEW S, NEW q \in Seq(S), NEW i \in DOMAIN q
    PROVE  SubSeq(q, 1, i - 1) \o SubSeq(q, i + 1, Len(q)) \in Seq(S)
<1>1. i \in 1..Len(q)  OBVIOUS
<1>2. SubSeq(q, 1, i - 1) \in Seq(S)  BY <1>1
<1>3. SubSeq(q, i + 1, Len(q)) \in Seq(S)  BY <1>1
<1>4. QED  BY <1>2, <1>3

\* Giving up the wait for the lock keeps the queue well formed.
LEMMA AbandonType ==
    ASSUME waiters \in Seq(Calls), NEW c, Abandon(c)
    PROVE  waiters' \in Seq(Calls)
BY QueueType DEF Abandon

\* A verdict is a flaw or "none".
LEMMA VerdictType ==
    ASSUME NEW req \in Requests, NEW n
    PROVE  Verdict(req, n) \in Flaw \cup {"none"}
BY FlawsAssumption, Zenon DEF Requests, Verdict, Flaw

\* A certification request carries evidence of its declared type.
LEMMA RequestType ==
    ASSUME TypeOK, NEW req \in Requests
    PROVE  req.evidence \in Evidence /\ req.csr \in Keys /\ req.evidence \in attested
BY DEF Requests, TypeOK

\* The certificate built for a call that holds an authority is well typed.
LEMMA LeafType ==
    ASSUME TypeOK, NEW c \in Unary \cup Streams, authority[c] # NoCA, NEW req \in Requests
    PROVE  Leaf(c, req) \in Certificate
BY RequestType DEF Leaf, Certificate, TypeOK

\* The service starts well typed, with no call referring to an authority.
LEMMA InitType == Init => TypeOK /\ AuthorityInv
BY DEF Init, TypeOK, AuthorityInv, Session, Calls, Evidence

\* Steps of CertifyAttestation keep the types.
LEMMA UnaryType ==
    ASSUME TypeOK, AuthorityInv, NEW u \in Unary,
           UnaryCall(u) \/ UnaryServer(u) \/ UnaryCancel(u)
    PROVE  TypeOK' /\ AuthorityInv'
<1> USE CallsAssumption, NoValueAssumption DEF Calls, Code, sessionVars, Goto, Finish, AuthorityInv, Session
<1>1. CASE UnaryCall(u)
  BY <1>1 DEF UnaryCall, Enqueue, TypeOK
<1>2. CASE UnaryBegin(u) /\ ca = NoCA
  <2>1. waiters' \in Seq(Calls)
    BY <1>2 DEF UnaryBegin, Granted, TypeOK
  <2>2. /\ Finish(u, "replied", "FailedPrecondition")
        /\ UNCHANGED <<ca, readers, authority, sessionVars, attested, issued>>
    BY <1>2 DEF UnaryBegin
  <2>3. TypeOK'  BY <2>1, <2>2 DEF TypeOK
  <2>4. AuthorityInv'  BY <2>2 DEF TypeOK
  <2>5. QED  BY <2>3, <2>4
<1>3. CASE UnaryBegin(u) /\ ca # NoCA
  <2>1. waiters' \in Seq(Calls)
    BY <1>3 DEF UnaryBegin, Granted, TypeOK
  <2>2. /\ Goto(u, "certify") /\ readers' = readers \cup {u}
        /\ authority' = [authority EXCEPT ![u] = ca]
        /\ UNCHANGED <<ca, status, sessionVars, attested, issued>>
    BY <1>3 DEF UnaryBegin, TakeGuard
  <2>3. TypeOK'  BY <2>1, <2>2 DEF TypeOK
  <2>4. AuthorityInv'  BY <1>3, <2>2 DEF TypeOK
  <2>5. QED  BY <2>3, <2>4
<1>4. CASE UnaryReply(u)
  <2>1. PICK req \in Requests :
           \/ Finish(u, "replied", "Ok") /\ issued' = issued \cup {Leaf(u, req)}
           \/ Finish(u, "replied", UnaryCode(Verdict(req, NoNonce))) /\ UNCHANGED issued
    BY <1>4 DEF UnaryReply
  <2>2. issued' \subseteq Certificate
    BY <1>4, <2>1, LeafType DEF UnaryReply, TypeOK
  <2>3. UnaryCode(Verdict(req, NoNonce)) \in {"Internal", "InvalidArgument", "FailedPrecondition"}
    BY DEF UnaryCode
  <2>4. PICK code \in {"Ok", "Internal", "InvalidArgument", "FailedPrecondition"} :
           Finish(u, "replied", code)
    BY <2>1, <2>3
  <2>5. /\ readers' = readers \ {u} /\ authority' = [authority EXCEPT ![u] = NoCA]
        /\ UNCHANGED <<ca, waiters, sessionVars, attested>>
    BY <1>4 DEF UnaryReply
  <2>6. TypeOK'  BY <2>2, <2>4, <2>5 DEF TypeOK
  <2>7. AuthorityInv'  BY <2>4, <2>5 DEF TypeOK
  <2>8. QED  BY <2>6, <2>7
<1>5. CASE UnaryCancel(u)
  <2>1. waiters' \in Seq(Calls)
    BY <1>5, AbandonType DEF UnaryCancel, TypeOK
  <2>2. TypeOK'  BY <1>5, <2>1 DEF UnaryCancel, TypeOK
  <2>3. AuthorityInv'  BY <1>5 DEF UnaryCancel, TypeOK
  <2>4. QED  BY <2>2, <2>3
<1>6. QED
  BY <1>1, <1>2, <1>3, <1>4, <1>5 DEF UnaryServer

\* Steps of CertifyAttestationStream, its task and its client keep the types.
LEMMA StreamType ==
    ASSUME TypeOK, AuthorityInv, NEW s \in Streams,
           \/ StreamCall(s) \/ StreamServer(s) \/ StreamCancel(s)
           \/ AwaitChallenge(s) \/ AwaitCertify(s) \/ AwaitFails(s)
           \/ ClientReceive(s) \/ ClientGone(s)
    PROVE  TypeOK' /\ AuthorityInv'
<1> USE CallsAssumption, NoValueAssumption
        DEF Calls, Code, lockVars, sessionVars, Goto, Finish, AuthorityInv, Session
<1>1. CASE StreamCall(s)
  BY <1>1 DEF StreamCall, Enqueue, TypeOK
<1>2. CASE StreamOpen(s) /\ ca = NoCA
  <2>1. waiters' \in Seq(Calls)
    BY <1>2 DEF StreamOpen, Granted, TypeOK
  <2>2. /\ Finish(s, "done", "FailedPrecondition")
        /\ UNCHANGED <<ca, readers, authority, sessionVars, attested, issued>>
    BY <1>2 DEF StreamOpen
  <2>3. TypeOK'  BY <2>1, <2>2 DEF TypeOK
  <2>4. AuthorityInv'  BY <2>2 DEF TypeOK
  <2>5. QED  BY <2>3, <2>4
<1>3. CASE StreamOpen(s) /\ ca # NoCA
  <2>1. waiters' \in Seq(Calls)
    BY <1>3 DEF StreamOpen, Granted, TypeOK
  <2>2. /\ Finish(s, "await_challenge", "Ok") /\ authority' = [authority EXCEPT ![s] = ca]
        /\ UNCHANGED <<ca, readers, sessionVars, attested, issued>>
    BY <1>3 DEF StreamOpen
  <2>3. TypeOK'  BY <2>1, <2>2 DEF TypeOK
  <2>4. AuthorityInv'  BY <1>3, <2>2 DEF TypeOK
  <2>5. QED  BY <2>3, <2>4
<1>4. CASE StreamCancel(s)
  <2>1. waiters' \in Seq(Calls)
    BY <1>4, AbandonType DEF StreamCancel, TypeOK
  <2>2. TypeOK'  BY <1>4, <2>1 DEF StreamCancel, TypeOK
  <2>3. AuthorityInv'  BY <1>4 DEF StreamCancel, TypeOK
  <2>4. QED  BY <2>2, <2>3
<1>5. CASE AwaitChallenge(s)
  <2>1. PICK n \in Nonces : /\ nonce' = [nonce EXCEPT ![s] = n]
                            /\ Goto(s, "send_challenge")
                            /\ out' = [out EXCEPT ![s] = <<Challenge(n)>>]
    BY <1>5, Zenon DEF AwaitChallenge, FreshNonces, Send
  <2>2. Challenge(n) \in Item  BY DEF Challenge, Item
  <2>3. UNCHANGED <<ca, lockVars, status, authority, chan, received, gone, attested, issued>>
    BY <1>5 DEF AwaitChallenge
  <2>4. TypeOK'  BY <2>1, <2>2, <2>3 DEF TypeOK
  <2>5. AuthorityInv'  BY <1>5, <2>1, <2>3 DEF AwaitChallenge, TypeOK
  <2>6. QED  BY <2>4, <2>5
<1>6. CASE AwaitCertify(s)
  <2>1. PICK req \in Requests :
           \/ /\ Send(s, "send_last", [type |-> "certificate", leaf |-> Leaf(s, req)])
              /\ issued' = issued \cup {Leaf(s, req)}
           \/ /\ Send(s, "send_last", Error(StreamCode(Verdict(req, nonce[s]))))
              /\ UNCHANGED issued
    BY <1>6 DEF AwaitCertify, Fail
  <2>2. Leaf(s, req) \in Certificate  BY <1>6, LeafType DEF AwaitCertify
  <2>3. Error(StreamCode(Verdict(req, nonce[s]))) \in Item
    BY DEF StreamCode, UnaryCode, Error, Item
  <2>4. [type |-> "certificate", leaf |-> Leaf(s, req)] \in Item  BY <2>2 DEF Item
  <2>5. issued' \subseteq Certificate  BY <2>1, <2>2 DEF TypeOK
  <2>6. PICK item \in Item : Goto(s, "send_last") /\ out' = [out EXCEPT ![s] = <<item>>]
    BY <2>1, <2>3, <2>4 DEF Send
  <2>7. UNCHANGED <<ca, lockVars, status, authority, nonce, chan, received, gone, attested>>
    BY <1>6 DEF AwaitCertify
  <2>8. TypeOK'  BY <2>5, <2>6, <2>7 DEF TypeOK
  <2>9. AuthorityInv'  BY <1>6, <2>6, <2>7 DEF AwaitCertify, TypeOK
  <2>10. QED  BY <2>8, <2>9
<1>7. CASE AwaitFails(s)
  <2>1. PICK code \in {"InvalidArgument", "Internal"} : Send(s, "send_last", Error(code))
    BY <1>7 DEF AwaitFails, Fail
  <2>2. Error(code) \in Item  BY DEF Error, Item
  <2>3. Goto(s, "send_last") /\ out' = [out EXCEPT ![s] = <<Error(code)>>]  BY <2>1 DEF Send
  <2>4. UNCHANGED <<ca, lockVars, status, authority, nonce, chan, received, gone, attested, issued>>
    BY <1>7 DEF AwaitFails
  <2>5. TypeOK'  BY <2>2, <2>3, <2>4 DEF TypeOK
  <2>6. AuthorityInv'  BY <1>7, <2>3, <2>4 DEF AwaitFails, TypeOK
  <2>7. QED  BY <2>5, <2>6
<1>8. CASE SendOk(s)
  <2>1. /\ chan' = [chan EXCEPT ![s] = out[s]] /\ out' = [out EXCEPT ![s] = <<>>]
        /\ UNCHANGED <<ca, lockVars, status, nonce, received, gone, attested, issued>>
    BY <1>8 DEF SendOk
  <2>2. \/ pc[s] = "send_challenge" /\ Goto(s, "await_certify") /\ UNCHANGED authority
        \/ Goto(s, "done") /\ authority' = [authority EXCEPT ![s] = NoCA]
    BY <1>8 DEF SendOk, EndTask
  <2>3. out[s] \in Seq(Item) /\ <<>> \in Seq(Item)  BY DEF TypeOK
  <2>4. TypeOK'  BY <2>1, <2>2, <2>3, Zenon DEF TypeOK
  <2>5. AuthorityInv'  BY <2>1, <2>2 DEF TypeOK
  <2>6. QED  BY <2>4, <2>5
<1>9. CASE SendFails(s)
  <2>1. /\ out' = [out EXCEPT ![s] = <<>>] /\ Goto(s, "done")
        /\ authority' = [authority EXCEPT ![s] = NoCA]
        /\ UNCHANGED <<ca, lockVars, status, nonce, chan, received, gone, attested, issued>>
    BY <1>9 DEF SendFails, EndTask
  <2>2. TypeOK'  BY <2>1 DEF TypeOK
  <2>3. AuthorityInv'  BY <2>1 DEF TypeOK
  <2>4. QED  BY <2>2, <2>3
<1>10. CASE ClientReceive(s)
  BY <1>10 DEF ClientReceive, TypeOK
<1>11. CASE ClientGone(s)
  BY <1>11 DEF ClientGone, TypeOK
<1>12. QED
  BY <1>1, <1>2, <1>3, <1>4, <1>5, <1>6, <1>7, <1>8, <1>9, <1>10, <1>11 DEF StreamServer

\* Steps of GenerateAvsSigningKey keep the types.
LEMMA RotationType ==
    ASSUME TypeOK, AuthorityInv, NEW r \in Rotations,
           \/ RotateCall(r) \/ TcaCertified(r) \/ TcaFailed(r)
           \/ Install(r) \/ RotateCancel(r)
    PROVE  TypeOK' /\ AuthorityInv'
<1> USE CallsAssumption, NoValueAssumption
        DEF Calls, Code, lockVars, sessionVars, Goto, Finish, AuthorityInv, Session
<1>1. CASE RotateCall(r)
  <2>1. UNCHANGED <<ca, readers, authority, sessionVars, attested, issued>>
    BY <1>1 DEF RotateCall
  <2>2. /\ waiters' = waiters \/ waiters' = Append(waiters, r)
        /\ UNCHANGED status \/ status' = [status EXCEPT ![r] = "Internal"]
        /\ Goto(r, "done") \/ Goto(r, "await_tca") \/ Goto(r, "waiting")
    BY <1>1 DEF RotateCall, AskTca, Enqueue
  <2>3. waiters' \in Seq(Calls)
    <3>1. waiters \in Seq(Calls) /\ r \in Calls  BY DEF TypeOK
    <3>2. Append(waiters, r) \in Seq(Calls)  BY <3>1
    <3>3. QED  BY <2>2, <3>1, <3>2
  <2>4. status' \in [Calls -> Code \cup {"none"}]  BY <2>2 DEF TypeOK
  <2>5. TypeOK'  BY <2>1, <2>2, <2>3, <2>4 DEF TypeOK
  <2>6. AuthorityInv'  BY <2>1, <2>2 DEF TypeOK
  <2>7. QED  BY <2>5, <2>6
<1>2. CASE TcaCertified(r)
  BY <1>2 DEF TcaCertified, Enqueue, TypeOK
<1>3. CASE TcaFailed(r)
  BY <1>3 DEF TcaFailed, TypeOK
<1>4. CASE Install(r)
  <2>1. waiters' \in Seq(Calls)
    BY <1>4 DEF Install, Granted, TypeOK
  <2>2. TypeOK'  BY <1>4, <2>1 DEF Install, TypeOK
  <2>3. AuthorityInv'  BY <1>4 DEF Install, TypeOK
  <2>4. QED  BY <2>2, <2>3
<1>5. CASE RotateCancel(r)
  <2>1. waiters' \in Seq(Calls)
    BY <1>5, AbandonType DEF RotateCancel, TypeOK
  <2>2. TypeOK'  BY <1>5, <2>1 DEF RotateCancel, TypeOK
  <2>3. AuthorityInv'  BY <1>5 DEF RotateCancel, TypeOK
  <2>4. QED  BY <2>2, <2>3
<1>6. QED
  BY <1>1, <1>2, <1>3, <1>4, <1>5

\* Making evidence keeps the types.
LEMMA AttestType ==
    ASSUME TypeOK, AuthorityInv, NEW e \in Evidence, Attest(e)
    PROVE  TypeOK' /\ AuthorityInv'
BY DEF Attest, TypeOK, AuthorityInv, lockVars, sessionVars

\* A step that changes nothing keeps the types.
LEMMA StutterType ==
    ASSUME TypeOK, AuthorityInv, UNCHANGED vars
    PROVE  TypeOK' /\ AuthorityInv'
BY DEF vars, TypeOK, AuthorityInv

\* Every call, the slot, the lock, the channels and the issued certificates
\* keep their types in every behaviour of the service, and a call that is
\* being served never refers to an empty slot.
THEOREM TypeCorrect == Spec => [](TypeOK /\ AuthorityInv)
<1>1. TypeOK /\ AuthorityInv /\ [Next]_vars => TypeOK' /\ AuthorityInv'
  BY UnaryType, StreamType, RotationType, AttestType, StutterType DEF Next
<1>2. QED
  BY InitType, <1>1, PTL DEF Spec

-----------------------------------------------------------------------------
(* What a step of each kind of call can change, stated once for the        *)
(* invariants below.                                                       *)

\* What a step of CertifyAttestation leaves alone, and what it can issue.
LEMMA UnaryFrame ==
    ASSUME TypeOK, NEW u \in Unary, UnaryCall(u) \/ UnaryServer(u) \/ UnaryCancel(u)
    PROVE  /\ UNCHANGED <<ca, sessionVars, attested>>
           /\ \A c \in Calls \ {u} : pc'[c] = pc[c] /\ status'[c] = status[c]
           /\ \A c \in (Unary \cup Streams) \ {u} : authority'[c] = authority[c]
           /\ \A v \in Unary \ {u} : v \in readers => v \in readers'
           /\ \/ pc'[u] # "certify" /\ authority'[u] \in {authority[u], NoCA}
              \/ pc'[u] = "certify" /\ u \in readers' /\ authority'[u] = ca
           /\ \/ issued' = issued
              \/ /\ pc[u] = "certify"
                 /\ \E req \in Requests : /\ Bound(req, NoNonce)
                                          /\ issued' = issued \cup {Leaf(u, req)}
<1> USE DEF Calls, sessionVars, Goto, Finish, TypeOK
<1>1. CASE UnaryCall(u)
  BY <1>1 DEF UnaryCall, Enqueue
<1>2. CASE UnaryBegin(u) /\ ca = NoCA
  BY <1>2 DEF UnaryBegin
<1>3. CASE UnaryBegin(u) /\ ca # NoCA
  BY <1>3 DEF UnaryBegin, TakeGuard
<1>4. CASE UnaryReply(u)
  <2>1. PICK req \in Requests :
           \/ Verdict(req, NoNonce) = "none" /\ Finish(u, "replied", "Ok")
              /\ issued' = issued \cup {Leaf(u, req)}
           \/ Finish(u, "replied", UnaryCode(Verdict(req, NoNonce))) /\ UNCHANGED issued
    BY <1>4, Zenon DEF UnaryReply
  <2>2. Verdict(req, NoNonce) = "none" => Bound(req, NoNonce)
    BY DEF Verdict
  <2>3. /\ pc[u] = "certify" /\ readers' = readers \ {u}
        /\ authority' = [authority EXCEPT ![u] = NoCA]
        /\ UNCHANGED <<ca, waiters, sessionVars, attested>>
    BY <1>4 DEF UnaryReply
  <2>4. PICK code : Finish(u, "replied", code)
    BY <2>1
  <2>5. \/ issued' = issued
        \/ Bound(req, NoNonce) /\ issued' = issued \cup {Leaf(u, req)}
    BY <2>1, <2>2
  <2>6. QED
    BY <2>3, <2>4, <2>5
<1>5. CASE UnaryCancel(u)
  BY <1>5 DEF UnaryCancel
<1>6. QED
  BY <1>1, <1>2, <1>3, <1>4, <1>5, Zenon DEF UnaryServer

\* What a step of a session leaves alone, and what it can issue.
LEMMA StreamFrame ==
    ASSUME TypeOK, AuthorityInv, NEW s \in Streams,
           \/ StreamCall(s) \/ StreamServer(s) \/ StreamCancel(s)
           \/ AwaitChallenge(s) \/ AwaitCertify(s) \/ AwaitFails(s)
           \/ ClientReceive(s) \/ ClientGone(s)
    PROVE  /\ UNCHANGED <<ca, readers, attested>>
           /\ \A c \in Calls \ {s} : pc'[c] = pc[c] /\ status'[c] = status[c]
           /\ \A c \in (Unary \cup Streams) \ {s} : authority'[c] = authority[c]
           /\ \A t \in Streams \ {s} : nonce'[t] = nonce[t] /\ received'[t] = received[t]
           /\ authority'[s] \in {authority[s], ca, NoCA}
           /\ \/ issued' = issued
              \/ /\ pc[s] = "await_certify" /\ authority'[s] = authority[s]
                 /\ \E req \in Requests : /\ Bound(req, nonce[s])
                                          /\ issued' = issued \cup {Leaf(s, req)}
<1> USE DEF Calls, lockVars, sessionVars, Goto, Finish, TypeOK
<1>1. CASE StreamCall(s)
  BY <1>1 DEF StreamCall, Enqueue
<1>2. CASE StreamOpen(s) /\ ca = NoCA
  BY <1>2 DEF StreamOpen
<1>3. CASE StreamOpen(s) /\ ca # NoCA
  BY <1>3 DEF StreamOpen
<1>4. CASE StreamCancel(s)
  BY <1>4 DEF StreamCancel
<1>5. CASE AwaitChallenge(s)
  BY <1>5 DEF AwaitChallenge, Send
<1>6. CASE AwaitCertify(s)
  <2>1. PICK req \in Requests :
           \/ Verdict(req, nonce[s]) = "none" /\ issued' = issued \cup {Leaf(s, req)}
           \/ UNCHANGED issued
    BY <1>6 DEF AwaitCertify
  <2>2. Verdict(req, nonce[s]) = "none" => Bound(req, nonce[s])
    BY DEF Verdict
  <2>3. /\ pc[s] = "await_certify" /\ Goto(s, "send_last")
        /\ UNCHANGED <<ca, lockVars, status, authority, nonce, chan, received, gone, attested>>
    BY <1>6 DEF AwaitCertify, Send, Fail
  <2>4. QED
    BY <2>1, <2>2, <2>3
<1>7. CASE AwaitFails(s)
  BY <1>7 DEF AwaitFails, Fail, Send
<1>8. CASE SendOk(s)
  BY <1>8 DEF SendOk, EndTask
<1>9. CASE SendFails(s)
  BY <1>9 DEF SendFails, EndTask
<1>10. CASE ClientReceive(s)
  BY <1>10 DEF ClientReceive
<1>11. CASE ClientGone(s)
  BY <1>11 DEF ClientGone
<1>12. QED
  BY <1>1, <1>2, <1>3, <1>4, <1>5, <1>6, <1>7, <1>8, <1>9, <1>10, <1>11, Zenon DEF StreamServer

\* What a step of GenerateAvsSigningKey leaves alone, and how it fills the slot.
LEMMA RotationFrame ==
    ASSUME TypeOK, NEW r \in Rotations,
           \/ RotateCall(r) \/ TcaCertified(r) \/ TcaFailed(r)
           \/ Install(r) \/ RotateCancel(r)
    PROVE  /\ UNCHANGED <<readers, authority, sessionVars, attested, issued>>
           /\ \A c \in Calls \ {r} : pc'[c] = pc[c] /\ status'[c] = status[c]
           /\ pc[r] # "done"
           /\ \/ ca' = ca /\ (status'[r] # "Ok" \/ status'[r] = status[r])
              \/ ca' = r /\ readers = {} /\ pc'[r] = "done" /\ status'[r] = "Ok"
<1> USE DEF Calls, lockVars, sessionVars, Goto, Finish, TypeOK, Code
<1>1. CASE RotateCall(r)
  BY <1>1 DEF RotateCall, AskTca, Enqueue
<1>2. CASE TcaCertified(r)
  BY <1>2 DEF TcaCertified, Enqueue
<1>3. CASE TcaFailed(r)
  BY <1>3 DEF TcaFailed
<1>4. CASE Install(r)
  BY <1>4 DEF Install, Granted
<1>5. CASE RotateCancel(r)
  BY <1>5 DEF RotateCancel
<1>6. QED
  BY <1>1, <1>2, <1>3, <1>4, <1>5, Zenon

-----------------------------------------------------------------------------
(* The authority a certificate is signed with.                             *)

\* A rotation that was answered Ok is over, so its answer never changes.
RotationInv == \A r \in Rotations : status[r] = "Ok" => pc[r] = "done"

\* The slot, and every reference taken from it, holds an installed authority.
SlotInv ==
    /\ ca # NoCA => ca \in Installed
    /\ \A c \in Unary \cup Streams : authority[c] # NoCA => authority[c] \in Installed

\* While a unary call is served it holds a read guard, and the authority it
\* uses is still the one in the slot.
GuardInv == \A u \in Unary : pc[u] = "certify" => u \in readers /\ authority[u] = ca

IssueInv == RotationInv /\ SlotInv /\ GuardInv /\ LeafChainsToItsIssuer

\* The certificate built for a call: its issuer and its chain are the
\* authority the call holds, its subject the evidence of the request.
LEMMA LeafFields ==
    ASSUME NEW c, NEW req
    PROVE  /\ Leaf(c, req).via = c
           /\ Leaf(c, req).issuer = authority[c] /\ Leaf(c, req).chain = authority[c]
           /\ Leaf(c, req).subject = req.evidence
BY DEF Leaf

\* Nothing is installed or issued at the start.
LEMMA IssueInit == Init => IssueInv
BY NoValueAssumption DEF Init, IssueInv, RotationInv, SlotInv, GuardInv, LeafChainsToItsIssuer,
                         Calls, Installed

\* CertifyAttestation signs with the authority in the slot.
LEMMA IssueUnary ==
    ASSUME TypeOK, AuthorityInv, IssueInv, NEW u \in Unary,
           UnaryCall(u) \/ UnaryServer(u) \/ UnaryCancel(u)
    PROVE  IssueInv' /\ \A cert \in issued' \ issued : cert.issuer = ca
<1>1. /\ ca' = ca
      /\ \A r \in Rotations : pc'[r] = pc[r] /\ status'[r] = status[r]
  BY UnaryFrame, CallsAssumption, Zenon DEF Calls
<1>2. /\ \A c \in (Unary \cup Streams) \ {u} : authority'[c] = authority[c]
      /\ \A v \in Unary \ {u} : pc'[v] = pc[v] /\ (v \in readers => v \in readers')
      /\ \/ pc'[u] # "certify" /\ authority'[u] \in {authority[u], NoCA}
         \/ pc'[u] = "certify" /\ u \in readers' /\ authority'[u] = ca
  BY UnaryFrame DEF Calls
<1>3. \/ issued' = issued
      \/ pc[u] = "certify" /\ \E req \in Requests : issued' = issued \cup {Leaf(u, req)}
  BY UnaryFrame, Zenon
<1>4. Installed' = Installed
  BY <1>1 DEF Installed
<1>5. RotationInv'
  BY <1>1 DEF IssueInv, RotationInv
<1>6. SlotInv'
  BY <1>1, <1>2, <1>4 DEF IssueInv, SlotInv
<1>7. GuardInv'
  BY <1>1, <1>2 DEF IssueInv, GuardInv
<1>8. pc[u] = "certify" => authority[u] = ca /\ ca \in Installed
  BY DEF IssueInv, GuardInv, SlotInv, AuthorityInv
<1>9. \A cert \in issued' \ issued : cert.issuer = ca /\ cert.chain = ca /\ ca \in Installed
  BY <1>3, <1>8, LeafFields
<1>10. LeafChainsToItsIssuer'
  BY <1>4, <1>9 DEF IssueInv, LeafChainsToItsIssuer
<1>11. QED
  BY <1>5, <1>6, <1>7, <1>9, <1>10, Zenon DEF IssueInv

\* A session signs with the authority it took when it opened.
LEMMA IssueStream ==
    ASSUME TypeOK, AuthorityInv, IssueInv, NEW s \in Streams,
           \/ StreamCall(s) \/ StreamServer(s) \/ StreamCancel(s)
           \/ AwaitChallenge(s) \/ AwaitCertify(s) \/ AwaitFails(s)
           \/ ClientReceive(s) \/ ClientGone(s)
    PROVE  IssueInv' /\ \A cert \in issued' \ issued : cert.via \notin Unary
<1>1. /\ ca' = ca /\ readers' = readers
      /\ \A r \in Rotations : pc'[r] = pc[r] /\ status'[r] = status[r]
  BY StreamFrame, CallsAssumption, Zenon DEF Calls
<1>2. /\ \A u \in Unary : pc'[u] = pc[u] /\ authority'[u] = authority[u]
      /\ \A c \in (Unary \cup Streams) \ {s} : authority'[c] = authority[c]
      /\ authority'[s] \in {authority[s], ca, NoCA}
  BY StreamFrame, CallsAssumption, Zenon DEF Calls
<1>3. \/ issued' = issued
      \/ pc[s] = "await_certify" /\ \E req \in Requests : issued' = issued \cup {Leaf(s, req)}
  BY StreamFrame, Zenon
<1>4. Installed' = Installed
  BY <1>1, Zenon DEF Installed
<1>5. RotationInv'
  BY <1>1 DEF IssueInv, RotationInv
<1>6. SlotInv'
  BY <1>1, <1>2, <1>4 DEF IssueInv, SlotInv
<1>7. GuardInv'
  BY <1>1, <1>2 DEF IssueInv, GuardInv
<1>8. \A cert \in issued' \ issued :
         cert.via = s /\ cert.issuer = authority[s] /\ cert.chain = authority[s]
  <2>1. CASE issued' = issued
    BY <2>1
  <2>2. CASE \E req \in Requests : issued' = issued \cup {Leaf(s, req)}
    <3>1. PICK req \in Requests : issued' = issued \cup {Leaf(s, req)}
      BY <2>2
    <3>2. \A cert \in issued' \ issued : cert = Leaf(s, req)
      BY <3>1
    <3>3. QED
      BY <3>2, LeafFields
  <2>3. QED
    BY <1>3, <2>1, <2>2
<1>9. pc[s] = "await_certify" => authority[s] \in Installed
  BY DEF IssueInv, SlotInv, AuthorityInv, Session
<1>10. LeafChainsToItsIssuer'
  BY <1>3, <1>4, <1>8, <1>9 DEF IssueInv, LeafChainsToItsIssuer
<1>11. s \notin Unary
  BY CallsAssumption
<1>12. QED
  BY <1>5, <1>6, <1>7, <1>8, <1>10, <1>11, Zenon DEF IssueInv

\* GenerateAvsSigningKey installs without invalidating what was issued.
LEMMA IssueRotation ==
    ASSUME TypeOK, AuthorityInv, IssueInv, NEW r \in Rotations,
           \/ RotateCall(r) \/ TcaCertified(r) \/ TcaFailed(r)
           \/ Install(r) \/ RotateCancel(r)
    PROVE  IssueInv' /\ issued' = issued
<1>1. /\ UNCHANGED <<readers, authority, issued>>
      /\ \A u \in Unary : pc'[u] = pc[u]
      /\ \A q \in Rotations \ {r} : pc'[q] = pc[q] /\ status'[q] = status[q]
  BY RotationFrame, CallsAssumption DEF Calls
<1>2. /\ pc[r] # "done"
      /\ \/ ca' = ca /\ (status'[r] # "Ok" \/ status'[r] = status[r])
         \/ ca' = r /\ readers = {} /\ pc'[r] = "done" /\ status'[r] = "Ok"
  BY RotationFrame
<1>3. status[r] # "Ok"
  BY <1>2 DEF IssueInv, RotationInv
<1>4. Installed \subseteq Installed'
  BY <1>1, <1>3 DEF Installed
<1>5. RotationInv'
  BY <1>1, <1>2, <1>3 DEF IssueInv, RotationInv
<1>6. ca' # NoCA => ca' \in Installed'
  BY <1>2, <1>4 DEF IssueInv, SlotInv, Installed
<1>7. SlotInv'
  BY <1>1, <1>4, <1>6 DEF IssueInv, SlotInv
<1>8. GuardInv'
  BY <1>1, <1>2 DEF IssueInv, GuardInv
<1>9. LeafChainsToItsIssuer'
  BY <1>1, <1>4 DEF IssueInv, LeafChainsToItsIssuer
<1>10. QED
  BY <1>1, <1>5, <1>7, <1>8, <1>9 DEF IssueInv

\* Making evidence, or no step at all, issues nothing.
LEMMA IssueOther ==
    ASSUME IssueInv, (\E e \in Evidence : Attest(e)) \/ UNCHANGED vars
    PROVE  IssueInv' /\ issued' = issued
BY DEF Attest, vars, lockVars, sessionVars, IssueInv, RotationInv, SlotInv, GuardInv,
       LeafChainsToItsIssuer, Installed

\* Every step keeps IssueInv, and a unary answer uses the active authority.
LEMMA IssueStep ==
    ASSUME TypeOK, AuthorityInv, IssueInv, [Next]_vars
    PROVE  IssueInv' /\ \A cert \in issued' \ issued : cert.via \in Unary => cert.issuer = ca
BY IssueUnary, IssueStream, IssueRotation, IssueOther DEF Next

\* For any number of concurrent calls and rotations, a leaf is followed by
\* the chain of the authority that signed it, and only authorities whose
\* GenerateAvsSigningKey was answered Ok ever sign.
THEOREM LeafChains == Spec => []LeafChainsToItsIssuer
<1>1. IssueInv => LeafChainsToItsIssuer  BY DEF IssueInv
<1>2. TypeOK /\ AuthorityInv /\ IssueInv /\ [Next]_vars => IssueInv'  BY IssueStep
<1>3. QED  BY <1>1, <1>2, IssueInit, TypeCorrect, PTL DEF Spec

\* Every unary answer is signed by the authority in the slot at that moment,
\* because the read guard excludes every rotation until the answer is built.
THEOREM UnaryActive == Spec => UnaryUsesActiveKey
<1>1. TypeOK /\ AuthorityInv /\ IssueInv /\ [Next]_vars
        => IssueInv' /\ [\A cert \in issued' \ issued : cert.via \in Unary => cert.issuer = ca]_vars
  BY IssueStep
<1>2. QED  BY <1>1, IssueInit, TypeCorrect, PTL DEF Spec, UnaryUsesActiveKey
=============================================================================
