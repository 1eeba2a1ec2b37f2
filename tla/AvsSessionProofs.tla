------------------------- MODULE AvsSessionProofs --------------------------
(***************************************************************************)
(* What a session certifies and what it sends, for any number of sessions  *)
(* and any clients, and that the service implements CertificateIssuance.   *)
(***************************************************************************)
EXTENDS AvsServerProofs

-----------------------------------------------------------------------------
(* The evidence a session certifies.                                       *)

\* Sessions have nonces of their own, drawn before the challenge is sent.
NonceInv ==
    /\ \A s, t \in Streams : nonce[s] = nonce[t] /\ nonce[s] # NoNonce => s = t
    /\ \A s \in Streams : pc[s] \in {"idle", "waiting", "await_challenge"} => nonce[s] = NoNonce
    /\ \A s \in Streams : pc[s] \in {"send_challenge", "await_certify"} => nonce[s] # NoNonce

\* The queue q of items holds no challenge but that of nonce n.
OnlyChallenge(q, n) == \A i \in DOMAIN q : \A m \in Nonces : q[i] = Challenge(m) => m = n

ChallengeInv ==
    \A s \in Streams : /\ OnlyChallenge(out[s], nonce[s])
                       /\ OnlyChallenge(chan[s], nonce[s])
                       /\ OnlyChallenge(received[s], nonce[s])

Saw(s, n) == \E i \in DOMAIN received[s] : received[s][i] = Challenge(n)

\* Evidence with a nonce exists only once a client has seen the challenge.
EvidenceInv == \A e \in attested : e.nonce = NoNonce \/ \E s \in Streams : Saw(s, e.nonce)

\* Certificates are for bare evidence or for the session's own nonce.
SubjectInv ==
    \A cert \in issued :
        /\ cert.via \in Unary => cert.subject.nonce = NoNonce
        /\ cert.via \in Streams => /\ cert.subject.nonce = nonce[cert.via]
                                   /\ nonce[cert.via] # NoNonce
                                   /\ Saw(cert.via, cert.subject.nonce)

FreshInv == NonceInv /\ ChallengeInv /\ EvidenceInv /\ SubjectInv

\* No nonce, message, evidence or certificate exists at the start.
LEMMA FreshInit == Init => FreshInv
<1> SUFFICES ASSUME Init PROVE FreshInv  OBVIOUS
<1>1. NonceInv  BY DEF Init, NonceInv, Calls
<1>2. ChallengeInv
  <2>1. \A n : OnlyChallenge(<<>>, n)  BY DEF OnlyChallenge
  <2>2. QED  BY <2>1 DEF Init, ChallengeInv
<1>3. EvidenceInv  BY DEF Init, EvidenceInv
<1>4. SubjectInv  BY DEF Init, SubjectInv
<1>5. QED  BY <1>1, <1>2, <1>3, <1>4 DEF FreshInv

\* Received items stay received, and new ones come from the channel.
LEMMA ConcatItems ==
    ASSUME NEW S, NEW p \in Seq(S), NEW q \in Seq(S)
    PROVE  /\ \A i \in DOMAIN p : i \in DOMAIN (p \o q) /\ (p \o q)[i] = p[i]
           /\ \A i \in DOMAIN (p \o q) : \/ i \in DOMAIN p /\ (p \o q)[i] = p[i]
                                         \/ i - Len(p) \in DOMAIN q /\ (p \o q)[i] = q[i - Len(p)]
OBVIOUS

\* Steps that leave all sessions alone.
LEMMA FreshElsewhere ==
    ASSUME FreshInv, UNCHANGED <<nonce, out, chan, received, attested>>,
           \A s \in Streams : pc'[s] = pc[s]
    PROVE  NonceInv' /\ ChallengeInv' /\ EvidenceInv'
<1>1. NonceInv'  BY DEF FreshInv, NonceInv
<1>2. ChallengeInv'  BY DEF FreshInv, ChallengeInv
<1>3. EvidenceInv'  BY DEF FreshInv, EvidenceInv, Saw
<1>4. QED  BY <1>1, <1>2, <1>3

\* CertifyAttestation accepts bare evidence only.
LEMMA FreshUnary ==
    ASSUME TypeOK, FreshInv, NEW u \in Unary, UnaryCall(u) \/ UnaryServer(u) \/ UnaryCancel(u)
    PROVE  FreshInv'
<1>1. UNCHANGED <<nonce, out, chan, received, attested>>
  BY UnaryFrame DEF sessionVars
<1>2. \A s \in Streams : pc'[s] = pc[s]
  BY UnaryFrame, CallsAssumption, Zenon DEF Calls
<1>3. NonceInv' /\ ChallengeInv' /\ EvidenceInv'
  BY <1>1, <1>2, FreshElsewhere
<1>4. \/ issued' = issued
      \/ \E req \in Requests : Bound(req, NoNonce) /\ issued' = issued \cup {Leaf(u, req)}
  BY UnaryFrame, Zenon
<1>5. \A cert \in issued' \ issued : cert.via = u /\ cert.subject.nonce = NoNonce
  BY <1>4, LeafFields DEF Bound
<1>6. u \notin Streams
  BY CallsAssumption
<1>7. SubjectInv'  BY <1>1, <1>5, <1>6 DEF FreshInv, SubjectInv, Saw
<1>8. QED  BY <1>3, <1>7 DEF FreshInv

\* GenerateAvsSigningKey touches no session.
LEMMA FreshRotation ==
    ASSUME TypeOK, FreshInv, NEW r \in Rotations,
           \/ RotateCall(r) \/ TcaCertified(r) \/ TcaFailed(r)
           \/ Install(r) \/ RotateCancel(r)
    PROVE  FreshInv'
<1>1. UNCHANGED <<nonce, out, chan, received, attested, issued>>
  BY RotationFrame DEF sessionVars
<1>2. \A s \in Streams : pc'[s] = pc[s]
  BY RotationFrame, CallsAssumption DEF Calls
<1>3. NonceInv' /\ ChallengeInv' /\ EvidenceInv'
  BY <1>1, <1>2, FreshElsewhere
<1>4. SubjectInv'  BY <1>1 DEF FreshInv, SubjectInv, Saw
<1>5. QED  BY <1>3, <1>4 DEF FreshInv

\* Evidence for a nonce is made only after its challenge was received.
LEMMA FreshOther ==
    ASSUME TypeOK, FreshInv, (\E e \in Evidence : Attest(e)) \/ UNCHANGED vars
    PROVE  FreshInv'
<1> USE DEF Attest, vars, lockVars, sessionVars
<1>1. NonceInv'  BY DEF FreshInv, NonceInv
<1>2. ChallengeInv'  BY DEF FreshInv, ChallengeInv, OnlyChallenge
<1>3. EvidenceInv'  BY DEF FreshInv, EvidenceInv, Saw
<1>4. SubjectInv'  BY DEF FreshInv, SubjectInv, Saw
<1>5. QED  BY <1>1, <1>2, <1>3, <1>4 DEF FreshInv

\* Steps of a session that leave its nonce and what was received alone.
LEMMA FreshQuiet ==
    ASSUME TypeOK, FreshInv, NEW s \in Streams,
           UNCHANGED <<nonce, received, attested, issued>>,
           \A t \in Streams \ {s} : pc'[t] = pc[t],
           pc'[s] \in {"idle", "waiting", "await_challenge"} => nonce[s] = NoNonce,
           pc'[s] \in {"send_challenge", "await_certify"} => nonce[s] # NoNonce,
           \A t \in Streams : OnlyChallenge(out'[t], nonce[t]) /\ OnlyChallenge(chan'[t], nonce[t])
    PROVE  FreshInv'
<1>1. NonceInv'  BY DEF FreshInv, NonceInv
<1>2. ChallengeInv'  BY Zenon DEF FreshInv, ChallengeInv
<1>3. EvidenceInv'  BY DEF FreshInv, EvidenceInv, Saw
<1>4. SubjectInv'  BY DEF FreshInv, SubjectInv, Saw
<1>5. QED  BY <1>1, <1>2, <1>3, <1>4 DEF FreshInv

\* The nonce is drawn: no challenge of this session existed before.
LEMMA FreshChallenge ==
    ASSUME TypeOK, FreshInv, NEW s \in Streams, AwaitChallenge(s)
    PROVE  FreshInv'
<1> USE NoValueAssumption DEF Calls
<1>1. PICK n \in FreshNonces : /\ nonce' = [nonce EXCEPT ![s] = n]
                               /\ pc' = [pc EXCEPT ![s] = "send_challenge"]
                               /\ out' = [out EXCEPT ![s] = <<Challenge(n)>>]
  BY Zenon DEF AwaitChallenge, Send, Goto
<1>2. n \in Nonces /\ \A t \in Streams : nonce[t] # n
  BY DEF FreshNonces
<1>3. nonce[s] = NoNonce
  BY Zenon DEF AwaitChallenge, FreshInv, NonceInv
<1>4. UNCHANGED <<chan, received, attested, issued>>
  BY DEF AwaitChallenge
<1>5. NonceInv'
  BY <1>1, <1>2 DEF FreshInv, NonceInv, TypeOK
<1>6. ASSUME NEW q, OnlyChallenge(q, nonce[s]) PROVE OnlyChallenge(q, n)
  BY <1>3, <1>6 DEF OnlyChallenge
<1>7. OnlyChallenge(<<Challenge(n)>>, n)
  BY DEF OnlyChallenge, Challenge
<1>8. ChallengeInv'
  <2> SUFFICES ASSUME NEW t \in Streams
               PROVE  /\ OnlyChallenge(out'[t], nonce'[t])
                      /\ OnlyChallenge(chan[t], nonce'[t])
                      /\ OnlyChallenge(received[t], nonce'[t])
    BY <1>4 DEF ChallengeInv, OnlyChallenge
  <2>1. CASE t = s
    BY <1>1, <1>6, <1>7, <2>1 DEF TypeOK, FreshInv, ChallengeInv
  <2>2. CASE t # s
    BY <1>1, <2>2 DEF TypeOK, FreshInv, ChallengeInv
  <2>3. QED  BY <2>1, <2>2
<1>9. EvidenceInv'  BY <1>4 DEF FreshInv, EvidenceInv, Saw
<1>10. SubjectInv'
  BY <1>1, <1>3, <1>4 DEF FreshInv, SubjectInv, Saw, TypeOK, Certificate
<1>11. QED  BY <1>5, <1>8, <1>9, <1>10 DEF FreshInv

\* The request is certified: its evidence was made for this session's nonce,
\* and only this session's client can have seen that nonce.
LEMMA FreshCertify ==
    ASSUME TypeOK, AuthorityInv, FreshInv, NEW s \in Streams, AwaitCertify(s)
    PROVE  FreshInv'
<1> USE CallsAssumption, NoValueAssumption DEF Calls
<1>1. UNCHANGED <<nonce, chan, received, attested>> /\ pc[s] = "await_certify"
  BY Zenon DEF AwaitCertify
<1>2. pc' = [pc EXCEPT ![s] = "send_last"]
  BY DEF AwaitCertify, Send, Fail, Goto
<1>3. PICK item : out' = [out EXCEPT ![s] = <<item>>] /\ item.type # "challenge"
  <2>1. PICK req \in Requests :
           \/ out' = [out EXCEPT ![s] = <<[type |-> "certificate", leaf |-> Leaf(s, req)]>>]
           \/ out' = [out EXCEPT ![s] = <<Error(StreamCode(Verdict(req, nonce[s])))>>]
    BY Zenon DEF AwaitCertify, Send, Fail
  <2>2. [type |-> "certificate", leaf |-> Leaf(s, req)].type # "challenge"
    OBVIOUS
  <2>3. Error(StreamCode(Verdict(req, nonce[s]))).type # "challenge"
    BY DEF Error
  <2>4. QED  BY <2>1, <2>2, <2>3
<1>4. NonceInv'  BY <1>1, <1>2 DEF FreshInv, NonceInv, TypeOK
<1>5. OnlyChallenge(<<item>>, nonce[s])
  BY <1>3 DEF OnlyChallenge, Challenge
<1>6. ChallengeInv'
  <2>1. out'[s] = <<item>> /\ \A t \in Streams \ {s} : out'[t] = out[t]
    BY <1>3 DEF TypeOK
  <2>2. \A t \in Streams : OnlyChallenge(out'[t], nonce[t])
    BY <1>5, <2>1 DEF FreshInv, ChallengeInv
  <2>3. QED  BY <1>1, <2>2 DEF FreshInv, ChallengeInv
<1>7. EvidenceInv'  BY <1>1 DEF FreshInv, EvidenceInv, Saw
<1>8. nonce[s] # NoNonce /\ nonce[s] \in Nonces
  BY <1>1 DEF FreshInv, NonceInv, TypeOK
<1>9. ASSUME NEW req \in Requests, Bound(req, nonce[s]) PROVE Saw(s, nonce[s])
  <2>1. PICK t \in Streams : Saw(t, nonce[s])
    BY <1>8, <1>9, RequestType DEF Bound, FreshInv, EvidenceInv
  <2>2. nonce[t] = nonce[s]
    BY <1>8, <2>1 DEF Saw, FreshInv, ChallengeInv, OnlyChallenge
  <2>3. QED  BY <1>8, <2>1, <2>2 DEF FreshInv, NonceInv
<1>10. \/ issued' = issued
       \/ \E req \in Requests : Bound(req, nonce[s]) /\ issued' = issued \cup {Leaf(s, req)}
  BY StreamFrame, Zenon
<1>11. \A cert \in issued' \ issued :
          cert.via = s /\ cert.subject.nonce = nonce[s] /\ Saw(s, nonce[s])
  BY <1>9, <1>10, LeafFields DEF Bound
<1>12. s \notin Unary
  BY CallsAssumption
<1>13. ASSUME NEW t, NEW n PROVE Saw(t, n)' <=> Saw(t, n)
  BY <1>1 DEF Saw
<1>14. SubjectInv'
  <2>1. SUFFICES ASSUME NEW cert \in issued'
                 PROVE  /\ cert.via \in Unary => cert.subject.nonce = NoNonce
                        /\ cert.via \in Streams => /\ cert.subject.nonce = nonce[cert.via]
                                                   /\ nonce[cert.via] # NoNonce
                                                   /\ Saw(cert.via, cert.subject.nonce)
    BY <1>1, <1>13 DEF SubjectInv
  <2>2. CASE cert \in issued  BY <2>2 DEF FreshInv, SubjectInv
  <2>3. CASE cert \notin issued  BY <2>3, <1>8, <1>11, <1>12
  <2>4. QED  BY <2>2, <2>3
<1>15. QED  BY <1>4, <1>6, <1>7, <1>14 DEF FreshInv

\* A client receives only the challenge of its own session.
LEMMA FreshReceive ==
    ASSUME TypeOK, FreshInv, NEW s \in Streams, ClientReceive(s)
    PROVE  FreshInv'
<1>1. /\ received' = [received EXCEPT ![s] = received[s] \o chan[s]]
      /\ chan' = [chan EXCEPT ![s] = <<>>]
      /\ UNCHANGED <<pc, nonce, out, attested, issued>>
  BY DEF ClientReceive
<1>2. received[s] \in Seq(Item) /\ chan[s] \in Seq(Item)
  BY DEF TypeOK
<1>3. NonceInv'  BY <1>1 DEF FreshInv, NonceInv
<1>4. OnlyChallenge(received[s] \o chan[s], nonce[s])
  <2>1. OnlyChallenge(received[s], nonce[s]) /\ OnlyChallenge(chan[s], nonce[s])
    BY DEF FreshInv, ChallengeInv
  <2> DEFINE p == received[s]
             q == chan[s]
  <2>2. SUFFICES ASSUME NEW i \in DOMAIN (p \o q), NEW m \in Nonces, (p \o q)[i] = Challenge(m)
                 PROVE  m = nonce[s]
    BY Zenon DEF OnlyChallenge
  <2>3. \/ i \in DOMAIN p /\ (p \o q)[i] = p[i]
        \/ i - Len(p) \in DOMAIN q /\ (p \o q)[i] = q[i - Len(p)]
    BY <1>2, ConcatItems, Zenon
  <2> HIDE DEF p, q
  <2>4. OnlyChallenge(p, nonce[s]) /\ OnlyChallenge(q, nonce[s])  BY <2>1 DEF p, q
  <2>5. QED  BY <2>2, <2>3, <2>4 DEF OnlyChallenge
<1>5. /\ received'[s] = received[s] \o chan[s] /\ chan'[s] = <<>>
      /\ \A t \in Streams \ {s} : received'[t] = received[t] /\ chan'[t] = chan[t]
  BY <1>1 DEF TypeOK
<1>6. ChallengeInv'
  <2>1. OnlyChallenge(<<>>, nonce[s])  BY DEF OnlyChallenge
  <2>2. ASSUME NEW t \in Streams
        PROVE  /\ OnlyChallenge(out[t], nonce[t])
               /\ OnlyChallenge(chan'[t], nonce[t])
               /\ OnlyChallenge(received'[t], nonce[t])
    <3>1. CASE t = s  BY <3>1, <1>4, <1>5, <2>1 DEF FreshInv, ChallengeInv
    <3>2. CASE t # s  BY <3>2, <1>5 DEF FreshInv, ChallengeInv
    <3>3. QED  BY <3>1, <3>2
  <2>3. QED  BY <1>1, <2>2 DEF ChallengeInv
<1>7. ASSUME NEW t \in Streams, NEW n, Saw(t, n) PROVE Saw(t, n)'
  <2>1. PICK i \in DOMAIN received[t] : received[t][i] = Challenge(n)
    BY <1>7 DEF Saw
  <2>2. i \in DOMAIN received'[t] /\ received'[t][i] = received[t][i]
    <3>1. CASE t = s
      <4>1. i \in DOMAIN (received[s] \o chan[s])
            /\ (received[s] \o chan[s])[i] = received[s][i]
        BY <3>1, <1>2, ConcatItems, Zenon
      <4>2. QED  BY <3>1, <4>1, <1>5
    <3>2. CASE t # s  BY <3>2, <1>5
    <3>3. QED  BY <3>1, <3>2
  <2>3. QED  BY <2>1, <2>2 DEF Saw
<1>8. EvidenceInv'  BY <1>1, <1>7 DEF FreshInv, EvidenceInv
<1>9. SubjectInv'  BY <1>1, <1>7 DEF FreshInv, SubjectInv
<1>10. QED  BY <1>3, <1>6, <1>8, <1>9 DEF FreshInv

\* Every step of a session keeps FreshInv.
LEMMA FreshStream ==
    ASSUME TypeOK, AuthorityInv, FreshInv, NEW s \in Streams,
           \/ StreamCall(s) \/ StreamServer(s) \/ StreamCancel(s)
           \/ AwaitChallenge(s) \/ AwaitCertify(s) \/ AwaitFails(s)
           \/ ClientReceive(s) \/ ClientGone(s)
    PROVE  FreshInv'
<1> USE DEF Calls, lockVars, sessionVars, Goto, Finish
<1>0. OnlyChallenge(<<>>, nonce[s])  BY DEF OnlyChallenge
<1>1. CASE StreamCall(s) \/ StreamCancel(s) \/ StreamOpen(s)
  <2>1. /\ UNCHANGED <<nonce, out, chan, received, attested, issued>>
        /\ pc[s] \in {"idle", "waiting"}
        /\ \E label \in {"waiting", "done", "await_challenge"} : pc' = [pc EXCEPT ![s] = label]
    BY <1>1 DEF StreamCall, StreamCancel, StreamOpen, Enqueue, Granted
  <2>2. QED
    BY <2>1, FreshQuiet, Zenon DEF TypeOK, FreshInv, NonceInv, ChallengeInv
<1>2. CASE AwaitFails(s)
  <2>1. PICK code : out' = [out EXCEPT ![s] = <<Error(code)>>] /\ pc' = [pc EXCEPT ![s] = "send_last"]
    BY <1>2, Zenon DEF AwaitFails, Fail, Send
  <2>2. OnlyChallenge(<<Error(code)>>, nonce[s])
    <3>1. \A m : Error(code).type = "error" /\ Challenge(m).type = "challenge"
      BY DEF Error, Challenge
    <3>2. \A m : Error(code) # Challenge(m)
      BY <3>1
    <3>3. \A i \in DOMAIN <<Error(code)>> : <<Error(code)>>[i] = Error(code)
      OBVIOUS
    <3>4. QED  BY <3>2, <3>3 DEF OnlyChallenge
  <2>3. UNCHANGED <<nonce, chan, received, attested, issued>>
    BY <1>2 DEF AwaitFails
  <2>4. QED
    BY <2>1, <2>2, <2>3, FreshQuiet, Zenon DEF TypeOK, FreshInv, ChallengeInv
<1>3. CASE SendOk(s)
  <2>1. /\ chan' = [chan EXCEPT ![s] = out[s]] /\ out' = [out EXCEPT ![s] = <<>>]
        /\ UNCHANGED <<nonce, received, attested, issued>>
        /\ \/ pc[s] = "send_challenge" /\ pc' = [pc EXCEPT ![s] = "await_certify"]
           \/ pc' = [pc EXCEPT ![s] = "done"]
    BY <1>3 DEF SendOk, EndTask
  <2>2. QED
    BY <1>0, <2>1, FreshQuiet, Zenon DEF TypeOK, FreshInv, NonceInv, ChallengeInv
<1>4. CASE SendFails(s)
  <2>1. /\ out' = [out EXCEPT ![s] = <<>>] /\ pc' = [pc EXCEPT ![s] = "done"]
        /\ UNCHANGED <<nonce, chan, received, attested, issued>>
    BY <1>4 DEF SendFails, EndTask
  <2>2. QED
    BY <1>0, <2>1, FreshQuiet, Zenon DEF TypeOK, FreshInv, ChallengeInv
<1>5. CASE ClientGone(s)
  <2>1. chan' = [chan EXCEPT ![s] = <<>>] /\ UNCHANGED <<pc, nonce, out, received, attested, issued>>
    BY <1>5 DEF ClientGone
  <2>2. QED
    BY <1>0, <2>1, FreshQuiet, Zenon DEF TypeOK, FreshInv, NonceInv, ChallengeInv
<1>6. QED
  BY <1>1, <1>2, <1>3, <1>4, <1>5, FreshChallenge, FreshCertify, FreshReceive DEF StreamServer

\* FreshInv holds in every behaviour of the service.
LEMMA FreshCorrect == Spec => []FreshInv
<1>1. TypeOK /\ AuthorityInv /\ FreshInv /\ [Next]_vars => FreshInv'
  BY FreshUnary, FreshStream, FreshRotation, FreshOther DEF Next
<1>2. QED  BY <1>1, FreshInit, TypeCorrect, PTL DEF Spec

\* A session certifies only evidence made for its own nonce, which its
\* client had received by then.
THEOREM ChallengedFirst == Spec => []CertifiedAfterChallenge
<1>1. FreshInv => CertifiedAfterChallenge
  BY Zenon DEF FreshInv, SubjectInv, Saw, CertifiedAfterChallenge
<1>2. QED  BY <1>1, FreshCorrect, PTL

\* Evidence certified in a session is certified nowhere else.
THEOREM NotReplayed == Spec => []EvidenceNotReplayed
<1>1. TypeOK /\ FreshInv => EvidenceNotReplayed
  BY DEF TypeOK, Certificate, FreshInv, SubjectInv, NonceInv, EvidenceNotReplayed
<1>2. QED  BY <1>1, FreshCorrect, TypeCorrect, PTL

-----------------------------------------------------------------------------
(* The response stream of a session.                                       *)

\* The items put on a channel, of which the client has received r and not q:
\* none, x, or x and y.
SentNone(r, q) == r = <<>> /\ q = <<>>
One(q, x) == Len(q) = 1 /\ q[1] = x
SentOne(r, q, x) == (r = <<>> /\ One(q, x)) \/ (One(r, x) /\ q = <<>>)
SentTwo(r, q, x, y) ==
    \/ One(r, x) /\ One(q, y)
    \/ Len(r) = 2 /\ r[1] = x /\ r[2] = y /\ q = <<>>

Final(s, x) == x.type = "error" \/ (x.type = "certificate" /\ x.leaf.via = s)

\* What session s has sent (r and q) and is sending (o) at a label, c being
\* its challenge and left the sessions whose client went away.
At(s, label, c, o, r, q, left) ==
    /\ label \in {"idle", "waiting", "done"} \cup Session
    /\ s \in left => q = <<>>
    /\ label \in {"idle", "waiting", "await_challenge"} => SentNone(r, q)
    /\ label = "send_challenge" => One(o, c) /\ SentNone(r, q)
    /\ label = "await_certify" => SentOne(r, q, c) \/ (s \in left /\ SentNone(r, q))
    /\ label = "send_last" =>
         \E x : /\ One(o, x) /\ Final(s, x)
                /\ SentOne(r, q, c) \/ (SentNone(r, q) /\ (x.type = "error" \/ s \in left))
    /\ label = "done" =>
         \/ SentNone(r, q) \/ SentOne(r, q, c)
         \/ \E x : Final(s, x) /\ (SentTwo(r, q, c, x) \/ (SentOne(r, q, x) /\ x.type = "error"))

StreamInv(s) == At(s, pc[s], Challenge(nonce[s]), out[s], received[s], chan[s], gone)
TranscriptInv == \A s \in Streams : StreamInv(s)

\* What the client has after it reads one item.
LEMMA ShortConcat ==
    ASSUME NEW S, NEW p \in Seq(S), NEW q \in Seq(S)
    PROVE  Len(q) = 1 => /\ Len(p \o q) = Len(p) + 1
                         /\ Len(p) = 0 => (p \o q)[1] = q[1]
                         /\ Len(p) = 1 => (p \o q)[1] = p[1] /\ (p \o q)[2] = q[1]
<1> DEFINE r == p \o q
<1>1. Len(r) = Len(p) + Len(q) /\ Len(p) \in Nat
  OBVIOUS
<1>2. \A i \in 1..Len(p) : r[i] = p[i]
  OBVIOUS
<1>3. \A i \in 1..Len(q) : r[Len(p) + i] = q[i]
  OBVIOUS
<1> HIDE DEF r
<1>4. Len(q) = 1 => r[Len(p) + 1] = q[1]
  BY <1>3
<1>5. Len(p) = 1 => r[1] = p[1]
  BY <1>2
<1>6. Len(q) = 1 => Len(r) = Len(p) + 1
  BY <1>1
<1>7. QED
  BY <1>1, <1>4, <1>5, <1>6 DEF r

\* The task is handed its last item, x, to send.
LEMMA AtSendLast ==
    ASSUME NEW s, NEW label \in {"await_challenge", "await_certify"}, NEW c, NEW o, NEW r, NEW q, NEW left,
           At(s, label, c, o, r, q, left),
           NEW x, Final(s, x), label = "await_challenge" => x.type = "error"
    PROVE  At(s, "send_last", c, <<x>>, r, q, left)
<1>1. One(<<x>>, x)
  BY DEF One
<1>2. /\ s \in left => q = <<>>
      /\ SentOne(r, q, c) \/ (SentNone(r, q) /\ (x.type = "error" \/ s \in left))
  BY DEF At
<1>3. QED
  BY <1>1, <1>2 DEF At, Session

\* An item reaches the empty channel of a client that is there.
LEMMA AtSendOk ==
    ASSUME NEW s, NEW c, NEW o, NEW r, NEW left, s \notin left
    PROVE  /\ At(s, "send_challenge", c, o, r, <<>>, left) => At(s, "await_certify", c, <<>>, r, o, left)
           /\ At(s, "send_last", c, o, r, <<>>, left) => At(s, "done", c, <<>>, r, o, left)
<1>1. ASSUME At(s, "send_challenge", c, o, r, <<>>, left)
      PROVE  At(s, "await_certify", c, <<>>, r, o, left)
  <2>1. One(o, c) /\ r = <<>>
    BY <1>1 DEF At, SentNone
  <2>2. QED
    BY <2>1 DEF At, Session, SentOne
<1>2. ASSUME At(s, "send_last", c, o, r, <<>>, left)
      PROVE  At(s, "done", c, <<>>, r, o, left)
  <2>1. PICK x : /\ One(o, x) /\ Final(s, x)
                 /\ SentOne(r, <<>>, c) \/ (SentNone(r, <<>>) /\ x.type = "error")
    BY <1>2 DEF At
  <2>2. SentTwo(r, o, c, x) \/ (SentOne(r, o, x) /\ x.type = "error")
    <3>1. ~One(<<>>, c)
      BY DEF One
    <3>2. QED
      BY <2>1, <3>1 DEF SentTwo, SentOne, SentNone
  <2>3. QED
    BY <2>1, <2>2 DEF At, Session
<1>3. QED
  BY <1>1, <1>2

\* The client reads the item in the channel.
LEMMA AtReceive ==
    ASSUME NEW s, NEW label, NEW c, NEW o, NEW r \in Seq(Item), NEW q \in Seq(Item), NEW left,
           s \notin left, q # <<>>, At(s, label, c, o, r, q, left)
    PROVE  At(s, label, c, o, r \o q, <<>>, left)
<1> DEFINE rq == r \o q
<1>1. ASSUME NEW x, SentOne(r, q, x) PROVE SentOne(rq, <<>>, x)
  <2>1. r = <<>> /\ Len(q) = 1 /\ q[1] = x
    BY <1>1 DEF SentOne, One
  <2>2. Len(r) = 0
    BY <2>1
  <2>3. Len(rq) = 1 /\ rq[1] = x
    BY <2>1, <2>2, ShortConcat
  <2> HIDE DEF rq
  <2>4. QED
    BY <2>3 DEF SentOne, One
<1>2. ASSUME NEW x, NEW y, SentTwo(r, q, x, y) PROVE SentTwo(rq, <<>>, x, y)
  <2>1. Len(r) = 1 /\ r[1] = x /\ Len(q) = 1 /\ q[1] = y
    BY <1>2 DEF SentTwo, One
  <2>2. Len(rq) = 2 /\ rq[1] = x /\ rq[2] = y
    BY <2>1, ShortConcat
  <2> HIDE DEF rq
  <2>3. QED
    BY <2>2 DEF SentTwo
<1>3. ~SentNone(r, q)
  BY DEF SentNone
<1> HIDE DEF rq
<1>4. At(s, label, c, o, rq, <<>>, left)
  BY <1>1, <1>2, <1>3 DEF At
<1>5. QED
  BY <1>4 DEF rq

\* The client goes away, and the item in the channel with it.
LEMMA AtGone ==
    ASSUME NEW s, NEW label \in {"done"} \cup Session, NEW c, NEW o, NEW r, NEW q, NEW left,
           At(s, label, c, o, r, q, left)
    PROVE  At(s, label, c, o, r, <<>>, left \cup {s})
<1>1. \A x : SentOne(r, q, x) => SentOne(r, <<>>, x) \/ SentNone(r, <<>>)
  BY DEF SentOne, SentNone
<1>2. \A x, y : SentTwo(r, q, x, y) => SentTwo(r, <<>>, x, y) \/ SentOne(r, <<>>, x)
  BY DEF SentTwo, SentOne
<1>3. SentNone(r, q) => SentNone(r, <<>>)
  BY DEF SentNone
<1>4. s \in left \cup {s}
  OBVIOUS
<1>5. QED
  BY <1>1, <1>2, <1>3, <1>4 DEF At

\* A session whose state is left alone keeps its transcript.
LEMMA StreamUntouched ==
    ASSUME NEW s \in Streams, StreamInv(s),
           pc'[s] = pc[s], nonce'[s] = nonce[s], out'[s] = out[s], chan'[s] = chan[s],
           received'[s] = received[s], s \in gone' <=> s \in gone
    PROVE  StreamInv(s)'
BY Zenon DEF StreamInv, At

\* A step of one session touches no other.
LEMMA StreamsApart ==
    ASSUME TypeOK, NEW s \in Streams, NEW t \in Streams \ {s},
           \/ StreamCall(s) \/ StreamServer(s) \/ StreamCancel(s)
           \/ AwaitChallenge(s) \/ AwaitCertify(s) \/ AwaitFails(s)
           \/ ClientReceive(s) \/ ClientGone(s)
    PROVE  /\ pc'[t] = pc[t] /\ nonce'[t] = nonce[t] /\ out'[t] = out[t] /\ chan'[t] = chan[t]
           /\ received'[t] = received[t] /\ (t \in gone' <=> t \in gone)
<1>0. /\ DOMAIN pc = Calls /\ s \in Calls /\ t \in Calls /\ DOMAIN nonce = Streams /\ DOMAIN out = Streams
      /\ DOMAIN chan = Streams /\ DOMAIN received = Streams
  BY DEF TypeOK, Calls
<1> USE DEF sessionVars, Goto, Finish
<1>1. CASE StreamCall(s) \/ StreamCancel(s)
  BY <1>0, <1>1, Zenon DEF StreamCall, StreamCancel, Enqueue
<1>2. CASE StreamOpen(s)
  BY <1>0, <1>2, Zenon DEF StreamOpen
<1>3. CASE AwaitChallenge(s)
  BY <1>0, <1>3, Zenon DEF AwaitChallenge, Send
<1>4. CASE AwaitCertify(s) \/ AwaitFails(s)
  <2>1. PICK item : Send(s, "send_last", item)
    BY <1>4, Zenon DEF AwaitCertify, AwaitFails, Fail
  <2>2. UNCHANGED <<nonce, chan, received, gone>>
    BY <1>4, Zenon DEF AwaitCertify, AwaitFails
  <2>3. QED
    BY <1>0, <2>1, <2>2, Zenon DEF Send
<1>5. CASE SendOk(s) \/ SendFails(s)
  BY <1>0, <1>5, Zenon DEF SendOk, SendFails, EndTask
<1>6. CASE ClientReceive(s) \/ ClientGone(s)
  BY <1>0, <1>6, Zenon DEF ClientReceive, ClientGone
<1>7. QED
  BY <1>1, <1>2, <1>3, <1>4, <1>5, <1>6, Zenon DEF StreamServer

\* Each step of a session extends its own transcript as its labels say.
LEMMA TranscriptStep ==
    ASSUME TypeOK, NEW s \in Streams, StreamInv(s),
           \/ StreamCall(s) \/ StreamServer(s) \/ StreamCancel(s)
           \/ AwaitChallenge(s) \/ AwaitCertify(s) \/ AwaitFails(s)
           \/ ClientReceive(s) \/ ClientGone(s)
    PROVE  StreamInv(s)'
<1> DEFINE c == Challenge(nonce[s])
<1>0. /\ DOMAIN pc = Calls /\ s \in Calls /\ DOMAIN nonce = Streams /\ DOMAIN out = Streams
      /\ DOMAIN chan = Streams /\ DOMAIN received = Streams
      /\ received[s] \in Seq(Item) /\ chan[s] \in Seq(Item)
  BY DEF TypeOK, Calls
<1>a. At(s, pc[s], c, out[s], received[s], chan[s], gone)
  BY Zenon DEF StreamInv
<1>1. CASE StreamCall(s) \/ StreamCancel(s)
  <2>1. /\ pc[s] \in {"idle", "waiting"} /\ pc'[s] \in {"waiting", "done"}
        /\ UNCHANGED sessionVars
    BY <1>0, <1>1, Zenon DEF StreamCall, StreamCancel, Enqueue, Goto
  <2>2. SentNone(received[s], chan[s]) /\ (s \in gone => chan[s] = <<>>)
    BY <1>a, <2>1, Zenon DEF At
  <2>3. QED
    BY <2>1, <2>2, Zenon DEF StreamInv, At, Session, sessionVars
<1>2. CASE StreamOpen(s)
  <2>1. /\ pc[s] = "waiting" /\ pc'[s] \in {"await_challenge", "done"}
        /\ UNCHANGED sessionVars
    BY <1>0, <1>2, Zenon DEF StreamOpen, Granted, Finish, Goto
  <2>2. SentNone(received[s], chan[s]) /\ (s \in gone => chan[s] = <<>>)
    BY <1>a, <2>1, Zenon DEF At
  <2>3. QED
    BY <2>1, <2>2, Zenon DEF StreamInv, At, Session, sessionVars
<1>3. CASE AwaitChallenge(s)
  <2>1. PICK n \in FreshNonces : nonce' = [nonce EXCEPT ![s] = n] /\ Send(s, "send_challenge", Challenge(n))
    BY <1>3, Zenon DEF AwaitChallenge
  <2>2. /\ SentNone(received[s], chan[s]) /\ (s \in gone => chan[s] = <<>>)
        /\ UNCHANGED <<chan, received, gone>>
    BY <1>3, <1>a, Zenon DEF AwaitChallenge, At
  <2>3. nonce'[s] = n /\ pc'[s] = "send_challenge" /\ One(out'[s], Challenge(n))
    BY <1>0, <2>1, Zenon DEF Send, Goto, One
  <2>4. QED
    BY <2>2, <2>3, Zenon DEF StreamInv, At, Session
<1>4. CASE AwaitCertify(s) \/ AwaitFails(s)
  <2>1. PICK x : Send(s, "send_last", x) /\ Final(s, x) /\ (pc[s] = "await_challenge" => x.type = "error")
    <3>1. CASE AwaitFails(s)
      BY <3>1 DEF AwaitFails, Fail, Error, Final
    <3>2. CASE AwaitCertify(s)
      <4>1. PICK req \in Requests :
               \/ Send(s, "send_last", [type |-> "certificate", leaf |-> Leaf(s, req)])
               \/ \E code : Fail(s, code)
        BY <3>2, Zenon DEF AwaitCertify
      <4>2. pc[s] # "await_challenge"
        BY <3>2, Zenon DEF AwaitCertify
      <4>3. QED
        BY <4>1, <4>2, Zenon DEF Final, Fail, Error, Leaf
    <3>3. QED
      BY <1>4, <3>1, <3>2
  <2>2. pc[s] \in {"await_challenge", "await_certify"} /\ UNCHANGED <<nonce, chan, received, gone>>
    BY <1>4, Zenon DEF AwaitCertify, AwaitFails
  <2>3. pc'[s] = "send_last" /\ out'[s] = <<x>>
    BY <1>0, <2>1, Zenon DEF Send, Goto
  <2>4. At(s, "send_last", c, <<x>>, received[s], chan[s], gone)
    BY <1>a, <2>1, <2>2, AtSendLast, Zenon
  <2>5. QED
    BY <2>2, <2>3, <2>4, Zenon DEF StreamInv
<1>5. CASE SendOk(s)
  <2>1. /\ s \notin gone /\ chan[s] = <<>> /\ chan'[s] = out[s] /\ out'[s] = <<>>
        /\ UNCHANGED <<nonce, received, gone>>
    BY <1>0, <1>5, Zenon DEF SendOk
  <2>2. \/ pc[s] = "send_challenge" /\ pc'[s] = "await_certify"
        \/ pc[s] = "send_last" /\ pc'[s] = "done"
    BY <1>0, <1>5, Zenon DEF SendOk, EndTask, Goto
  <2>3. At(s, pc[s], c, out[s], received[s], <<>>, gone)
    BY <1>a, <2>1, Zenon
  <2>4. At(s, pc'[s], c, <<>>, received[s], out[s], gone)
    BY <2>1, <2>2, <2>3, AtSendOk, Zenon
  <2>5. QED
    BY <2>1, <2>4, Zenon DEF StreamInv
<1>6. CASE SendFails(s)
  <2>1. s \in gone /\ pc'[s] = "done" /\ UNCHANGED <<nonce, chan, received, gone>>
    BY <1>0, <1>6, Zenon DEF SendFails, EndTask, Goto
  <2>2. chan[s] = <<>> /\ (SentNone(received[s], chan[s]) \/ SentOne(received[s], chan[s], c))
    BY <1>6, <1>a, <2>1, Zenon DEF SendFails, At
  <2>3. QED
    BY <2>1, <2>2, Zenon DEF StreamInv, At, Session
<1>7. CASE ClientReceive(s)
  <2>1. /\ s \notin gone /\ chan[s] # <<>> /\ received'[s] = received[s] \o chan[s] /\ chan'[s] = <<>>
        /\ UNCHANGED <<pc, nonce, out, gone>>
    BY <1>0, <1>7, Zenon DEF ClientReceive
  <2>2. At(s, pc[s], c, out[s], received[s] \o chan[s], <<>>, gone)
    BY <1>0, <1>a, <2>1, AtReceive, Zenon
  <2>3. QED
    BY <2>1, <2>2, Zenon DEF StreamInv
<1>8. CASE ClientGone(s)
  <2>1. /\ gone' = gone \cup {s} /\ chan'[s] = <<>> /\ pc[s] \notin {"idle", "waiting"}
        /\ UNCHANGED <<pc, nonce, out, received>>
    BY <1>0, <1>8, Zenon DEF ClientGone
  <2>2. pc[s] \in {"done"} \cup Session
    BY <1>a, <2>1, Zenon DEF At
  <2>3. At(s, pc[s], c, out[s], received[s], <<>>, gone \cup {s})
    BY <1>a, <2>2, AtGone, Zenon
  <2>4. QED
    BY <2>1, <2>3, Zenon DEF StreamInv
<1>9. QED
  BY <1>1, <1>2, <1>3, <1>4, <1>5, <1>6, <1>7, <1>8 DEF StreamServer

\* What the labels say of a session's items is what SessionTranscript says.
LEMMA TranscriptShape ==
    ASSUME TypeOK, NEW s \in Streams, StreamInv(s)
    PROVE  LET sent == received[s] \o chan[s] IN
           /\ Len(sent) <= 2 /\ Len(chan[s]) <= 1
           /\ \A i \in DOMAIN sent :
                 /\ sent[i].type = "challenge" => i = 1 /\ sent[i].nonce = nonce[s]
                 /\ sent[i].type = "certificate" => i = 2 /\ sent[i].leaf.via = s
                 /\ sent[i].type = "error" => i = Len(sent)
<1> DEFINE r == received[s]
           q == chan[s]
           sent == r \o q
           c == Challenge(nonce[s])
<1> SUFFICES /\ Len(sent) <= 2 /\ Len(chan[s]) <= 1
             /\ \A i \in DOMAIN sent :
                   /\ sent[i].type = "challenge" => i = 1 /\ sent[i].nonce = nonce[s]
                   /\ sent[i].type = "certificate" => i = 2 /\ sent[i].leaf.via = s
                   /\ sent[i].type = "error" => i = Len(sent)
  BY Zenon
<1>1. /\ r \in Seq(Item) /\ q \in Seq(Item)
      /\ sent \in Seq(Item) /\ Len(sent) = Len(r) + Len(q)
  BY DEF TypeOK
<1>2. \/ SentNone(r, q) \/ SentOne(r, q, c)
      \/ \E x : Final(s, x) /\ (SentTwo(r, q, c, x) \/ (SentOne(r, q, x) /\ x.type = "error"))
  BY Zenon DEF StreamInv, At, Session
<1> HIDE DEF r, q
<1>3. \A x : SentOne(r, q, x) => Len(q) <= 1 /\ Len(sent) = 1 /\ sent[1] = x
  <2> SUFFICES ASSUME NEW x, SentOne(r, q, x) PROVE Len(q) <= 1 /\ Len(sent) = 1 /\ sent[1] = x
    OBVIOUS
  <2>1. CASE r = <<>> /\ One(q, x)
    BY <1>1, <2>1, ShortConcat DEF One
  <2>2. CASE One(r, x) /\ q = <<>>
    <3>1. sent = r
      BY <1>1, <2>2
    <3>2. QED
      BY <2>2, <3>1 DEF One
  <2>3. QED
    BY <2>1, <2>2 DEF SentOne
<1>4. \A x, y : SentTwo(r, q, x, y) => Len(q) <= 1 /\ Len(sent) = 2 /\ sent[1] = x /\ sent[2] = y
  <2> SUFFICES ASSUME NEW x, NEW y, SentTwo(r, q, x, y)
               PROVE  Len(q) <= 1 /\ Len(sent) = 2 /\ sent[1] = x /\ sent[2] = y
    OBVIOUS
  <2>1. CASE One(r, x) /\ One(q, y)
    BY <1>1, <2>1, ShortConcat DEF One
  <2>2. CASE Len(r) = 2 /\ r[1] = x /\ r[2] = y /\ q = <<>>
    <3>1. sent = r
      BY <1>1, <2>2
    <3>2. QED
      BY <2>2, <3>1
  <2>3. QED
    BY <2>1, <2>2 DEF SentTwo
<1>5. SentNone(r, q) => Len(sent) = 0 /\ Len(q) = 0
  BY <1>1 DEF SentNone
<1> HIDE DEF sent
<1>6. c.type = "challenge" /\ c.nonce = nonce[s]
  BY DEF Challenge
<1> HIDE DEF c
<1>7. DOMAIN sent = 1..Len(sent)
  BY <1>1
<1>8. Len(q) <= 1 /\ Len(sent) \in {0, 1, 2}
  <2>1. \/ SentNone(r, q) \/ (\E x : SentOne(r, q, x)) \/ (\E x, y : SentTwo(r, q, x, y))
    BY <1>2
  <2>2. QED
    BY <1>3, <1>4, <1>5, <2>1
<1>9. ASSUME NEW i \in DOMAIN sent
      PROVE  /\ sent[i].type = "challenge" => i = 1 /\ sent[i].nonce = nonce[s]
             /\ sent[i].type = "certificate" => i = 2 /\ sent[i].leaf.via = s
             /\ sent[i].type = "error" => i = Len(sent)
  <2>1. i \in 1..Len(sent)
    BY <1>7
  <2>2. CASE SentNone(r, q)
    BY <1>5, <2>1, <2>2
  <2>3. CASE SentOne(r, q, c)
    BY <1>3, <1>6, <2>1, <2>3
  <2>4. CASE \E x : SentOne(r, q, x) /\ x.type = "error"
    <3>1. Len(sent) = 1 /\ sent[1].type = "error"
      BY <1>3, <2>4
    <3>2. QED
      BY <2>1, <3>1
  <2>5. CASE \E x : Final(s, x) /\ SentTwo(r, q, c, x)
    <3>1. PICK x : Final(s, x) /\ SentTwo(r, q, c, x)
      BY <2>5
    <3>2. Len(sent) = 2 /\ sent[1] = c /\ sent[2] = x
      BY <1>4, <3>1
    <3>3. i \in {1, 2}
      BY <2>1, <3>2
    <3>4. QED
      BY <1>6, <3>1, <3>2, <3>3 DEF Final
  <2>6. QED
    BY <1>2, <2>2, <2>3, <2>4, <2>5, Zenon
<1>10. Len(sent) <= 2
  <2>1. \A n \in {0, 1, 2} : n <= 2
    OBVIOUS
  <2>2. QED
    BY <1>8, <2>1, Zenon
<1>11. QED
  BY <1>8, <1>9, <1>10, Zenon DEF r, q, sent

\* The response stream of every session is a challenge followed by one
\* certificate or error, or just an error, for any number of sessions and
\* clients that read, stop reading or go away at any point.
THEOREM Transcripts == Spec => []SessionTranscript
<1>1. Init => TranscriptInv
  BY DEF Init, TranscriptInv, StreamInv, At, SentNone, Session, Calls
<1>2. TypeOK /\ TranscriptInv /\ [Next]_vars => TranscriptInv'
  <2> SUFFICES ASSUME TypeOK, TranscriptInv, [Next]_vars, NEW t \in Streams PROVE StreamInv(t)'
    BY DEF TranscriptInv
  <2>1. StreamInv(t)
    BY DEF TranscriptInv
  <2>2. CASE \E u \in Unary : UnaryCall(u) \/ UnaryServer(u) \/ UnaryCancel(u)
    <3>1. UNCHANGED sessionVars /\ pc'[t] = pc[t]
      BY <2>2, UnaryFrame, CallsAssumption, Zenon DEF Calls
    <3>2. QED
      BY <2>1, <3>1, StreamUntouched DEF sessionVars
  <2>3. CASE \E r \in Rotations : \/ RotateCall(r) \/ TcaCertified(r) \/ TcaFailed(r)
                                  \/ Install(r) \/ RotateCancel(r)
    <3>1. UNCHANGED sessionVars /\ pc'[t] = pc[t]
      BY <2>3, RotationFrame, CallsAssumption DEF Calls
    <3>2. QED
      BY <2>1, <3>1, StreamUntouched DEF sessionVars
  <2>4. CASE (\E e \in Evidence : Attest(e)) \/ UNCHANGED vars
    <3>1. UNCHANGED <<nonce, out, chan, received, gone>> /\ pc' = pc
      BY <2>4 DEF Attest, vars, sessionVars
    <3>2. QED
      BY <2>1, <3>1, StreamUntouched
  <2>5. ASSUME NEW s \in Streams,
               \/ StreamCall(s) \/ StreamServer(s) \/ StreamCancel(s)
               \/ AwaitChallenge(s) \/ AwaitCertify(s) \/ AwaitFails(s)
               \/ ClientReceive(s) \/ ClientGone(s)
        PROVE  StreamInv(t)'
    <3>1. CASE t = s
      BY <2>1, <2>5, <3>1, TranscriptStep
    <3>2. CASE t # s
      BY <2>1, <2>5, <3>2, StreamsApart, StreamUntouched, Zenon
    <3>3. QED
      BY <3>1, <3>2
  <2>6. QED
    BY <2>2, <2>3, <2>4, <2>5 DEF Next
<1>3. TypeOK /\ TranscriptInv => SessionTranscript
  BY TranscriptShape, Zenon DEF TranscriptInv, SessionTranscript
<1>4. QED
  BY <1>1, <1>2, <1>3, TypeCorrect, PTL DEF Spec

-----------------------------------------------------------------------------
(* AvsServer implements CertificateIssuance, for any number of calls.      *)

Unissued == {"idle", "waiting", "await_challenge", "send_challenge", "await_certify"}

\* A session refers to no authority before it opens, and has signed nothing
\* before its request is certified.
OnceInv ==
    \A s \in Streams :
        /\ pc[s] \in {"idle", "waiting"} => authority[s] = NoCA
        /\ pc[s] \in Unissued => \A cert \in issued : cert.via # s

RefInv == TypeOK /\ AuthorityInv /\ IssueInv /\ OnceInv

References == [s \in Streams |-> authority[s]]

\* The service starts as the abstract authority does.
LEMMA RefInit == Init => OnceInv /\ Issuance!Init
BY DEF Init, OnceInv, Issuance!Init, Installed, Calls

\* How a step of a session moves its program counter and its reference.
LEMMA StreamPc ==
    ASSUME TypeOK, NEW s \in Streams,
           \/ StreamCall(s) \/ StreamServer(s) \/ StreamCancel(s)
           \/ AwaitChallenge(s) \/ AwaitCertify(s) \/ AwaitFails(s)
           \/ ClientReceive(s) \/ ClientGone(s)
    PROVE  /\ pc'[s] \in {"idle", "waiting"} => pc[s] \in {"idle", "waiting"} /\ authority'[s] = authority[s]
           /\ pc'[s] \in Unissued => pc[s] \in Unissued /\ issued' = issued
           /\ \/ authority'[s] = authority[s]
              \/ authority'[s] = NoCA /\ issued' = issued
              \/ /\ pc[s] = "waiting" /\ ca # NoCA
                 /\ authority'[s] = ca /\ issued' = issued
<1> USE DEF Calls, lockVars, sessionVars, Goto, Finish, TypeOK, Unissued
<1>1. CASE StreamCall(s)
  BY <1>1 DEF StreamCall, Enqueue
<1>2. CASE StreamOpen(s) /\ ca = NoCA
  BY <1>2 DEF StreamOpen, Granted
<1>3. CASE StreamOpen(s) /\ ca # NoCA
  BY <1>3 DEF StreamOpen, Granted
<1>4. CASE StreamCancel(s)
  BY <1>4 DEF StreamCancel
<1>5. CASE AwaitChallenge(s)
  BY <1>5 DEF AwaitChallenge, Send
<1>6. CASE AwaitCertify(s)
  <2>1. Goto(s, "send_last") /\ UNCHANGED authority
    BY <1>6 DEF AwaitCertify, Send, Fail
  <2>2. QED  BY <2>1
<1>7. CASE AwaitFails(s)
  BY <1>7 DEF AwaitFails, Fail, Send
<1>8. CASE SendOk(s)
  BY <1>8 DEF SendOk, EndTask
<1>9. CASE SendFails(s)
  BY <1>9 DEF SendFails, EndTask
<1>10. CASE ClientReceive(s)
  BY <1>10 DEF ClientReceive
<1>11. CASE ClientGone(s)
  BY <1>11 DEF ClientGone
<1>12. QED
  BY <1>1, <1>2, <1>3, <1>4, <1>5, <1>6, <1>7, <1>8, <1>9, <1>10, <1>11 DEF StreamServer

\* A unary step is a stutter, or the atomic certification.
LEMMA RefUnary ==
    ASSUME RefInv, NEW u \in Unary, UnaryCall(u) \/ UnaryServer(u) \/ UnaryCancel(u)
    PROVE  OnceInv' /\ [Issuance!Next]_(Issuance!vars)
<1> USE DEF RefInv
<1>a. u \notin Streams /\ u \notin Rotations
  BY CallsAssumption
<1>b. /\ ca' = ca /\ \A r \in Rotations : status'[r] = status[r]
      /\ \A s \in Streams : pc'[s] = pc[s] /\ authority'[s] = authority[s]
  BY UnaryFrame, <1>a DEF Calls
<1>c. \/ issued' = issued
      \/ pc[u] = "certify" /\ \E req \in Requests : issued' = issued \cup {Leaf(u, req)}
  BY UnaryFrame
<1>1. Installed' = Installed
  BY <1>b DEF Installed
<1>2. References' = References
  BY <1>b DEF References
<1>3. \A cert \in issued' \ issued : cert.via = u
  BY <1>c, LeafFields
<1>4. OnceInv'
  BY <1>a, <1>b, <1>3 DEF OnceInv
<1>5. CASE issued' = issued
  BY <1>b, <1>1, <1>2, <1>4, <1>5 DEF Issuance!vars, References
<1>6. CASE issued' # issued
  <2>1. PICK req \in Requests : issued' = issued \cup {Leaf(u, req)}
    BY <1>c, <1>6
  <2>2. authority[u] = ca /\ ca # NoCA /\ req.evidence \in Evidence
    BY <1>c, <1>6, RequestType DEF AuthorityInv, IssueInv, GuardInv
  <2>3. Issuance!Certify(u, req.evidence)
    BY <1>b, <1>1, <1>2, <2>1, <2>2 DEF Issuance!Certify, Issuance!Issue, Leaf, References
  <2>4. QED  BY <1>4, <2>2, <2>3 DEF Issuance!Next
<1>7. QED  BY <1>5, <1>6

\* A step of a session opens it, closes it, certifies, or is a stutter.
LEMMA RefStream ==
    ASSUME RefInv, NEW s \in Streams,
           \/ StreamCall(s) \/ StreamServer(s) \/ StreamCancel(s)
           \/ AwaitChallenge(s) \/ AwaitCertify(s) \/ AwaitFails(s)
           \/ ClientReceive(s) \/ ClientGone(s)
    PROVE  OnceInv' /\ [Issuance!Next]_(Issuance!vars)
<1> USE DEF RefInv
<1>a. /\ ca' = ca /\ \A r \in Rotations : status'[r] = status[r]
      /\ \A t \in Streams \ {s} : pc'[t] = pc[t] /\ authority'[t] = authority[t]
  BY StreamFrame, CallsAssumption DEF Calls
<1>b. \/ issued' = issued
      \/ /\ pc[s] = "await_certify" /\ authority'[s] = authority[s]
         /\ \E req \in Requests : issued' = issued \cup {Leaf(s, req)}
  BY StreamFrame
<1>c. /\ pc'[s] \in {"idle", "waiting"} => pc[s] \in {"idle", "waiting"} /\ authority'[s] = authority[s]
      /\ pc'[s] \in Unissued => pc[s] \in Unissued /\ issued' = issued
      /\ \/ authority'[s] = authority[s]
         \/ authority'[s] = NoCA /\ issued' = issued
         \/ /\ pc[s] = "waiting" /\ ca # NoCA
            /\ authority'[s] = ca /\ issued' = issued
  BY StreamPc
<1>1. Installed' = Installed /\ ca' = ca
  BY <1>a DEF Installed
<1>2. \A cert \in issued' \ issued : cert.via = s
  BY <1>b, LeafFields
<1>3. OnceInv'
  BY <1>a, <1>c, <1>2 DEF OnceInv
<1>4. CASE authority'[s] = authority[s] /\ issued' = issued
  <2>1. References' = References  BY <1>a, <1>4 DEF References
  <2>2. QED  BY <1>1, <1>3, <1>4, <2>1 DEF Issuance!vars, References
<1>5. CASE authority'[s] = NoCA /\ issued' = issued
  <2>1. References' = [References EXCEPT ![s] = NoCA]  BY <1>a, <1>5 DEF References
  <2>2. Issuance!Close(s)  BY <1>1, <1>5, <2>1 DEF Issuance!Close, References
  <2>3. QED  BY <1>3, <2>2 DEF Issuance!Next
<1>6. CASE pc[s] = "waiting" /\ ca # NoCA /\ authority'[s] = ca /\ issued' = issued
  <2>1. References' = [References EXCEPT ![s] = ca]
    BY <1>a, <1>6 DEF References
  <2>2. authority[s] = NoCA
    BY <1>6 DEF OnceInv
  <2>3. Issuance!Open(s)  BY <1>1, <1>6, <2>1, <2>2 DEF Issuance!Open, References
  <2>4. QED  BY <1>3, <2>3 DEF Issuance!Next
<1>7. CASE authority'[s] = authority[s] /\ issued' # issued
  <2>1. PICK req \in Requests : issued' = issued \cup {Leaf(s, req)}
    BY <1>b, <1>7
  <2>2. References' = References  BY <1>a, <1>7 DEF References
  <2>3. pc[s] = "await_certify"  BY <1>b, <1>7
  <2>4. authority[s] # NoCA /\ \A cert \in issued : cert.via # s
    BY <2>3 DEF AuthorityInv, Session, OnceInv, Unissued
  <2>5. Issuance!CertifyBound(s, req.evidence)
    BY <1>1, <2>1, <2>2, <2>4 DEF Issuance!CertifyBound, Issuance!Issue, Leaf, References
  <2>6. req.evidence \in Evidence  BY RequestType
  <2>7. QED  BY <1>3, <2>5, <2>6 DEF Issuance!Next
<1>8. QED  BY <1>c, <1>4, <1>5, <1>6, <1>7

\* A step of a rotation installs a new authority, or is a stutter.
LEMMA RefRotation ==
    ASSUME RefInv, NEW r \in Rotations,
           \/ RotateCall(r) \/ TcaCertified(r) \/ TcaFailed(r)
           \/ Install(r) \/ RotateCancel(r)
    PROVE  OnceInv' /\ [Issuance!Next]_(Issuance!vars)
<1> USE CallsAssumption, NoValueAssumption, RotationFrame DEF RefInv, Calls
<1>1. OnceInv'
  BY DEF OnceInv
<1>2. References' = References
  BY DEF References
<1>3. status[r] # "Ok"
  BY DEF IssueInv, RotationInv
<1>4. CASE ca' = ca /\ (status'[r] # "Ok" \/ status'[r] = status[r])
  <2>1. Installed' = Installed  BY <1>3, <1>4 DEF Installed
  <2>2. QED  BY <1>1, <1>2, <1>4, <2>1 DEF Issuance!vars, References
<1>5. CASE ca' = r /\ readers = {} /\ pc'[r] = "done" /\ status'[r] = "Ok"
  <2>1. Installed' = Installed \cup {r} /\ r \notin Installed  BY <1>3, <1>5 DEF Installed
  <2>2. Issuance!Rotate(r)  BY <1>2, <1>5, <2>1 DEF Issuance!Rotate, References
  <2>3. QED  BY <1>1, <2>2 DEF Issuance!Next
<1>6. QED  BY <1>4, <1>5

\* Making evidence is a stutter of the abstract authority.
LEMMA RefOther ==
    ASSUME RefInv, (\E e \in Evidence : Attest(e)) \/ UNCHANGED vars
    PROVE  OnceInv' /\ [Issuance!Next]_(Issuance!vars)
BY DEF RefInv, Attest, vars, lockVars, sessionVars, OnceInv, Installed, Issuance!vars

\* The concurrent service implements the abstract authority: rotations are
\* atomic and monotone, each unary answer takes effect in a single step
\* against the active authority, and a session signs at most once, with the
\* authority that was active when it opened.
THEOREM ImplementsIssuance == Spec => IssuanceSpec
<1>1. RefInv /\ [Next]_vars => OnceInv' /\ [Issuance!Next]_(Issuance!vars)
  BY RefUnary, RefStream, RefRotation, RefOther DEF Next
<1>2. TypeOK /\ AuthorityInv /\ IssueInv /\ [Next]_vars => IssueInv'
  BY IssueStep
<1>3. Spec => []RefInv
  BY <1>1, <1>2, IssueInit, RefInit, TypeCorrect, PTL DEF Spec, RefInv
<1>4. QED
  BY <1>1, <1>3, RefInit, PTL DEF Spec, IssuanceSpec, Issuance!Spec
=============================================================================
