----------------------------- MODULE AvsServer -----------------------------
(***************************************************************************)
(* The gRPC service of avs_server/src/server.rs: unary certification,      *)
(* interactive certification and key rotation, running concurrently over   *)
(* one certificate authority slot behind a tokio RwLock.                   *)
(*                                                                         *)
(* An authority is named by the GenerateAvsSigningKey call that created    *)
(* it: every call generates one fresh key pair.  Between two awaits a      *)
(* handler that touches only its own state is one action; reading the slot *)
(* and using what was read are separate actions.  A request is chosen when *)
(* the handler looks at it, which allows every request that could have     *)
(* been sent by then, because the evidence in existence only grows.        *)
(***************************************************************************)
EXTENDS Naturals, Sequences

CONSTANTS Unary,      \* slots for CertifyAttestation calls, reused
          Streams,    \* CertifyAttestationStream calls
          Rotations,  \* GenerateAvsSigningKey calls, and the authorities they create
          Keys,       \* workload keys
          Nonces,     \* values of the 32 random bytes
          Flaws,      \* the flaws requests may have, a subset of Flaw
          SelfSigned, \* TRUE iff the service was built without a TCA client
          NoCA, NoNonce

\* The checks of a request, in the order in which both handlers make them.
\* "validation" is validate_csr_request except for the data binding, which
\* this module models; "signing" is a failure of generate_certificate.
Flaw == {"evidence", "endorsements", "operator_info", "operator", "selector",
         "validation", "signing"}

ASSUME CallsAssumption ==
    /\ Unary \cap Streams = {}
    /\ Unary \cap Rotations = {}
    /\ Streams \cap Rotations = {}
ASSUME NoValueAssumption == NoCA \notin Rotations /\ NoNonce \notin Nonces
ASSUME FlawsAssumption == Flaws \subseteq Flaw /\ SelfSigned \in BOOLEAN

Calls == Unary \cup Streams \cup Rotations

\* Evidence of a running workload: the key its user data binds, framed with
\* the nonce of a session, or bare (NoNonce).
Evidence == [key: Keys, nonce: Nonces \cup {NoNonce}]

\* A request: the CSR's key, the evidence, and the first check it fails.
Request == [csr: Keys, evidence: Evidence, flaw: Flaws \cup {"none"}]

Certificate == [via: Unary \cup Streams, issuer: Rotations, chain: Rotations, subject: Evidence]

VARIABLES
    ca,         \* the slot: certificate_authority
    waiters,    \* calls queued for the lock, first come first served
    readers,    \* calls that hold a read guard
    pc,         \* where each call is
    status,     \* gRPC code of the call's answer, or "none"
    authority,  \* the authority each certification call refers to, or NoCA
    nonce,      \* the nonce of each session, or NoNonce
    out,        \* what the session's task is sending, <<>> or one item
    chan,       \* the session's response channel
    received,   \* what the session's client has received
    gone,       \* sessions whose client went away
    attested,   \* evidence that workloads have produced
    issued      \* leaf certificates signed, with the chain attached to them

lockVars == <<waiters, readers>>
sessionVars == <<nonce, out, chan, received, gone>>
vars == <<ca, waiters, readers, pc, status, authority, nonce, out, chan, received,
          gone, attested, issued>>

Init ==
    /\ ca = NoCA
    /\ waiters = <<>>
    /\ readers = {}
    /\ pc = [c \in Calls |-> "idle"]
    /\ status = [c \in Calls |-> "none"]
    /\ authority = [c \in Unary \cup Streams |-> NoCA]
    /\ nonce = [s \in Streams |-> NoNonce]
    /\ out = [s \in Streams |-> <<>>]
    /\ chan = [s \in Streams |-> <<>>]
    /\ received = [s \in Streams |-> <<>>]
    /\ gone = {}
    /\ attested = [key: Keys, nonce: {NoNonce}]
    /\ issued = {}

-----------------------------------------------------------------------------
(* The lock and the request checks.                                        *)

Goto(c, label) == pc' = [pc EXCEPT ![c] = label]

Finish(c, label, code) ==
    /\ Goto(c, label)
    /\ status' = [status EXCEPT ![c] = code]

\* read().await or write().await: the call joins the queue of the lock.
Enqueue(c) ==
    /\ Goto(c, "waiting")
    /\ waiters' = Append(waiters, c)

\* A call whose future is dropped at its await leaves the queue.
Abandon(c) ==
    \E i \in DOMAIN waiters :
        /\ waiters[i] = c
        /\ waiters' = SubSeq(waiters, 1, i - 1) \o SubSeq(waiters, i + 1, Len(waiters))

\* Mutant: the lock is granted in any order.
GrantedInAnyOrder(c) == pc[c] = "waiting" /\ Abandon(c)

\* tokio's RwLock serves its waiters in arrival order.
Granted(c) ==
    /\ pc[c] = "waiting"
    /\ waiters # <<>> /\ Head(waiters) = c
    /\ waiters' = Tail(waiters)

\* Mutant: the guard is dropped as soon as the slot is read.
TakeNoGuard(c) == UNCHANGED readers

TakeGuard(c) == readers' = readers \cup {c}

\* Mutant: the nonce of the evidence is not compared.
BoundIgnoringNonce(req, n) == req.evidence.key = req.csr

\* verify_data_binding: the first user data must bind the CSR's key, framed
\* with the session's nonce when there is one and bare otherwise.
Bound(req, n) == req.evidence.nonce = n /\ req.evidence.key = req.csr

\* Codes of the two handlers for the first failed check.
UnaryCode(flaw) ==
    IF flaw = "signing" THEN "Internal"
    ELSE IF flaw \in {"operator_info", "operator", "selector"} THEN "InvalidArgument"
    ELSE "FailedPrecondition"

StreamCode(flaw) ==
    IF flaw \in {"evidence", "endorsements"} THEN "InvalidArgument" ELSE UnaryCode(flaw)

\* The first check that fails for a session nonce n, or "none".
Verdict(req, n) ==
    IF req.flaw \in {"none", "signing"} /\ ~Bound(req, n) THEN "validation" ELSE req.flaw

Requests == [csr: Keys, evidence: attested, flaw: Flaws \cup {"none"}]

\* Mutant: the chain is read from the slot when the answer is built.
LeafWithChainOfSlot(c, req) ==
    [via |-> c, issuer |-> authority[c], chain |-> ca, subject |-> req.evidence]

Leaf(c, req) == [via |-> c, issuer |-> authority[c], chain |-> authority[c], subject |-> req.evidence]

-----------------------------------------------------------------------------
(* CertifyAttestation.                                                     *)

UnaryCall(u) ==
    /\ pc[u] \in {"idle", "replied"}
    /\ Enqueue(u)
    /\ status' = [status EXCEPT ![u] = "none"]
    /\ UNCHANGED <<ca, readers, authority, sessionVars, attested, issued>>

\* read().await returns; the guard is held until the answer is built.
UnaryBegin(u) ==
    /\ Granted(u)
    /\ IF ca = NoCA
         THEN /\ Finish(u, "replied", "FailedPrecondition")
              /\ UNCHANGED <<readers, authority>>
         ELSE /\ Goto(u, "certify")
              /\ TakeGuard(u)
              /\ authority' = [authority EXCEPT ![u] = ca]
              /\ UNCHANGED status
    /\ UNCHANGED <<ca, sessionVars, attested, issued>>

UnaryReply(u) ==
    /\ pc[u] = "certify"
    /\ \E req \in Requests :
         LET verdict == Verdict(req, NoNonce) IN
         IF verdict = "none"
           THEN /\ Finish(u, "replied", "Ok")
                /\ issued' = issued \cup {Leaf(u, req)}
           ELSE /\ Finish(u, "replied", UnaryCode(verdict))
                /\ UNCHANGED issued
    /\ readers' = readers \ {u}
    /\ authority' = [authority EXCEPT ![u] = NoCA]
    /\ UNCHANGED <<ca, waiters, sessionVars, attested>>

\* The client goes away while the handler awaits the lock.
UnaryCancel(u) ==
    /\ pc[u] = "waiting"
    /\ Goto(u, "idle")
    /\ Abandon(u)
    /\ UNCHANGED <<ca, readers, status, authority, sessionVars, attested, issued>>

-----------------------------------------------------------------------------
(* CertifyAttestationStream: the handler, then the task it spawns.         *)

StreamCall(s) ==
    /\ pc[s] = "idle"
    /\ Enqueue(s)
    /\ UNCHANGED <<ca, readers, status, authority, sessionVars, attested, issued>>

StreamCancel(s) ==
    /\ pc[s] = "waiting"
    /\ Goto(s, "done")
    /\ Abandon(s)
    /\ UNCHANGED <<ca, readers, status, authority, sessionVars, attested, issued>>

\* read().await returns; the handler clones the Arc, spawns the task and
\* returns, which drops the guard, with no await in between.
StreamOpen(s) ==
    /\ Granted(s)
    /\ IF ca = NoCA
         THEN Finish(s, "done", "FailedPrecondition") /\ UNCHANGED authority
         ELSE /\ Finish(s, "await_challenge", "Ok")
              /\ authority' = [authority EXCEPT ![s] = ca]
    /\ UNCHANGED <<ca, readers, sessionVars, attested, issued>>

\* The task hands item to tx.send and awaits.
Send(s, label, item) ==
    /\ Goto(s, label)
    /\ out' = [out EXCEPT ![s] = <<item>>]

Error(code) == [type |-> "error", code |-> code]
Challenge(n) == [type |-> "challenge", nonce |-> n]

\* Mutant: no return after the error is sent.
FailWithoutReturn(s, code) == Send(s, "send_challenge", Error(code))

\* The task sends an error and returns.
Fail(s, code) == Send(s, "send_last", Error(code))

\* Mutants: a nonce drawn before, and a buffer that is never filled.
UsedNonces == Nonces
UnfilledNonces == {NoNonce}

\* RAND_bytes: 32 random bytes never repeat.
FreshNonces == Nonces \ {nonce[t] : t \in Streams}

\* The stream yields the challenge request: draw a nonce and send it.
AwaitChallenge(s) ==
    /\ pc[s] = "await_challenge"
    /\ \E n \in FreshNonces :
         /\ nonce' = [nonce EXCEPT ![s] = n]
         /\ Send(s, "send_challenge", Challenge(n))
    /\ UNCHANGED <<ca, lockVars, status, authority, chan, received, gone, attested, issued>>

\* The stream yields the certify request: check it, and sign it.
AwaitCertify(s) ==
    /\ pc[s] = "await_certify"
    /\ \E req \in Requests :
         LET verdict == Verdict(req, nonce[s])
             leaf == Leaf(s, req) IN
         IF verdict = "none"
           THEN /\ Send(s, "send_last", [type |-> "certificate", leaf |-> leaf])
                /\ issued' = issued \cup {leaf}
           ELSE /\ Fail(s, StreamCode(verdict))
                /\ UNCHANGED issued
    /\ UNCHANGED <<ca, lockVars, status, authority, nonce, chan, received, gone, attested>>

\* The stream yields a message of the wrong kind, ends, or fails.
AwaitFails(s) ==
    /\ pc[s] \in {"await_challenge", "await_certify"}
    /\ \E code \in {"InvalidArgument", "Internal"} : Fail(s, code)
    /\ UNCHANGED <<ca, lockVars, status, authority, nonce, chan, received, gone, attested, issued>>

\* Mutant: the Arc outlives the task.
EndTaskLeakingArc(s) == Goto(s, "done") /\ UNCHANGED authority

\* The task returns and drops its Arc.
EndTask(s) ==
    /\ Goto(s, "done")
    /\ authority' = [authority EXCEPT ![s] = NoCA]

\* tx.send succeeds once the channel, of capacity 1, has room.
SendOk(s) ==
    /\ pc[s] \in {"send_challenge", "send_last"}
    /\ s \notin gone /\ chan[s] = <<>>
    /\ chan' = [chan EXCEPT ![s] = out[s]]
    /\ out' = [out EXCEPT ![s] = <<>>]
    /\ IF pc[s] = "send_challenge"
         THEN Goto(s, "await_certify") /\ UNCHANGED authority
         ELSE EndTask(s)
    /\ UNCHANGED <<ca, lockVars, status, nonce, received, gone, attested, issued>>

\* tx.send fails because the receiver was dropped: the task returns.
SendFails(s) ==
    /\ pc[s] \in {"send_challenge", "send_last"}
    /\ s \in gone
    /\ out' = [out EXCEPT ![s] = <<>>]
    /\ EndTask(s)
    /\ UNCHANGED <<ca, lockVars, status, nonce, chan, received, gone, attested, issued>>

-----------------------------------------------------------------------------
(* GenerateAvsSigningKey.                                                  *)

\* Mutant: the write lock is requested before the TCA is asked.
AskTcaLocked(r) == Goto(r, "await_tca") /\ waiters' = Append(waiters, r)

\* new_intermediate awaits the TCA, holding no lock.
AskTca(r) == Goto(r, "await_tca") /\ UNCHANGED waiters

\* Generate the key pair.  With a TCA client the certificate is awaited from
\* the TCA; without one the authority is self-signed at once.
RotateCall(r) ==
    /\ pc[r] = "idle"
    /\ \/ /\ Finish(r, "done", "Internal")
          /\ UNCHANGED waiters
       \/ /\ ~SelfSigned
          /\ AskTca(r)
          /\ UNCHANGED status
       \/ /\ SelfSigned
          /\ Enqueue(r)
          /\ UNCHANGED status
    /\ UNCHANGED <<ca, readers, authority, sessionVars, attested, issued>>

\* The TCA's certificate arrives and is usable: queue for the write lock.
TcaCertified(r) ==
    /\ pc[r] = "await_tca"
    /\ Enqueue(r)
    /\ UNCHANGED <<ca, readers, status, authority, sessionVars, attested, issued>>

\* map_tca_error: a network error is Unavailable; any other error of the TCA
\* client, an empty chain or a chain without a trust domain is Internal.
TcaFailed(r) ==
    /\ pc[r] = "await_tca"
    /\ \E code \in {"Unavailable", "Internal"} : Finish(r, "done", code)
    /\ UNCHANGED <<ca, lockVars, authority, sessionVars, attested, issued>>

\* write().await returns, the slot is assigned and the answer returned.
Install(r) ==
    /\ Granted(r) /\ readers = {}
    /\ ca' = r
    /\ Finish(r, "done", "Ok")
    /\ UNCHANGED <<readers, authority, sessionVars, attested, issued>>

\* The caller goes away at an await: the new authority is dropped.
RotateCancel(r) ==
    /\ \/ pc[r] = "await_tca" /\ UNCHANGED waiters
       \/ pc[r] = "waiting" /\ Abandon(r)
    /\ Finish(r, "done", "Cancelled")
    /\ UNCHANGED <<ca, readers, authority, sessionVars, attested, issued>>

-----------------------------------------------------------------------------
(* The environment: clients and the workloads they speak for.              *)

ClientReceive(s) ==
    /\ s \notin gone /\ chan[s] # <<>>
    /\ received' = [received EXCEPT ![s] = @ \o chan[s]]
    /\ chan' = [chan EXCEPT ![s] = <<>>]
    /\ UNCHANGED <<ca, lockVars, pc, status, authority, nonce, out, gone, attested, issued>>

\* The client resets the stream: the response receiver is dropped.
ClientGone(s) ==
    /\ pc[s] \notin {"idle", "waiting"} /\ s \notin gone
    /\ gone' = gone \cup {s}
    /\ chan' = [chan EXCEPT ![s] = <<>>]
    /\ UNCHANGED <<ca, lockVars, pc, status, authority, nonce, out, received, attested, issued>>

\* A workload produces evidence for a nonce that some client received.
Attest(e) ==
    /\ e \notin attested
    /\ \E s \in Streams : \E i \in DOMAIN received[s] : received[s][i] = Challenge(e.nonce)
    /\ attested' = attested \cup {e}
    /\ UNCHANGED <<ca, lockVars, pc, status, authority, sessionVars, issued>>

-----------------------------------------------------------------------------
UnaryServer(u) == UnaryBegin(u) \/ UnaryReply(u)
StreamServer(s) == StreamOpen(s) \/ SendOk(s) \/ SendFails(s)

Next ==
    \/ \E u \in Unary : UnaryCall(u) \/ UnaryServer(u) \/ UnaryCancel(u)
    \/ \E s \in Streams : \/ StreamCall(s) \/ StreamServer(s) \/ StreamCancel(s)
                          \/ AwaitChallenge(s) \/ AwaitCertify(s) \/ AwaitFails(s)
                          \/ ClientReceive(s) \/ ClientGone(s)
    \/ \E r \in Rotations : \/ RotateCall(r) \/ TcaCertified(r) \/ TcaFailed(r)
                            \/ Install(r) \/ RotateCancel(r)
    \/ \E e \in Evidence : Attest(e)

\* The runtime polls every task that can make progress.  Nothing is assumed
\* of the TCA or of a client, except that a stream whose client went away
\* yields an error or its end.
Fairness ==
    /\ \A u \in Unary : WF_vars(UnaryServer(u))
    /\ \A s \in Streams : WF_vars(StreamServer(s)) /\ WF_vars(s \in gone /\ AwaitFails(s))
    /\ \A r \in Rotations : WF_vars(Install(r))

Spec == Init /\ [][Next]_vars
FairSpec == Spec /\ Fairness

-----------------------------------------------------------------------------
(* Properties.                                                             *)

Code == {"Ok", "FailedPrecondition", "InvalidArgument", "Internal", "Unavailable", "Cancelled"}

Item == [type: {"challenge"}, nonce: Nonces] \cup [type: {"error"}, code: Code]
            \cup [type: {"certificate"}, leaf: Certificate]

\* Types, and what each kind of call can be doing.
TypeOK ==
    /\ ca \in Rotations \cup {NoCA}
    /\ waiters \in Seq(Calls)
    /\ readers \subseteq Unary
    /\ pc \in [Calls -> {"idle", "waiting", "certify", "replied", "await_challenge", "send_challenge",
                         "await_certify", "send_last", "await_tca", "done"}]
    /\ status \in [Calls -> Code \cup {"none"}]
    /\ authority \in [Unary \cup Streams -> Rotations \cup {NoCA}]
    /\ nonce \in [Streams -> Nonces \cup {NoNonce}]
    /\ out \in [Streams -> Seq(Item)]
    /\ chan \in [Streams -> Seq(Item)]
    /\ received \in [Streams -> Seq(Item)]
    /\ gone \subseteq Streams
    /\ attested \subseteq Evidence
    /\ issued \subseteq Certificate

\* The authorities whose rotation was answered Ok.
Installed == {r \in Rotations : status[r] = "Ok"}

\* Whatever rotations run beside it, a certification answers with a leaf
\* followed by the chain of the very authority that signed it, and that
\* authority's rotation was answered Ok: the key of a failed or cancelled
\* GenerateAvsSigningKey signs nothing.
LeafChainsToItsIssuer ==
    \A cert \in issued : cert.chain = cert.issuer /\ cert.issuer \in Installed

\* CertifyAttestation holds its read guard until the answer is built, so a
\* unary answer is always signed by the authority in the slot at that moment.
UnaryUsesActiveKey ==
    [][\A cert \in issued' \ issued : cert.via \in Unary => cert.issuer = ca]_vars

\* CertifyAttestationStream certifies a key only on evidence for its own
\* nonce: the session's client had received that challenge, whatever other
\* sessions, earlier evidence or pipelined requests there are.
CertifiedAfterChallenge ==
    \A cert \in issued : cert.via \in Streams =>
        \E i \in DOMAIN received[cert.via] : received[cert.via][i] = Challenge(cert.subject.nonce)

\* No piece of evidence is certified in two sessions, nor both in a session
\* and by a unary call.
EvidenceNotReplayed ==
    \A c1, c2 \in issued :
        c1.via \in Streams /\ c1.subject = c2.subject => c1.via = c2.via

\* What a session puts on its channel is the challenge, then one certificate
\* or error, or just an error; the channel never holds two items, and
\* nothing follows a final item.
SessionTranscript ==
    \A s \in Streams :
        LET sent == received[s] \o chan[s] IN
        /\ Len(sent) <= 2 /\ Len(chan[s]) <= 1
        /\ \A i \in DOMAIN sent :
              /\ sent[i].type = "challenge" => i = 1 /\ sent[i].nonce = nonce[s]
              /\ sent[i].type = "certificate" => i = 2 /\ sent[i].leaf.via = s
              /\ sent[i].type = "error" => i = Len(sent)

\* A certification call is answered even if a TCA never answers a rotation
\* that is under way: no lock is held while the TCA is awaited.
CertifyAnswered ==
    \A u \in Unary : pc[u] = "waiting" ~> pc[u] \in {"replied", "idle"}

\* A rotation that has its certificate is installed (or cancelled) however
\* many certification calls keep coming: the lock is first come first served.
InstallNotStarved ==
    \A r \in Rotations : pc[r] = "waiting" ~> pc[r] = "done"

\* When the client of a session goes away the task ends and drops its
\* reference to the authority, which may be a retired one.
AbandonedSessionReleased ==
    \A s \in Streams : s \in gone ~> authority[s] = NoCA

\* "Upon success, the newly generated signing key pair is immediately used
\* henceforth": every certificate is signed by the authority in the slot.
\* (The code does not keep this for sessions opened before a rotation.)
NewKeyUsedHenceforth ==
    [][\A cert \in issued' \ issued : cert.issuer = ca]_vars

\* The service implements the abstract certificate authority: each unary
\* call takes effect in one step although its handler does not run in one.
Issuance == INSTANCE CertificateIssuance WITH
    Authorities <- Rotations,
    Subjects <- Evidence,
    active <- ca,
    installed <- Installed,
    bound <- [s \in Streams |-> authority[s]]

IssuanceSpec == Issuance!Spec
=============================================================================
