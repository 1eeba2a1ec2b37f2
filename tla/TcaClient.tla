----------------------------- MODULE TcaClient -----------------------------
(***************************************************************************)
(* Key rotation step by step: generate_avs_signing_key of                  *)
(* avs_server/src/server.rs through the TCA client of                      *)
(* third_party/tca-sdk/rust.  The client has the CSR's key signed by the   *)
(* orchestrator, takes the attester's mutex to fetch evidence, and calls   *)
(* the TCA over a connection of its own, without a timeout or a retry.     *)
(* AvsServer has all of this as the single label "await_tca".              *)
(***************************************************************************)
EXTENDS Naturals, Sequences

CONSTANTS Rotations,  \* GenerateAvsSigningKey calls, and the keys they create
          NoCA

ASSUME NoRotationAssumption == NoCA \notin Rotations

VARIABLES
    ca,        \* the slot: certificate_authority
    waiters,   \* calls queued for the write lock of the slot
    pc,        \* where each call is
    status,    \* gRPC code of its answer, or "none"
    attester,  \* the call that holds the guard of the orchestrator client, or NoCA
    queue      \* calls queued for that guard

tcaVars == <<ca, waiters, pc, status, attester, queue>>

TcaInit ==
    /\ ca = NoCA
    /\ waiters = <<>>
    /\ pc = [r \in Rotations |-> "idle"]
    /\ status = [r \in Rotations |-> "none"]
    /\ attester = NoCA
    /\ queue = <<>>

Goto(r, label) == pc' = [pc EXCEPT ![r] = label]

Finish(r, code) ==
    /\ Goto(r, "done")
    /\ status' = [status EXCEPT ![r] = code]

\* after is the queue before without the call whose future is dropped.
Leaves(r, before, after) ==
    \E i \in DOMAIN before :
        /\ before[i] = r
        /\ after = SubSeq(before, 1, i - 1) \o SubSeq(before, i + 1, Len(before))

\* map_tca_error, and the error of new_root.
Code(error) == IF error = "Network" THEN "Unavailable" ELSE "Internal"

-----------------------------------------------------------------------------
\* The key pair and the CSR are made and the CSR is parsed again for its key,
\* any of which may fail; without a TCA client the authority signs itself.
RotateCall(r, tca_client) ==
    /\ pc[r] = "idle"
    /\ \/ /\ \E error \in {"Creation", "Protocol"} : Finish(r, Code(error))
          /\ UNCHANGED waiters
       \/ /\ tca_client
          /\ Goto(r, "sign")
          /\ UNCHANGED <<waiters, status>>
       \/ /\ ~tca_client
          /\ Goto(r, "waiting")
          /\ waiters' = Append(waiters, r)
          /\ UNCHANGED status
    /\ UNCHANGED <<ca, attester, queue>>

\* get_evidence: the signer answers, then the mutex is requested.
Sign(r) ==
    /\ pc[r] = "sign"
    /\ \/ /\ Goto(r, "lock")
          /\ queue' = Append(queue, r)
          /\ UNCHANGED status
       \/ Finish(r, Code("Platform")) /\ UNCHANGED queue
    /\ UNCHANGED <<ca, waiters, attester>>

\* tokio's Mutex serves its waiters in arrival order.
TakeAttester(r) ==
    /\ pc[r] = "lock"
    /\ attester = NoCA
    /\ queue # <<>> /\ Head(queue) = r
    /\ queue' = Tail(queue)
    /\ attester' = r
    /\ Goto(r, "evidence")
    /\ UNCHANGED <<ca, waiters, status>>

\* Mutant: the guard lives until the call returns.
DropGuardAtReturn(r) == attester' = IF pc'[r] = "done" THEN NoCA ELSE attester

\* The guard's scope ends with the block that fetches the evidence.
DropGuard(r) == attester' = NoCA

\* get_endorsed_evidence returns; what convert_to_proto finds missing is
\* reported after the guard was dropped, with nothing in between.
FetchEvidence(r) ==
    /\ pc[r] = "evidence"
    /\ \/ Goto(r, "connect") /\ UNCHANGED status
       \/ Finish(r, Code("Platform"))
    /\ DropGuard(r)
    /\ UNCHANGED <<ca, waiters, queue>>

Connect(r) ==
    /\ pc[r] = "connect"
    /\ Goto(r, "rpc")
    /\ UNCHANGED <<ca, waiters, status, attester, queue>>

\* The TCA's answer arrives.  new_intermediate refuses an empty chain and one
\* without a trust domain or a subject; else the write lock is requested.
Answer(r) ==
    /\ pc[r] = "rpc"
    /\ \/ /\ Goto(r, "waiting")
          /\ waiters' = Append(waiters, r)
          /\ UNCHANGED status
       \/ Finish(r, Code("Creation")) /\ UNCHANGED waiters
    /\ UNCHANGED <<ca, attester, queue>>

\* The connection fails, the TCA answers with an error, or the answer is lost
\* although the TCA has issued a certificate.
NetworkFails(r) ==
    /\ pc[r] \in {"connect", "rpc"}
    /\ Finish(r, Code("Network"))
    /\ UNCHANGED <<ca, waiters, attester, queue>>

\* Mutant: the slot is assigned without waiting for the calls before.
InstallOutOfTurn(r) ==
    /\ pc[r] = "waiting"
    /\ Leaves(r, waiters, waiters')
    /\ ca' = r
    /\ Finish(r, "Ok")
    /\ UNCHANGED <<attester, queue>>

Install(r) ==
    /\ pc[r] = "waiting"
    /\ waiters # <<>> /\ Head(waiters) = r
    /\ waiters' = Tail(waiters)
    /\ ca' = r
    /\ Finish(r, "Ok")
    /\ UNCHANGED <<attester, queue>>

\* Mutant: a dropped call keeps its place in the queue of the mutex.
CancelQueued(r) ==
    /\ \/ pc[r] \in {"sign", "lock", "connect", "rpc"} /\ UNCHANGED <<waiters, attester, queue>>
       \/ pc[r] = "evidence" /\ attester' = NoCA /\ UNCHANGED <<waiters, queue>>
       \/ pc[r] = "waiting" /\ Leaves(r, waiters, waiters') /\ UNCHANGED <<attester, queue>>
    /\ Finish(r, "Cancelled")
    /\ UNCHANGED ca

\* The caller goes away at any await: the future is dropped, and with it its
\* place in a queue, its guard and its key.
Cancel(r) ==
    /\ \/ pc[r] \in {"sign", "connect", "rpc"} /\ UNCHANGED <<waiters, attester, queue>>
       \/ pc[r] = "lock" /\ Leaves(r, queue, queue') /\ UNCHANGED <<waiters, attester>>
       \/ pc[r] = "evidence" /\ attester' = NoCA /\ UNCHANGED <<waiters, queue>>
       \/ pc[r] = "waiting" /\ Leaves(r, waiters, waiters') /\ UNCHANGED <<attester, queue>>
    /\ Finish(r, "Cancelled")
    /\ UNCHANGED ca

TcaNext(tca_client) ==
    \E r \in Rotations :
        \/ RotateCall(r, tca_client) \/ Sign(r) \/ TakeAttester(r) \/ FetchEvidence(r)
        \/ Connect(r) \/ Answer(r) \/ NetworkFails(r) \/ Install(r) \/ Cancel(r)
=============================================================================
