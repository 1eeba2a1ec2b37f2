------------------------------ MODULE Enclave ------------------------------
(***************************************************************************)
(* The process in the enclave: main starts it (Startup), and once it       *)
(* serves, calls rotate its key through the TCA client (TcaClient).        *)
(***************************************************************************)
EXTENDS Startup, TcaClient

vars == <<mainVars, tcaVars>>

Init == MainInit /\ TcaInit

\* A call reaches the service only when its port is bound.
Serve ==
    /\ phase = "serving"
    /\ TcaNext(service[1].tca_client # <<>>)
    /\ UNCHANGED mainVars

Next ==
    \/ MainNext /\ UNCHANGED tcaVars
    \/ Serve

\* The runtime polls main and every call that can make progress, and the
\* orchestrator, which runs beside the process, answers or fails.  Nothing is
\* assumed of the TCA: a connection or a request may hang for ever.
Fairness ==
    /\ WF_vars(MainNext /\ UNCHANGED tcaVars)
    /\ \A r \in Rotations :
         /\ WF_vars((Sign(r) \/ TakeAttester(r) \/ FetchEvidence(r)) /\ UNCHANGED mainVars)
         /\ WF_vars(Install(r) /\ UNCHANGED mainVars)

Spec == Init /\ [][Next]_vars
FairSpec == Spec /\ Fairness

-----------------------------------------------------------------------------
(* Properties.                                                             *)

\* The queue q holds the calls at this label, each once.
Queued(q, label) ==
    /\ q \in Seq(Rotations)
    /\ \A r \in Rotations : pc[r] = label <=> \E i \in DOMAIN q : q[i] = r
    /\ \A i, j \in DOMAIN q : q[i] = q[j] => i = j

\* Types, and that a call stands in the queue it waits in, once, and in no
\* other: a call that was dropped while it waited blocks nobody.
TypeOK ==
    /\ phase \in {"channel", "configure", "client", "announce", "bind", "serving", "exited"}
    /\ ready \in BOOLEAN
    /\ ca \in Rotations \cup {NoCA}
    /\ attester \in Rotations \cup {NoCA}
    /\ pc \in [Rotations -> {"idle", "sign", "lock", "evidence", "connect", "rpc", "waiting", "done"}]
    /\ status \in [Rotations -> {"none", "Ok", "Internal", "Unavailable", "Cancelled"}]
    /\ Queued(queue, "lock")
    /\ Queued(waiters, "waiting")

\* The orchestrator client is used by one call at a time, and its guard is
\* held exactly as long as that call fetches evidence: never across a request
\* to the TCA, and never by a call that has returned or was dropped.
AttesterGuarded == \A r \in Rotations : attester = r <=> pc[r] = "evidence"

\* Once the orchestrator has heard that the service is ready, the service was
\* built from a configuration that could be read, and as it says: with a TCA
\* client unless it asks for self-signed certificates, with the development
\* policy unless it refuses it, with C2SP logs only if it asks for them.
ReadyAsConfigured ==
    ready =>
      LET says(field, value) == field \in DOMAIN file.set /\ file.set[field] = value IN
      /\ file.kind # "broken"
      /\ service # <<>>
      /\ (service[1].tca_client = <<>>) = says("use_self_signed_cert", TRUE)
      /\ service[1].include_development_policy = ~says("include_development_policy", FALSE)
      /\ service[1].enable_c2sp_tlog = says("enable_c2sp_tlog", TRUE)

\* main ends, or announces readiness and serves: neither waits for the other
\* for ever.
StartupCompletes == <>(phase = "exited" \/ (ready /\ phase = "serving"))

\* A rotation that waits for the attester gets it, although the TCA may never
\* answer the calls before it, and although any caller may go away.
AttesterNotStarved == \A r \in Rotations : pc[r] = "lock" ~> pc[r] # "lock"

\* The service of AvsServer, without certification calls, that the steps of
\* the client implement.
Server(self_signed) == INSTANCE AvsServer WITH
    Unary <- {}, Streams <- {}, Keys <- {}, Nonces <- {}, Flaws <- {}, NoNonce <- NoCA,
    SelfSigned <- self_signed,
    pc <- [r \in Rotations |-> IF pc[r] \in {"sign", "lock", "evidence", "connect", "rpc"}
                               THEN "await_tca" ELSE pc[r]],
    readers <- {}, authority <- <<>>, nonce <- <<>>, out <- <<>>, chan <- <<>>,
    received <- <<>>, gone <- {}, attested <- {}, issued <- {}

\* Seen from the service, the steps of the client are one await that ends
\* with a usable certificate, with Unavailable or Internal, or with the call.
ImplementsServer ==
    /\ Server(FALSE)!Init
    /\ [][/\ phase = "serving"
          /\ IF service[1].tca_client # <<>> THEN Server(FALSE)!Next ELSE Server(TRUE)!Next
         ]_(Server(FALSE)!vars)
=============================================================================
