--------------------------- MODULE CsrValidation ---------------------------
(***************************************************************************)
(* validate_csr_request of avs_server/src/csr.rs: the checks of a request, *)
(* in order, and the validity window of the certificate it leads to, while *)
(* the system clock runs.  Validations share nothing but the clock, so one *)
(* request is followed from its arrival to its answer.                     *)
(*                                                                         *)
(* What the Oak verifiers say of evidence is part of the request: the      *)
(* status, and one result per event, with the user data it carries and the *)
(* validity of its endorsement.                                            *)
(***************************************************************************)
EXTENDS Integers, Sequences

CONSTANTS Requests,   \* a set of requests
          Payloads,   \* user data: the key and the nonce it binds
          Operators,
          Fallback,   \* FALLBACK_VALIDITY
          MaxTime,    \* bound on the clock
          Horizon,    \* the times at which validity is examined
          NoTime, NoPayload, EmptyPayload

Payload == Payloads \cup {NoPayload, EmptyPayload}
Time == Int \cup {NoTime}

\* An event attestation result: get_user_data_payload and get_validity.
Result == [payload: Payload, not_before: Time, not_after: Time]

Values == {"cbt", "cbt_incomplete", "oak_containers", "other", "none"}
Platforms == {"amd_sev_snp", "intel_tdx", "insecure", "unsupported", "none"}

\* csr_valid: the CSR parses and is well signed;
\* binds: the only user data that binds the CSR's key and the expected nonce;
\* rules, values: those of the policy, if policy_name names one (known);
\* platform, success, results: the evidence, and the verifier's answer to it;
\* user_data: what the signed user data certificate verifies to.
Request == [csr_valid: BOOLEAN, binds: Payloads, known: BOOLEAN,
            operator: Operators, rules: SUBSET Operators, values: Values,
            platform: Platforms, success: BOOLEAN, results: Seq(Result),
            user_data: Payload]

ASSUME TimeAssumption ==
    /\ Fallback \in Nat \ {0}
    /\ MaxTime \in Nat
    /\ Horizon \subseteq Int
    /\ NoTime \notin Int
ASSUME RequestsAssumption == Requests \subseteq Request
ASSUME PayloadsAssumption == NoPayload \notin Payloads /\ EmptyPayload \notin Payloads

VARIABLES
    clock,       \* seconds since the epoch
    pc,          \* the next check; "accepted" or "rejected_..." at the end
    req,         \* the request
    results,     \* attestation_results.event_attestation_results
    now,         \* current_time_sec
    next,        \* the next result of the validity loop
    not_before,  \* not_before_sec
    not_after    \* not_after_sec

window == <<now, next, not_before, not_after>>
vars == <<clock, pc, req, results, now, next, not_before, not_after>>

Init ==
    /\ clock = 0
    /\ pc = "csr"
    /\ req \in Requests
    /\ results = <<>>
    /\ now = 0 /\ next = 1
    /\ not_before = 0 /\ not_after = 0

Check(at, passed, then, else) ==
    /\ pc = at
    /\ pc' = IF passed THEN then ELSE else

VerifyCsr ==
    /\ Check("csr", req.csr_valid, "policy", "rejected_csr")
    /\ UNCHANGED <<clock, req, results, window>>

\* The policy lookup, and the operator rules of the policy.
Authorized(r) == r.known /\ r.operator \in r.rules

AuthorizeOperator ==
    /\ Check("policy", Authorized(req), "verifier", "rejected_operator")
    /\ UNCHANGED <<clock, req, results, window>>

\* create_verifier: a CBT policy needs all of its layers, an Oak Containers
\* policy a platform that is supported.
HasVerifier(r) ==
    \/ r.values = "cbt"
    \/ r.values = "oak_containers" /\ r.platform \in {"amd_sev_snp", "intel_tdx", "insecure"}

CreateVerifier ==
    /\ Check("verifier", HasVerifier(req), "verify", "rejected_verifier")
    /\ UNCHANGED <<clock, req, results, window>>

\* Mutant: the signed user data is put before the verifier's own results.
UserDataFirst(r) ==
    IF r.values = "oak_containers"
      THEN <<[payload |-> r.user_data, not_before |-> NoTime, not_after |-> NoTime]>> \o r.results
      ELSE r.results

\* verify_oak_containers_user_data appends the signed user data's result.
VerifiedResults(r) ==
    IF r.values = "oak_containers"
      THEN Append(r.results, [payload |-> r.user_data, not_before |-> NoTime, not_after |-> NoTime])
      ELSE r.results

\* The verifier's answer; for Oak Containers a missing or badly signed user
\* data certificate is an error.
Verified(r) ==
    /\ r.success
    /\ r.values = "oak_containers" => r.user_data # NoPayload

Verify ==
    /\ Check("verify", Verified(req), "binding", "rejected_evidence")
    /\ results' = VerifiedResults(req)
    /\ UNCHANGED <<clock, req, window>>

\* The first result that carries user data decides.
FirstPayload(rs) ==
    LET carriers == {i \in DOMAIN rs : rs[i].payload # NoPayload} IN
    IF carriers = {} THEN EmptyPayload
    ELSE rs[CHOOSE i \in carriers : \A j \in carriers : i <= j].payload

VerifyDataBinding ==
    /\ Check("binding", FirstPayload(results) = req.binds, "clock", "rejected_binding")
    /\ UNCHANGED <<clock, req, results, window>>

\* SystemTime::now(), and the window to start from.
ReadClock ==
    /\ pc = "clock"
    /\ pc' = "validity"
    /\ now' = clock
    /\ next' = 1
    /\ not_before' = clock
    /\ not_after' = clock + Fallback
    /\ UNCHANGED <<clock, req, results>>

Later(a, b) == IF b # NoTime /\ b > a THEN b ELSE a

\* Mutant: a missing end overwrites the window's.
EarlierUnchecked(a, b) == b

Earlier(a, b) == IF b # NoTime /\ b < a THEN b ELSE a

\* Mutant: the loop stops one result early.
MoreButLast == next < Len(results)

More == next <= Len(results)

\* One iteration of the loop of extract_validity_with_fallback.
Intersect ==
    /\ pc = "validity" /\ More
    /\ not_before' = Later(not_before, results[next].not_before)
    /\ not_after' = Earlier(not_after, results[next].not_after)
    /\ next' = next + 1
    /\ UNCHANGED <<clock, pc, req, results, now>>

\* Mutant: the window is taken to be live without being compared to the end.
LiveIfStarted == not_before <= now

\* Mutant: a window that opens later is refused.
LiveNow == not_after > not_before /\ not_before <= now

Live == not_after > not_before /\ not_after > now

Decide ==
    /\ ~More
    /\ Check("validity", Live, "accepted", "rejected_window")
    /\ UNCHANGED <<clock, req, results, window>>

\* Time passes between any two steps.
Tick ==
    /\ clock < MaxTime
    /\ clock' = clock + 1
    /\ UNCHANGED <<pc, req, results, window>>

Validate ==
    \/ VerifyCsr \/ AuthorizeOperator \/ CreateVerifier \/ Verify
    \/ VerifyDataBinding \/ ReadClock \/ Intersect \/ Decide

Next == Validate \/ Tick

Spec == Init /\ [][Next]_vars

-----------------------------------------------------------------------------
(* Properties.                                                             *)

\* Types: the window that extract_validity_with_fallback computes is always
\* made of times.
TypeOK ==
    /\ clock \in Nat
    /\ req \in Request
    /\ results \in Seq(Result)
    /\ now \in Nat /\ next \in Nat \ {0}
    /\ not_before \in Int /\ not_after \in Int

\* Whether every endorsement of the results, and the fallback limit, allow
\* a certificate to be valid at time t.
Allowed(t) ==
    /\ now <= t /\ t < now + Fallback
    /\ \A i \in DOMAIN results :
         /\ results[i].not_before # NoTime => results[i].not_before <= t
         /\ results[i].not_after # NoTime => t < results[i].not_after

\* The window of an accepted request is exactly the set of times at which all
\* endorsements are valid, from now and for the fallback validity at most,
\* however many results there are and whichever bounds they omit.
WindowIsIntersection ==
    pc = "accepted" =>
        \A t \in Horizon : not_before <= t /\ t < not_after <=> Allowed(t)

\* A request is refused for its window only if no time is left to it.
RefusedOnlyIfEmpty ==
    pc = "rejected_window" => \A t \in Horizon : ~Allowed(t)

\* A request is accepted only on user data that binds its key: that of the
\* platform's own results if they carry any, whatever the signed user data of
\* an Oak Containers request says, and the signed one otherwise.
AcceptedIsBound ==
    pc = "accepted" =>
        LET own == {i \in DOMAIN req.results : req.results[i].payload # NoPayload} IN
        IF own # {}
          THEN \E i \in own : req.results[i].payload = req.binds /\ \A j \in own : i <= j
          ELSE req.values = "oak_containers" /\ req.user_data = req.binds

\* A window that closed while the evidence was being verified is refused: an
\* accepted window is not empty, ends after the clock reading that follows the
\* verification, and within the fallback validity of it.
AcceptedWindowLive ==
    pc = "accepted" => now <= not_before /\ not_before < not_after /\ not_after <= now + Fallback

\* "If no endorsement validity windows are present, falls back to
\* `fallback_duration`": where endorsements have an end, the earliest one is
\* the certificate's.  (The code also ends it with the fallback validity.)
FallbackOnlyWithoutWindows ==
    pc = "accepted" /\ (\E i \in DOMAIN results : results[i].not_after # NoTime) =>
        \E i \in DOMAIN results : results[i].not_after = not_after
=============================================================================
