------------------------ MODULE CsrValidationProofs ------------------------
(***************************************************************************)
(* The validity window of an accepted request is the intersection of the   *)
(* endorsement windows, the request is bound to its key, and the leaf lies *)
(* within the validity of its issuer, for any results, times and rotations;*)
(* and user data is framed exactly and binds one key and one challenge.    *)
(***************************************************************************)
EXTENDS CertificateLifetime, DataBinding, WellFoundedInduction, TLAPS

Decided == {"accepted", "rejected_window"}

\* What the first n results, and the fallback limit, allow at time t.
AllowedBy(n, t) ==
    /\ now <= t /\ t < now + Fallback
    /\ \A i \in 1..n :
         /\ results[i].not_before # NoTime => results[i].not_before <= t
         /\ results[i].not_after # NoTime => t < results[i].not_after

\* The loop invariant: the window holds the intersection of the results seen
\* so far, and once decided, of all of them.
LoopInv ==
    /\ next <= Len(results) + 1
    /\ pc \in {"validity"} \cup Decided =>
         /\ now <= not_before
         /\ not_after <= now + Fallback
         /\ \A t \in Int : not_before <= t /\ t < not_after <=> AllowedBy(next - 1, t)
    /\ pc \in Decided => next = Len(results) + 1
    /\ pc = "accepted" => Live
    /\ pc = "rejected_window" => ~Live
    /\ pc \notin {"validity"} \cup Decided => next = 1

Inv == TypeOK /\ LoopInv

\* The verified results of a request form a well-typed list.
LEMMA ResultsTyped ==
    ASSUME NEW r \in Request
    PROVE  VerifiedResults(r) \in Seq(Result)
<1>1. r.results \in Seq(Result) /\ r.user_data \in Payload
  BY DEF Request
<1>2. [payload |-> r.user_data, not_before |-> NoTime, not_after |-> NoTime] \in Result
  BY <1>1 DEF Result, Time
<1>3. QED
  BY <1>1, <1>2 DEF VerifiedResults

\* A validation starts in a state of the inductive invariant.
LEMMA InitInv == Init => Inv
<1> SUFFICES ASSUME Init PROVE Inv
  OBVIOUS
<1> USE TimeAssumption, RequestsAssumption DEF Init
<1>1. TypeOK
  BY DEF TypeOK
<1>2. LoopInv
  BY DEF LoopInv, Decided
<1>3. QED
  BY <1>1, <1>2 DEF Inv

\* One iteration narrows the window by exactly the claim of one result.
LEMMA IterationNarrows ==
    ASSUME Inv, Intersect
    PROVE  Inv'
<1> DEFINE r == results[next]
<1>1. /\ pc = "validity" /\ next <= Len(results)
      /\ not_before' = Later(not_before, r.not_before)
      /\ not_after' = Earlier(not_after, r.not_after)
      /\ next' = next + 1
      /\ UNCHANGED <<clock, pc, req, results, now>>
  BY DEF Intersect, More
<1>2. /\ TypeOK /\ LoopInv
  BY DEF Inv
<1>3. next \in 1..Len(results)
  BY <1>1, <1>2 DEF TypeOK
<1>4. r \in Result
  BY <1>2, <1>3 DEF TypeOK
<1>5. r.not_before \in Int \cup {NoTime} /\ r.not_after \in Int \cup {NoTime}
  BY <1>4 DEF Result, Time
<1> HIDE DEF r
<1>6. not_before' \in Int /\ not_after' \in Int
  BY <1>1, <1>2, <1>5 DEF TypeOK, Later, Earlier
<1>7. TypeOK'
  BY <1>1, <1>2, <1>6 DEF TypeOK
<1>8. not_before <= not_before' /\ not_after' <= not_after
  BY <1>1, <1>2, <1>5, TimeAssumption DEF TypeOK, Later, Earlier
<1>9. ASSUME NEW t \in Int
      PROVE  not_before' <= t /\ t < not_after' <=> AllowedBy(next, t)
  <2>1. not_before' <= t <=> not_before <= t /\ (r.not_before # NoTime => r.not_before <= t)
    BY <1>1, <1>2, <1>5, TimeAssumption DEF TypeOK, Later
  <2>2. t < not_after' <=> t < not_after /\ (r.not_after # NoTime => t < r.not_after)
    BY <1>1, <1>2, <1>5, TimeAssumption DEF TypeOK, Earlier
  <2>3. not_before <= t /\ t < not_after <=> AllowedBy(next - 1, t)
    BY <1>1, <1>2 DEF LoopInv
  <2>4. 1..next = 1..(next - 1) \cup {next}
    BY <1>3
  <2>5. AllowedBy(next, t) <=> /\ AllowedBy(next - 1, t)
                               /\ r.not_before # NoTime => r.not_before <= t
                               /\ r.not_after # NoTime => t < r.not_after
    BY <2>4 DEF AllowedBy, r
  <2>6. QED
    BY <2>1, <2>2, <2>3, <2>5
<1>10. ASSUME NEW t \in Int
       PROVE  AllowedBy(next, t) <=> AllowedBy(next - 1, t)'
  <2>1. next' - 1 = next
    BY <1>1, <1>3
  <2>2. QED
    BY <1>1, <2>1 DEF AllowedBy
<1>11. LoopInv'
  <2>1. next' <= Len(results') + 1
    BY <1>1, <1>3
  <2>2. now' <= not_before' /\ not_after' <= now' + Fallback
    BY <1>1, <1>2, <1>6, <1>8, TimeAssumption DEF LoopInv, TypeOK
  <2>3. \A t \in Int : not_before' <= t /\ t < not_after' <=> AllowedBy(next - 1, t)'
    BY <1>9, <1>10
  <2>4. pc' = "validity"
    BY <1>1
  <2>5. QED
    BY <2>1, <2>2, <2>3, <2>4 DEF LoopInv, Decided
<1>12. QED
  BY <1>7, <1>11 DEF Inv

\* No other step disturbs the window of a request in the loop.
LEMMA NextInv == Inv /\ [Next]_vars => Inv'
<1> SUFFICES ASSUME Inv, [Next]_vars PROVE Inv'
  OBVIOUS
<1> USE TimeAssumption
<1>0. TypeOK /\ LoopInv
  BY DEF Inv
<1> DEFINE Same == UNCHANGED <<results, now, next, not_before, not_after>>
           Early == {"csr", "policy", "verifier", "verify", "binding", "clock", "rejected_csr",
                     "rejected_operator", "rejected_verifier", "rejected_evidence", "rejected_binding"}
<1>1. ASSUME UNCHANGED <<results, now, next, not_before, not_after, pc>>
      PROVE  LoopInv'
  BY <1>0, <1>1 DEF LoopInv, AllowedBy, Live
<1>2. ASSUME Same, pc \in Early, pc' \in Early
      PROVE  LoopInv'
  BY <1>0, <1>2 DEF LoopInv, Decided
<1>3. ASSUME VerifyCsr \/ AuthorizeOperator \/ CreateVerifier \/ VerifyDataBinding
      PROVE  Inv'
  <2>1. Same /\ UNCHANGED <<clock, req>> /\ pc \in Early /\ pc' \in Early
    BY <1>3 DEF VerifyCsr, AuthorizeOperator, CreateVerifier, VerifyDataBinding, Check, window
  <2>2. TypeOK'
    BY <1>0, <2>1 DEF TypeOK
  <2>3. QED
    BY <1>2, <2>1, <2>2 DEF Inv
<1>4. CASE Verify
  <2>1. /\ pc \in Early /\ pc' \in Early
        /\ results' = VerifiedResults(req)
        /\ UNCHANGED <<clock, req, now, next, not_before, not_after>>
    BY <1>4 DEF Verify, Check, window
  <2>2. results' \in Seq(Result)
    BY <1>0, <2>1, ResultsTyped DEF TypeOK
  <2>3. TypeOK'
    BY <1>0, <2>1, <2>2 DEF TypeOK
  <2>4. LoopInv'
    <3>1. next' = 1 /\ Len(results') \in Nat
      BY <1>0, <2>1, <2>2 DEF LoopInv, Decided
    <3>2. QED
      BY <3>1, <2>1 DEF LoopInv, Decided
  <2>5. QED
    BY <2>3, <2>4 DEF Inv
<1>5. CASE ReadClock
  <2>1. /\ pc' = "validity" /\ now' = clock /\ next' = 1
        /\ not_before' = clock /\ not_after' = clock + Fallback
        /\ UNCHANGED <<clock, req, results>>
    BY <1>5 DEF ReadClock
  <2>2. TypeOK'
    BY <1>0, <2>1 DEF TypeOK
  <2>3. ASSUME NEW t \in Int
        PROVE  AllowedBy(next - 1, t)' <=> now' <= t /\ t < now' + Fallback
    <3>1. 1..(next' - 1) = {}
      BY <2>1
    <3>2. QED
      BY <3>1 DEF AllowedBy
  <2>4. Len(results') \in Nat
    BY <2>2 DEF TypeOK
  <2>5. LoopInv'
    BY <1>0, <2>1, <2>3, <2>4 DEF LoopInv, Decided, TypeOK
  <2>6. QED
    BY <2>2, <2>5 DEF Inv
<1>6. CASE Intersect
  BY <1>6, IterationNarrows
<1>7. CASE Decide
  <2>1. /\ pc = "validity" /\ ~(next <= Len(results))
        /\ pc' = IF Live THEN "accepted" ELSE "rejected_window"
        /\ UNCHANGED <<clock, req, results, now, next, not_before, not_after>>
    BY <1>7 DEF Decide, More, Check, window
  <2>2. TypeOK'
    BY <1>0, <2>1 DEF TypeOK
  <2>3. next' = Len(results') + 1
    BY <1>0, <2>1 DEF TypeOK, LoopInv
  <2>4. \A t \in Int : AllowedBy(next - 1, t)' <=> AllowedBy(next - 1, t)
    BY <2>1 DEF AllowedBy
  <2>5. Live' <=> Live
    BY <2>1 DEF Live
  <2>6. pc' \in Decided /\ (pc' = "accepted" => Live) /\ (pc' = "rejected_window" => ~Live)
    BY <2>1 DEF Decided
  <2>7. LoopInv'
    BY <1>0, <2>1, <2>2, <2>3, <2>4, <2>5, <2>6 DEF LoopInv, Decided, TypeOK
  <2>8. QED
    BY <2>2, <2>7 DEF Inv
<1>8. CASE Tick
  <2>1. UNCHANGED <<results, now, next, not_before, not_after, pc, req>> /\ clock' = clock + 1
    BY <1>8 DEF Tick, window
  <2>2. TypeOK'
    BY <1>0, <2>1 DEF TypeOK
  <2>3. QED
    BY <1>1, <2>1, <2>2 DEF Inv
<1>9. CASE UNCHANGED vars
  <2>1. TypeOK'
    BY <1>0, <1>9 DEF TypeOK, vars
  <2>2. QED
    BY <1>1, <1>9, <2>1 DEF Inv, vars
<1>10. QED
  BY <1>3, <1>4, <1>5, <1>6, <1>7, <1>8, <1>9 DEF Next, Validate

\* An accepted request's window is the intersection of all windows.
LEMMA InvWindow == Inv => WindowIsIntersection /\ RefusedOnlyIfEmpty /\ AcceptedWindowLive
<1> SUFFICES ASSUME Inv PROVE WindowIsIntersection /\ RefusedOnlyIfEmpty /\ AcceptedWindowLive
  OBVIOUS
<1> USE TimeAssumption
<1>1. TypeOK /\ LoopInv
  BY DEF Inv
<1>2. ASSUME pc \in Decided, NEW t \in Int
      PROVE  not_before <= t /\ t < not_after <=> Allowed(t)
  <2>1. next - 1 = Len(results) /\ DOMAIN results = 1..Len(results)
    BY <1>1, <1>2 DEF LoopInv, TypeOK
  <2>2. AllowedBy(next - 1, t) <=> Allowed(t)
    BY <2>1 DEF Allowed, AllowedBy
  <2>3. QED
    BY <1>1, <1>2, <2>2 DEF LoopInv
<1>3. WindowIsIntersection
  BY <1>2 DEF WindowIsIntersection, Decided
<1>4. RefusedOnlyIfEmpty
  <2> SUFFICES ASSUME pc = "rejected_window", NEW t \in Horizon PROVE ~Allowed(t)
    BY DEF RefusedOnlyIfEmpty
  <2>1. ~Live /\ now <= not_before
    BY <1>1 DEF LoopInv, Decided
  <2>2. ~(not_before <= t /\ t < not_after)
    BY <1>1, <2>1 DEF TypeOK, Live
  <2>3. QED
    BY <1>2, <2>2 DEF Decided
<1>5. AcceptedWindowLive
  BY <1>1 DEF AcceptedWindowLive, LoopInv, Decided, Live, TypeOK
<1>6. QED
  BY <1>3, <1>4, <1>5

\* Every request satisfies the loop invariant at every step.
LEMMA LoopInvariant == Spec => []Inv
<1>1. Inv /\ [Next]_vars => Inv'
  BY NextInv
<1>2. QED
  BY <1>1, InitInv, PTL DEF Spec

\* validate_csr_request keeps its types: whatever the endorsements, the list of
\* verified results is well formed and the window is a pair of times.
THEOREM ValidationTyped == Spec => []TypeOK
BY LoopInvariant, PTL DEF Inv

\* For any number of attestation results, any endorsement bounds, and a clock
\* that runs during the validation, extract_validity_with_fallback accepts
\* exactly the intersection of the windows.
THEOREM WindowCorrect == Spec => []WindowIsIntersection
BY LoopInvariant, InvWindow, PTL

\* extract_validity_with_fallback refuses a request only if no time is allowed
\* by all its endorsements and the fallback limit.
THEOREM RefusalsJustified == Spec => []RefusedOnlyIfEmpty
BY LoopInvariant, InvWindow, PTL

\* The window that extract_validity_with_fallback accepts is live at the clock
\* reading it was computed with.
THEOREM AcceptedLive == Spec => []AcceptedWindowLive
BY LoopInvariant, InvWindow, PTL

-----------------------------------------------------------------------------
(* The data binding.                                                       *)

Carriers(rs) == {i \in DOMAIN rs : rs[i].payload # NoPayload}

\* The user data that verify_data_binding looks at is that of the first
\* result that carries any.
LEMMA FirstIsFirst ==
    ASSUME NEW rs \in Seq(Result), Carriers(rs) # {}
    PROVE  \E i \in Carriers(rs) : FirstPayload(rs) = rs[i].payload /\ \A j \in Carriers(rs) : i <= j
<1>1. Carriers(rs) \in SUBSET Nat
  BY DEF Carriers
<1>2. \E i \in Carriers(rs) : \A j \in Carriers(rs) : ~(<<j, i>> \in OpToRel(<, Nat))
  BY <1>1, NatLessThanWellFounded, WFMin, Zenon
<1>3. \E i \in Carriers(rs) : \A j \in Carriers(rs) : ~(j < i)
  BY <1>1, <1>2, Zenon DEF OpToRel
<1>4. \E i \in Carriers(rs) : \A j \in Carriers(rs) : i <= j
  BY <1>1, <1>3
<1> DEFINE first == CHOOSE i \in Carriers(rs) : \A j \in Carriers(rs) : i <= j
<1>5. first \in Carriers(rs) /\ \A j \in Carriers(rs) : first <= j
  BY <1>4, Zenon
<1>6. FirstPayload(rs) = rs[first].payload
  BY Zenon DEF FirstPayload, Carriers
<1>7. QED
  BY <1>5, <1>6, Zenon

\* What verify_data_binding accepts is bound as AcceptedIsBound says: the
\* result that verify_oak_containers_user_data appends comes after all others.
LEMMA BoundByFirst ==
    ASSUME NEW r \in Request, FirstPayload(VerifiedResults(r)) = r.binds
    PROVE  IF Carriers(r.results) # {}
             THEN \E i \in Carriers(r.results) :
                    r.results[i].payload = r.binds /\ \A j \in Carriers(r.results) : i <= j
             ELSE r.values = "oak_containers" /\ r.user_data = r.binds
<1> DEFINE own == r.results
           rs == VerifiedResults(r)
           user == [payload |-> r.user_data, not_before |-> NoTime, not_after |-> NoTime]
<1>1. own \in Seq(Result) /\ r.binds \in Payloads
  BY DEF Request
<1>2. rs \in Seq(Result)
  BY ResultsTyped
<1>3. rs = IF r.values = "oak_containers" THEN Append(own, user) ELSE own
  BY DEF VerifiedResults
<1> HIDE DEF rs, own
<1>4. Carriers(rs) # {}
  <2>1. SUFFICES ASSUME Carriers(rs) = {} PROVE FALSE
    OBVIOUS
  <2>2. FirstPayload(rs) = EmptyPayload
    BY <2>1 DEF FirstPayload, Carriers
  <2>3. QED
    BY <1>1, <2>2, PayloadsAssumption DEF rs
<1>5. PICK i \in Carriers(rs) : rs[i].payload = r.binds /\ \A j \in Carriers(rs) : i <= j
  BY <1>2, <1>4, FirstIsFirst DEF rs
<1>6. CASE r.values # "oak_containers"
  BY <1>3, <1>5, <1>6 DEF own
<1>7. CASE r.values = "oak_containers"
  <2>1. /\ Len(own) \in Nat /\ DOMAIN own = 1..Len(own) /\ DOMAIN rs = 1..(Len(own) + 1)
        /\ \A j \in 1..Len(own) : rs[j] = own[j]
        /\ rs[Len(own) + 1] = user
    <3>1. rs = Append(own, user)
      BY <1>3, <1>7
    <3>2. QED
      BY <1>1, <3>1
  <2>2. Carriers(own) = Carriers(rs) \ {Len(own) + 1}
    BY <2>1 DEF Carriers
  <2>3. CASE Carriers(own) = {}
    <3>1. i = Len(own) + 1
      BY <2>2, <2>3
    <3>2. QED
      BY <1>5, <1>7, <2>1, <2>3, <3>1 DEF own
  <2>4. CASE Carriers(own) # {}
    <3>1. PICK j \in Carriers(own) : j \in 1..Len(own)
      BY <2>1, <2>4 DEF Carriers
    <3>2. i <= j /\ i \in DOMAIN rs
      BY <1>5, <2>2, <3>1 DEF Carriers
    <3>3. i \in 1..Len(own)
      BY <2>1, <3>1, <3>2
    <3>4. i \in Carriers(own) /\ own[i].payload = r.binds /\ \A k \in Carriers(own) : i <= k
      BY <1>5, <2>1, <2>2, <3>3
    <3>5. QED
      BY <2>4, <3>4 DEF own
  <2>5. QED
    BY <2>3, <2>4
<1>8. QED
  BY <1>6, <1>7

\* The checks passed so far still hold, because nothing changes the request
\* or its results after the verifier has answered.
BindInv ==
    /\ req \in Request
    /\ pc = "binding" => results = VerifiedResults(req)
    /\ pc \in {"clock", "validity"} \cup Decided => FirstPayload(VerifiedResults(req)) = req.binds

\* A request is accepted only if the first user data of the platform's own
\* results binds its key, or the signed one where they carry none, for any
\* number of results.
THEOREM AcceptedBound == Spec => []AcceptedIsBound
<1>1. Init => BindInv
  BY RequestsAssumption DEF Init, BindInv, Decided
<1>2. BindInv /\ [Next]_vars => BindInv'
  BY DEF BindInv, Decided, Next, Validate, VerifyCsr, AuthorizeOperator, CreateVerifier, Verify,
         VerifyDataBinding, ReadClock, Intersect, Decide, Tick, Check, vars, window
<1>3. BindInv => AcceptedIsBound
  <2> SUFFICES ASSUME BindInv, pc = "accepted" PROVE AcceptedIsBound
    BY DEF AcceptedIsBound
  <2>1. req \in Request /\ FirstPayload(VerifiedResults(req)) = req.binds
    BY DEF BindInv, Decided
  <2>2. QED
    BY <2>1, BoundByFirst DEF AcceptedIsBound, Carriers
<1>4. QED
  BY <1>1, <1>2, <1>3, PTL DEF Spec

-----------------------------------------------------------------------------
(* The validity of a leaf against that of its issuer.                      *)

\* An authority's certificate that was made by now.
Made(a) ==
    /\ a \in Authority
    /\ a.not_before <= clock
    /\ a.not_before + CertValidity <= a.not_after

\* A request that has read the clock has an authority, made before that.
Opened == issuer = <<>> \/ \E a \in Authority : issuer = <<a>> /\ Made(a)
LifeInv ==
    /\ Made(slot)
    /\ Opened
    /\ pc \notin {"csr"} => issuer # <<>>
    /\ pc \in {"validity"} \cup Decided => issuer[1].not_before <= now

\* Nothing is installed but the first authority, and no request was read.
LEMMA InitLife == LifetimeInit => Inv /\ LifeInv
<1> SUFFICES ASSUME LifetimeInit PROVE Inv /\ LifeInv
  OBVIOUS
<1> USE TimeAssumption, CertValidityAssumption
<1>1. Init /\ slot = [not_before |-> 0, not_after |-> CertValidity] /\ issuer = <<>>
  BY DEF LifetimeInit
<1>2. Inv
  BY <1>1, InitInv
<1>3. clock = 0 /\ pc = "csr"
  BY <1>1 DEF Init
<1>4. Made(slot)
  BY <1>1, <1>3 DEF Made, Authority
<1>5. QED
  BY <1>1, <1>2, <1>3, <1>4 DEF LifeInv, Opened, Decided

\* A validation step moves the request on; only reading the clock sets now.
LEMMA ValidateFrame ==
    ASSUME Validate
    PROVE  /\ UNCHANGED clock
           /\ pc' \in {"validity"} \cup Decided =>
                \/ now' = clock
                \/ pc \in {"validity"} \cup Decided /\ now' = now
<1>1. CASE VerifyCsr \/ AuthorizeOperator \/ CreateVerifier \/ VerifyDataBinding
  BY <1>1 DEF VerifyCsr, AuthorizeOperator, CreateVerifier, VerifyDataBinding, Check, window, Decided
<1>2. CASE Verify
  BY <1>2 DEF Verify, Check, window, Decided
<1>3. CASE ReadClock
  BY <1>3 DEF ReadClock, Decided
<1>4. CASE Intersect
  BY <1>4 DEF Intersect, Decided
<1>5. CASE Decide
  BY <1>5 DEF Decide, Check, window, Decided
<1>6. QED
  BY <1>1, <1>2, <1>3, <1>4, <1>5 DEF Validate

\* Certificates that were made stay made while time passes.
LEMMA MadeStays ==
    ASSUME NEW a, Made(a), clock \in Nat, clock' \in Nat, clock <= clock'
    PROVE  Made(a)'
  BY CertValidityAssumption DEF Made, Authority

\* Every step keeps the invariant: the authority is looked up before the
\* request's clock is read.
LEMMA NextLife == Inv /\ LifeInv /\ [LifetimeNext]_lifetimeVars => Inv' /\ LifeInv'
<1> SUFFICES ASSUME Inv, LifeInv, [LifetimeNext]_lifetimeVars PROVE Inv' /\ LifeInv'
  OBVIOUS
<1> USE TimeAssumption, CertValidityAssumption
<1>1. [Next]_vars
  BY DEF LifetimeNext, lifetimeVars, Rotate, Open, ValidateOpen, Next
<1>2. Inv'
  BY <1>1, NextInv
<1>3. /\ clock \in Nat /\ clock' \in Nat /\ now \in Nat /\ now' \in Nat
  BY <1>2 DEF Inv, TypeOK
<1>4. /\ Made(slot) /\ Opened
      /\ pc \notin {"csr"} => issuer # <<>>
      /\ pc \in {"validity"} \cup Decided => issuer[1].not_before <= now
  BY DEF LifeInv
<1>5. ASSUME clock <= clock', UNCHANGED issuer
      PROVE  Opened'
  BY <1>3, <1>4, <1>5, MadeStays DEF Opened
<1>6. CASE Rotate
  <2>1. PICK start \in 0..clock : slot' = [not_before |-> start, not_after |-> clock + CertValidity]
    BY <1>6 DEF Rotate
  <2>2. UNCHANGED <<clock, pc, now, issuer>>
    BY <1>6 DEF Rotate, vars
  <2>3. Made(slot)'
    BY <1>3, <2>1, <2>2 DEF Made, Authority
  <2>4. Opened'
    BY <1>3, <1>5, <2>2
  <2>5. QED
    BY <1>2, <1>4, <2>2, <2>3, <2>4 DEF LifeInv, Decided
<1>7. CASE Open
  <2>1. UNCHANGED <<clock, pc, now, slot>> /\ issuer = <<>> /\ issuer' = <<slot>>
    BY <1>7 DEF Open, vars
  <2>2. Made(slot)'
    BY <1>3, <1>4, <2>1 DEF Made
  <2>3. Opened'
    BY <2>1, <2>2 DEF Opened, Made
  <2>4. pc = "csr"
    BY <1>4, <2>1
  <2>5. QED
    BY <1>2, <2>1, <2>2, <2>3, <2>4 DEF LifeInv, Decided
<1>8. CASE ValidateOpen
  <2>1. issuer # <<>> /\ Validate /\ UNCHANGED <<slot, issuer>>
    BY <1>8 DEF ValidateOpen
  <2>2. /\ UNCHANGED clock
        /\ pc' \in {"validity"} \cup Decided =>
             \/ now' = clock
             \/ pc \in {"validity"} \cup Decided /\ now' = now
    BY <2>1, ValidateFrame
  <2>3. Made(slot)' /\ Opened'
    BY <1>3, <1>4, <1>5, <2>1, <2>2, MadeStays DEF Made
  <2>4. issuer[1].not_before <= clock
    BY <1>4, <2>1 DEF Opened, Made
  <2>5. QED
    BY <1>2, <1>4, <2>1, <2>2, <2>3, <2>4 DEF LifeInv
<1>9. CASE Tick /\ UNCHANGED <<slot, issuer>>
  <2>1. clock' = clock + 1 /\ UNCHANGED <<pc, now, slot, issuer>>
    BY <1>9 DEF Tick, window
  <2>2. Made(slot)'
    BY <1>3, <1>4, <2>1, MadeStays DEF Made
  <2>3. Opened'
    BY <1>3, <1>5, <2>1
  <2>4. QED
    BY <1>2, <1>4, <2>1, <2>2, <2>3 DEF LifeInv, Decided
<1>10. CASE UNCHANGED lifetimeVars
  <2>1. UNCHANGED <<clock, pc, now, slot, issuer>>
    BY <1>10 DEF lifetimeVars, vars
  <2>2. Made(slot)' /\ Opened'
    BY <1>3, <1>4, <1>5, <2>1 DEF Made
  <2>3. QED
    BY <1>2, <1>4, <2>1, <2>2 DEF LifeInv, Decided
<1>11. QED
  BY <1>6, <1>7, <1>8, <1>9, <1>10 DEF LifetimeNext

\* For any validities, endorsements, clock readings and rotations, a leaf
\* begins no earlier than the authority that signs it, and while that authority
\* is young enough for the fallback validity to fit, ends no later.
THEOREM LeafLifetime == LifetimeSpec => []LeafWithinIssuer
<1>1. Inv /\ LifeInv => LeafWithinIssuer
  <2> SUFFICES ASSUME Inv, LifeInv, pc = "accepted", NEW i \in DOMAIN issuer
               PROVE  /\ issuer[i].not_before <= not_before
                      /\ now + Fallback <= issuer[i].not_before + CertValidity =>
                           not_after <= issuer[i].not_after
    BY DEF LeafWithinIssuer
  <2>1. now <= not_before /\ not_after <= now + Fallback
    BY DEF Inv, LoopInv, Decided
  <2>2. PICK a \in Authority : issuer = <<a>> /\ Made(a)
    BY DEF LifeInv, Opened
  <2>3. i = 1 /\ issuer[i] = a
    BY <2>2
  <2>4. a.not_before <= now
    BY <2>2, <2>3 DEF LifeInv, Decided
  <2>5. /\ a.not_before \in Int /\ a.not_after \in Int
        /\ a.not_before + CertValidity <= a.not_after
    BY <2>2 DEF Made, Authority
  <2>6. now \in Int /\ not_before \in Int /\ not_after \in Int
    BY DEF Inv, TypeOK
  <2>7. QED
    BY <2>1, <2>3, <2>4, <2>5, <2>6, TimeAssumption, CertValidityAssumption
<1>2. QED
  BY <1>1, InitLife, NextLife, PTL DEF LifetimeSpec

-----------------------------------------------------------------------------
(* The bytes of the user data.                                             *)

\* A verification starts well typed.
LEMMA InitBindingType == BindingInit => BindingTypeOK
BY UserDataAssumption DEF BindingInit, BindingTypeOK

\* Every step keeps the types.
LEMMA NextBindingType == BindingTypeOK /\ [BindingNext]_bindingVars => BindingTypeOK'
<1> SUFFICES ASSUME BindingTypeOK, [BindingNext]_bindingVars PROVE BindingTypeOK'
  OBVIOUS
<1>1. CASE Receive
  BY <1>1, UserDataAssumption DEF Receive, BindingTypeOK
<1>2. CASE VerifyUserData
  BY <1>2 DEF VerifyUserData, BindingTypeOK
<1>3. CASE Answer
  BY <1>3 DEF Answer, BindingTypeOK
<1>4. CASE UNCHANGED bindingVars
  BY <1>4 DEF bindingVars, BindingTypeOK
<1>5. QED
  BY <1>1, <1>2, <1>3, <1>4 DEF BindingNext

\* A header whose first byte is not zero announces at least Base^3 bytes.
LEMMA LongHeader ==
    ASSUME NEW data \in Seq(Byte), Len(data) >= 4, data[1] # 0
    PROVE  FromBigEndian(data) \in Nat /\ FromBigEndian(data) >= Base * Base * Base
<1> USE BaseAssumption
<1>0. data[1] \in Byte /\ data[2] \in Byte /\ data[3] \in Byte /\ data[4] \in Byte
  OBVIOUS
<1>1. PICK a \in Byte, b \in Byte, c \in Byte, d \in Byte :
         data[1] = a /\ data[2] = b /\ data[3] = c /\ data[4] = d
  BY <1>0
<1>2. a \in Nat /\ b \in Nat /\ c \in Nat /\ d \in Nat /\ a >= 1
  BY <1>1 DEF Byte
<1> DEFINE x == a * Base + b
           y == x * Base + c
<1>3. ASSUME NEW p \in Nat, NEW q \in Nat, NEW r \in Nat, p >= q
      PROVE  p * Base + r \in Nat /\ p * Base + r >= q * Base
  <2>1. PICK e \in Nat : p = q + e
    <3>1. p = q + (p - q) /\ p - q \in Nat
      BY <1>3
    <3>2. QED
      BY <3>1
  <2>2. p * Base = q * Base + e * Base
    BY <2>1
  <2>3. e * Base \in Nat /\ q * Base \in Nat /\ p * Base \in Nat
    BY <2>1
  <2>4. QED
    BY <2>2, <2>3
<1>4. x \in Nat /\ x >= Base
  BY <1>2, <1>3
<1> HIDE DEF x
<1>5. y \in Nat /\ y >= Base * Base
  BY <1>2, <1>3, <1>4
<1> HIDE DEF y
<1>6. Base * Base \in Nat
  OBVIOUS
<1>7. y * Base + d \in Nat /\ y * Base + d >= Base * Base * Base
  BY <1>2, <1>3, <1>5, <1>6
<1>8. FromBigEndian(data) = y * Base + d
  BY <1>1 DEF FromBigEndian, x, y
<1>9. QED
  BY <1>7, <1>8

\* A sequence with domain 1..m has length m.
LEMMA SameLength ==
    ASSUME NEW S, NEW n \in Seq(S), NEW m \in Nat, DOMAIN n = 1..m
    PROVE  Len(n) = m
<1>1. DOMAIN n = 1..Len(n) /\ Len(n) \in Nat
  OBVIOUS
<1>2. \A i \in Nat : i \in 1..Len(n) <=> i \in 1..m
  BY <1>1
<1>3. QED
  BY <1>1, <1>2

\* Sequences of bytes with the same length and the same bytes are equal.
LEMMA SameBytes ==
    ASSUME NEW s \in Seq(Byte), NEW t \in Seq(Byte), Len(s) = Len(t), \A i \in 1..Len(s) : s[i] = t[i]
    PROVE  s = t
OBVIOUS

\* The bytes of a concatenation.
LEMMA Joined ==
    ASSUME NEW s \in Seq(Byte), NEW t \in Seq(Byte)
    PROVE  /\ s \o t \in Seq(Byte)
           /\ Len(s \o t) = Len(s) + Len(t)
           /\ \A i \in 1..(Len(s) + Len(t)) : (s \o t)[i] = IF i <= Len(s) THEN s[i] ELSE t[i - Len(s)]
OBVIOUS

\* Nothing follows.
LEMMA JoinedEmpty ==
    ASSUME NEW s \in Seq(Byte)
    PROVE  s \o <<>> = s
<1>1. s \o <<>> \in Seq(Byte) /\ Len(s \o <<>>) = Len(s) /\ \A i \in 1..Len(s) : (s \o <<>>)[i] = s[i]
  OBVIOUS
<1>2. QED
  BY <1>1, SameBytes, Zenon

\* A larger factor adds at least one multiple.
LEMMA Grows ==
    ASSUME NEW m \in Nat, NEW p \in Nat, NEW q \in Nat, p < q
    PROVE  p * m + m <= q * m
<1>1. PICK e \in Nat : q = p + 1 + e
  <2>1. q - p - 1 \in Nat /\ q = p + 1 + (q - p - 1)
    OBVIOUS
  <2>2. QED
    BY <2>1
<1>2. q * m = p * m + m + e * m
  BY <1>1
<1>3. e * m \in Nat /\ p * m \in Nat
  BY <1>1
<1>4. QED
  BY <1>2, <1>3

\* Quotient and remainder.
LEMMA Divides ==
    ASSUME NEW m \in Nat \ {0}, NEW x \in Nat
    PROVE  /\ x \div m \in Nat
           /\ x % m \in 0..(m - 1)
           /\ x = (x \div m) * m + (x % m)
OBVIOUS

\* Quotient and remainder are unique.
LEMMA Division ==
    ASSUME NEW m \in Nat \ {0}, NEW q \in Nat, NEW r \in 0..(m - 1)
    PROVE  (q * m + r) \div m = q /\ (q * m + r) % m = r
<1> DEFINE x == q * m + r
           p == x \div m
           s == x % m
<1>1. q * m \in Nat /\ x \in Nat
  OBVIOUS
<1> HIDE DEF x
<1>2. p \in Nat /\ s \in 0..(m-1) /\ x = p * m + s
  BY <1>1, Divides, Zenon
<1> HIDE DEF p, s
<1>3. p * m \in Nat
  BY <1>2
<1>4. ~(p < q)
  BY <1>1, <1>2, <1>3, Grows DEF x
<1>5. ~(q < p)
  BY <1>1, <1>2, <1>3, Grows DEF x
<1>6. p = q
  BY <1>2, <1>4, <1>5
<1>7. s = r
  BY <1>1, <1>2, <1>3, <1>6 DEF x
<1>8. QED
  BY <1>6, <1>7 DEF p, s, x

Value(a, b, c, d) == ((a * Base + b) * Base + c) * Base + d

\* The four bytes that stand for v.
DigitsAre(v, a, b, c, d) ==
    /\ v \in Nat
    /\ v < Base * Base * Base * Base
    /\ Digit(v, Base * Base * Base) = a
    /\ Digit(v, Base * Base) = b
    /\ Digit(v, Base) = c
    /\ Digit(v, 1) = d

\* The digits of a big-endian number are its bytes.
LEMMA Digits ==
    ASSUME NEW a \in Byte, NEW b \in Byte, NEW c \in Byte, NEW d \in Byte
    PROVE  DigitsAre(Value(a, b, c, d), a, b, c, d)
<1> DEFINE B2 == Base * Base
           B3 == B2 * Base
           z == a * Base + b
           y == z * Base + c
           v == y * Base + d
           low2 == c * Base + d
           mid == b * Base + c
           low3 == mid * Base + d
<1>1. /\ Base \in Nat \ {0} /\ a \in Nat /\ b \in Nat /\ c \in Nat /\ d \in Nat
      /\ a < Base /\ b < Base /\ c < Base /\ d < Base
  BY BaseAssumption DEF Byte
<1>2. /\ B2 \in Nat \ {0} /\ B3 \in Nat \ {0} /\ z \in Nat /\ y \in Nat /\ v \in Nat
      /\ low2 \in Nat /\ mid \in Nat /\ low3 \in Nat
  BY <1>1
<1>3. ASSUME NEW p \in Nat, NEW q \in Nat, NEW e \in Nat, p < q, e < Base
      PROVE  p * Base + e < q * Base
  <2>1. p * Base + Base <= q * Base
    BY <1>1, <1>3, Grows
  <2>2. p * Base \in Nat /\ q * Base \in Nat
    BY <1>1
  <2>3. QED
    BY <1>1, <1>3, <2>1, <2>2
<1>4. low2 < B2 /\ mid < B2 /\ z < B2
  BY <1>1, <1>3
<1>5. low3 < B3 /\ y < B3
  BY <1>1, <1>2, <1>3, <1>4
<1>6. v < B3 * Base
  BY <1>1, <1>2, <1>3, <1>5
<1>7. v = z * B2 + low2
  BY <1>1, <1>2
<1>8. v = a * B3 + low3
  BY <1>1, <1>2
<1>9. v * 1 + 0 = v /\ 0 * Base + a = a
  BY <1>1, <1>2
<1>10. /\ a \in 0..(Base - 1) /\ b \in 0..(Base - 1) /\ c \in 0..(Base - 1) /\ d \in 0..(Base - 1)
      /\ low2 \in 0..(B2 - 1) /\ low3 \in 0..(B3 - 1)
  BY <1>1, <1>2, <1>4, <1>5
<1> HIDE DEF B2, B3, low2, low3, mid
<1>11. Digit(v, 1) = d
  <2>1. v \div 1 = v
    BY <1>2, <1>9, Division
  <2>2. v % Base = d
    BY <1>1, <1>2, <1>10, Division, Zenon
  <2>3. QED
    BY <2>1, <2>2 DEF Digit
<1>12. Digit(v, Base) = c
  <2>1. y % Base = c
    BY <1>1, <1>2, <1>10, Division, Zenon
  <2> HIDE DEF y
  <2>2. v \div Base = y
    BY <1>1, <1>2, <1>10, Division, Zenon
  <2>3. QED
    BY <2>1, <2>2 DEF Digit
<1> HIDE DEF v
<1>13. Digit(v, B2) = b
  <2>1. v \div B2 = z
    BY <1>2, <1>7, <1>10, Division, Zenon
  <2>2. z % Base = b
    BY <1>1, <1>10, Division, Zenon
  <2>3. QED
    BY <2>1, <2>2 DEF Digit
<1>14. Digit(v, B3) = a
  <2>1. v \div B3 = a
    BY <1>1, <1>2, <1>8, <1>10, Division, Zenon
  <2>2. a % Base = a
    BY <1>1, <1>9, Division
  <2>3. QED
    BY <2>1, <2>2 DEF Digit
<1>15. QED
  BY <1>2, <1>6, <1>11, <1>12, <1>13, <1>14 DEF DigitsAre, Value, B2, B3, v

\* A length that fits in four bytes has four digits.
LEMMA HasDigits ==
    ASSUME NEW n \in Nat, n < Base * Base * Base * Base
    PROVE  \E a, b, c, d \in Byte : n = Value(a, b, c, d)
<1> DEFINE B2 == Base * Base
           B3 == B2 * Base
<1>1. Base \in Nat \ {0} /\ B2 \in Nat \ {0} /\ B3 \in Nat \ {0}
  BY BaseAssumption
<1> HIDE DEF B2, B3
<1>2. ASSUME NEW x \in Nat, NEW m \in Nat, x < m * Base
      PROVE  \E p \in Nat, e \in Byte : x = p * Base + e /\ p < m
  <2> DEFINE p == x \div Base
             e == x % Base
  <2>1. p \in Nat /\ e \in 0..(Base - 1) /\ x = p * Base + e
    BY <1>1, Divides, Zenon
  <2> HIDE DEF p, e
  <2>2. p * Base \in Nat /\ m * Base \in Nat
    BY <1>1, <2>1
  <2>3. ~(m <= p)
    <3> SUFFICES ASSUME m <= p PROVE FALSE
      OBVIOUS
    <3>1. m < p => m * Base + Base <= p * Base
      BY <1>1, <2>1, Grows
    <3>2. m * Base <= p * Base
      BY <1>1, <2>1, <2>2, <3>1
    <3>3. QED
      BY <1>2, <2>1, <2>2, <3>2
  <2>4. QED
    BY <2>1, <2>3 DEF Byte
<1>3. PICK y \in Nat, d \in Byte : n = y * Base + d /\ y < B3
  BY <1>1, <1>2, Zenon DEF B2, B3
<1>4. PICK z \in Nat, c \in Byte : y = z * Base + c /\ z < B2
  BY <1>1, <1>2, <1>3, Zenon DEF B3
<1>5. PICK a \in Nat, b \in Byte : z = a * Base + b /\ a < Base
  BY <1>1, <1>2, <1>4, Zenon DEF B2
<1>6. a \in Byte
  BY <1>1, <1>5 DEF Byte
<1>7. n = Value(a, b, c, d)
  BY <1>3, <1>4, <1>5 DEF Value
<1>8. QED
  BY <1>6, <1>7

\* A frame is the four digits of the length, then the bytes.
LEMMA FrameOf ==
    ASSUME NEW bytes \in Seq(Byte), NEW a \in Byte, NEW b \in Byte, NEW c \in Byte, NEW d \in Byte,
           Len(bytes) = Value(a, b, c, d)
    PROVE  Frame(bytes) = <<a, b, c, d>> \o bytes
<1>1. DigitsAre(Len(bytes), a, b, c, d)
  BY Digits, Zenon
<1>2. QED
  BY <1>1, Zenon DEF Frame, DigitsAre

\* data starts with the length of chunk, and goes on with chunk and rest.
FramedAs(data, chunk, rest) ==
    /\ Len(data) = 4 + Len(chunk) + Len(rest)
    /\ FromBigEndian(data) = Len(chunk)
    /\ \A i \in 1..Len(chunk) : data[4 + i] = chunk[i]
    /\ \A i \in 1..Len(rest) : data[4 + Len(chunk) + i] = rest[i]

Assembled(a, b, c, d, chunk, rest) == (<<a, b, c, d>> \o chunk) \o rest

\* Four digits, the bytes they count, and the rest.
LEMMA Parts ==
    ASSUME NEW a \in Byte, NEW b \in Byte, NEW c \in Byte, NEW d \in Byte,
           NEW chunk \in Seq(Byte), NEW rest \in Seq(Byte), Len(chunk) = Value(a, b, c, d)
    PROVE  /\ Assembled(a, b, c, d, chunk, rest) \in Seq(Byte)
           /\ FramedAs(Assembled(a, b, c, d, chunk, rest), chunk, rest)
<1> DEFINE data == Assembled(a, b, c, d, chunk, rest)
<1> HIDE DEF data
<1> DEFINE h == <<a, b, c, d>>
           f == h \o chunk
<1>1. h \in Seq(Byte) /\ Len(h) = 4 /\ h[1] = a /\ h[2] = b /\ h[3] = c /\ h[4] = d
  OBVIOUS
<1> HIDE DEF h
<1>2. /\ f \in Seq(Byte) /\ Len(f) = 4 + Len(chunk)
      /\ \A i \in 1..(4 + Len(chunk)) : f[i] = IF i <= 4 THEN h[i] ELSE chunk[i - 4]
  <2>1. /\ f \in Seq(Byte) /\ Len(f) = Len(h) + Len(chunk)
        /\ \A i \in 1..(Len(h) + Len(chunk)) : f[i] = IF i <= Len(h) THEN h[i] ELSE chunk[i - Len(h)]
    BY <1>1, Joined, Zenon
  <2>2. QED
    BY <1>1, <2>1, Zenon
<1> HIDE DEF f
<1>3. data = f \o rest
  BY Zenon DEF data, Assembled, f, h
<1>4. /\ data \in Seq(Byte) /\ Len(data) = 4 + Len(chunk) + Len(rest)
      /\ \A i \in 1..(4 + Len(chunk) + Len(rest)) :
            data[i] = IF i <= 4 + Len(chunk) THEN f[i] ELSE rest[i - (4 + Len(chunk))]
  <2>1. /\ f \o rest \in Seq(Byte) /\ Len(f \o rest) = Len(f) + Len(rest)
        /\ \A i \in 1..(Len(f) + Len(rest)) :
             (f \o rest)[i] = IF i <= Len(f) THEN f[i] ELSE rest[i - Len(f)]
    BY <1>2, Joined, Zenon
  <2>2. QED
    BY <1>2, <1>3, <2>1, Zenon
<1>5. Len(chunk) \in Nat /\ Len(rest) \in Nat
  OBVIOUS
<1>6. data[1] = a /\ data[2] = b /\ data[3] = c /\ data[4] = d
  <2>1. ASSUME NEW i \in 1..4 PROVE data[i] = h[i]
    <3>1. /\ i \in 1..(4 + Len(chunk)) /\ i \in 1..(4 + Len(chunk) + Len(rest))
          /\ i <= 4 /\ i <= 4 + Len(chunk)
      BY <1>5
    <3>2. QED
      <4>1. data[i] = f[i]
        BY <1>4, <3>1, Zenon
      <4>2. f[i] = h[i]
        BY <1>2, <3>1, Zenon
      <4>3. QED
        BY <4>1, <4>2
  <2>2. 1 \in 1..4 /\ 2 \in 1..4 /\ 3 \in 1..4 /\ 4 \in 1..4
    OBVIOUS
  <2>3. QED
    BY <1>1, <2>1, <2>2, Zenon
<1>7. ASSUME NEW i \in 1..Len(chunk) PROVE data[4 + i] = chunk[i]
  <2>1. /\ 4 + i \in 1..(4 + Len(chunk)) /\ 4 + i \in 1..(4 + Len(chunk) + Len(rest))
        /\ 4 + i <= 4 + Len(chunk) /\ ~(4 + i <= 4) /\ (4 + i) - 4 = i
    BY <1>5
  <2>2. QED
    BY <1>2, <1>4, <2>1, Zenon
<1>8. ASSUME NEW i \in 1..Len(rest) PROVE data[4 + Len(chunk) + i] = rest[i]
  <2>1. /\ 4 + Len(chunk) + i \in 1..(4 + Len(chunk) + Len(rest))
        /\ ~(4 + Len(chunk) + i <= 4 + Len(chunk)) /\ (4 + Len(chunk) + i) - (4 + Len(chunk)) = i
    BY <1>5
  <2>2. QED
    BY <1>4, <2>1, Zenon
<1>9. FromBigEndian(data) = Len(chunk)
  BY <1>6, Zenon DEF FromBigEndian, Value
<1>10. QED
  BY <1>4, <1>7, <1>8, <1>9, Zenon DEF FramedAs, data

\* Framed bytes are framed.
LEMMA FrameFramed ==
    ASSUME NEW chunk \in Seq(Byte), NEW rest \in Seq(Byte),
           Len(chunk) < Base * Base * Base * Base
    PROVE  /\ Frame(chunk) \o rest \in Seq(Byte)
           /\ FramedAs(Frame(chunk) \o rest, chunk, rest)
<1>1. PICK a \in Byte, b \in Byte, c \in Byte, d \in Byte : Len(chunk) = Value(a, b, c, d)
  <2>1. Len(chunk) \in Nat
    OBVIOUS
  <2>2. QED
    BY <2>1, HasDigits, Zenon
<1>2. Frame(chunk) = <<a, b, c, d>> \o chunk
  BY <1>1, FrameOf
<1>3. Frame(chunk) \o rest = Assembled(a, b, c, d, chunk, rest)
  BY <1>2, Zenon DEF Assembled
<1>4. /\ Assembled(a, b, c, d, chunk, rest) \in Seq(Byte)
      /\ FramedAs(Assembled(a, b, c, d, chunk, rest), chunk, rest)
  BY <1>1, Parts, Zenon
<1>5. QED
  BY <1>3, <1>4, Zenon

\* The first four bytes are the digits of the number they stand for.
LEMMA HeaderDigits ==
    ASSUME NEW data \in Seq(Byte), Len(data) >= 4
    PROVE  DigitsAre(FromBigEndian(data), data[1], data[2], data[3], data[4])
<1>1. data[1] \in Byte /\ data[2] \in Byte /\ data[3] \in Byte /\ data[4] \in Byte
  OBVIOUS
<1>2. FromBigEndian(data) = Value(data[1], data[2], data[3], data[4])
  BY Zenon DEF FromBigEndian, Value
<1>3. DigitsAre(Value(data[1], data[2], data[3], data[4]), data[1], data[2], data[3], data[4])
  BY <1>1, Digits, Zenon
<1>4. QED
  BY <1>2, <1>3, Zenon

\* Nothing but the framing is framed.
LEMMA FramedFrame ==
    ASSUME NEW data \in Seq(Byte), NEW chunk \in Seq(Byte), NEW rest \in Seq(Byte),
           FramedAs(data, chunk, rest)
    PROVE  /\ Len(chunk) < Base * Base * Base * Base
           /\ data = Frame(chunk) \o rest
<1> DEFINE other == Frame(chunk) \o rest
<1>1. Len(chunk) \in Nat /\ Len(rest) \in Nat
  OBVIOUS
<1>2. Len(data) >= 4
  BY <1>1 DEF FramedAs
<1>3. Len(chunk) < Base * Base * Base * Base
  BY <1>2, HeaderDigits, Zenon DEF FramedAs, DigitsAre
<1>4. other \in Seq(Byte) /\ FramedAs(other, chunk, rest)
  BY <1>3, FrameFramed, Zenon
<1> HIDE DEF other
<1>5. Len(other) = Len(data) /\ Len(other) >= 4
  BY <1>1, <1>4 DEF FramedAs
<1>6. FromBigEndian(data) = FromBigEndian(other)
  BY <1>4 DEF FramedAs
<1>7. data[1] = other[1] /\ data[2] = other[2] /\ data[3] = other[3] /\ data[4] = other[4]
  <2>1. /\ DigitsAre(FromBigEndian(data), data[1], data[2], data[3], data[4])
        /\ DigitsAre(FromBigEndian(data), other[1], other[2], other[3], other[4])
    BY <1>2, <1>4, <1>5, <1>6, HeaderDigits, Zenon
  <2>2. QED
    BY <2>1, Zenon DEF DigitsAre
<1>8. \A i \in 1..Len(data) : data[i] = other[i]
  <2> TAKE i \in 1..Len(data)
  <2>1. CASE i <= 4
    BY <1>7, <2>1
  <2>2. CASE 4 < i /\ i <= 4 + Len(chunk)
    <3>1. i - 4 \in 1..Len(chunk) /\ 4 + (i - 4) = i
      BY <1>1, <2>2
    <3>2. QED
      BY <1>4, <3>1, Zenon DEF FramedAs
  <2>3. CASE 4 + Len(chunk) < i
    <3>1. i - 4 - Len(chunk) \in 1..Len(rest) /\ 4 + Len(chunk) + (i - 4 - Len(chunk)) = i
      BY <1>1, <2>3 DEF FramedAs
    <3>2. QED
      BY <1>4, <3>1, Zenon DEF FramedAs
  <2>4. QED
    BY <1>1, <2>1, <2>2, <2>3
<1>9. data = other
  BY <1>4, <1>5, <1>8, SameBytes, Zenon
<1>10. QED
  BY <1>3, <1>9 DEF other

\* What follows the header.
LEMMA Suffix ==
    ASSUME NEW data \in Seq(Byte), Len(data) >= 4
    PROVE  /\ SubSeq(data, 5, Len(data)) \in Seq(Byte)
           /\ Len(SubSeq(data, 5, Len(data))) = Len(data) - 4
           /\ \A i \in 1..(Len(data) - 4) : SubSeq(data, 5, Len(data))[i] = data[4 + i]
<1> DEFINE tail == SubSeq(data, 5, Len(data))
<1>1. PICK m \in Nat : Len(data) = 4 + m
  <2>1. Len(data) - 4 \in Nat /\ Len(data) = 4 + (Len(data) - 4)
    OBVIOUS
  <2>2. QED
    BY <2>1, Zenon
<1>2. /\ tail \in Seq(Byte) /\ Len(tail) = m
      /\ \A i \in 1..Len(tail) : tail[i] = data[4 + i]
  BY <1>1
<1> HIDE DEF tail
<1>3. Len(data) - 4 = m
  BY <1>1
<1>4. QED
  BY <1>2, <1>3, Zenon DEF tail

\* take_chunk returns the framed bytes and what follows them.
LEMMA TakeFramed ==
    ASSUME NEW data \in Seq(Byte), NEW chunk \in Seq(Byte), NEW rest \in Seq(Byte),
           FramedAs(data, chunk, rest)
    PROVE  TakeChunk(data) = [ok |-> TRUE, chunk |-> chunk, rest |-> rest]
<1> DEFINE tail == SubSeq(data, 5, Len(data))
<1>1. Len(chunk) \in Nat /\ Len(rest) \in Nat
  OBVIOUS
<1>2. Len(data) = 4 + Len(chunk) + Len(rest)
  BY DEF FramedAs
<1>3. /\ tail \in Seq(Byte) /\ Len(tail) = Len(chunk) + Len(rest)
      /\ \A i \in 1..Len(tail) : tail[i] = data[4 + i]
  BY <1>1, <1>2
<1> HIDE DEF tail
<1>4. SubSeq(tail, 1, Len(chunk)) = chunk
  <2> DEFINE s == SubSeq(tail, 1, Len(chunk))
  <2>1. s \in Seq(Byte) /\ Len(s) = Len(chunk) /\ \A i \in 1..Len(s) : s[i] = tail[i]
    BY <1>1, <1>3
  <2> HIDE DEF s
  <2>2. ASSUME NEW i \in 1..Len(s) PROVE s[i] = chunk[i]
    <3>1. i \in 1..Len(chunk) /\ i \in 1..Len(tail)
      BY <1>1, <1>3, <2>1
    <3>2. s[i] = tail[i] /\ tail[i] = data[4 + i] /\ data[4 + i] = chunk[i]
      BY <1>3, <2>1, <3>1, Zenon DEF FramedAs
    <3>3. QED
      BY <3>2
  <2>3. QED
    BY <2>1, <2>2, SameBytes, Zenon DEF s
<1>5. SubSeq(tail, Len(chunk) + 1, Len(tail)) = rest
  <2> DEFINE s == SubSeq(tail, Len(chunk) + 1, Len(tail))
  <2>1. s \in Seq(Byte) /\ Len(s) = Len(rest) /\ \A i \in 1..Len(s) : s[i] = tail[Len(chunk) + i]
    BY <1>1, <1>3
  <2> HIDE DEF s
  <2>2. ASSUME NEW i \in 1..Len(s) PROVE s[i] = rest[i]
    <3>1. i \in 1..Len(rest) /\ Len(chunk) + i \in 1..Len(tail)
      BY <1>1, <1>3, <2>1
    <3>2. s[i] = tail[Len(chunk) + i] /\ tail[Len(chunk) + i] = data[4 + (Len(chunk) + i)]
      BY <1>3, <2>1, <3>1, Zenon
    <3>3. data[4 + Len(chunk) + i] = rest[i] /\ 4 + (Len(chunk) + i) = 4 + Len(chunk) + i
      BY <1>1, <3>1 DEF FramedAs
    <3>4. QED
      BY <3>2, <3>3, Zenon
  <2>3. QED
    BY <2>1, <2>2, SameBytes, Zenon DEF s
<1>6. ~(Len(data) < 4) /\ ~(Len(tail) < Len(chunk)) /\ FromBigEndian(data) = Len(chunk)
  BY <1>1, <1>2, <1>3 DEF FramedAs
<1>7. QED
  BY <1>4, <1>5, <1>6, Zenon DEF TakeChunk, tail

\* What take_chunk returns was framed.
LEMMA TakenFramed ==
    ASSUME NEW data \in Seq(Byte), TakeChunk(data).ok
    PROVE  /\ TakeChunk(data).chunk \in Seq(Byte) /\ TakeChunk(data).rest \in Seq(Byte)
           /\ FramedAs(data, TakeChunk(data).chunk, TakeChunk(data).rest)
<1> DEFINE tail == SubSeq(data, 5, Len(data))
           len == FromBigEndian(data)
           chunk == SubSeq(tail, 1, len)
           rest == SubSeq(tail, len + 1, Len(tail))
<1>1. ~(Len(data) < 4)
  BY DEF TakeChunk, Refused
<1>2. ~(Len(tail) < len)
  BY <1>1 DEF TakeChunk, Refused
<1>3. len \in Nat
  BY <1>1, HeaderDigits DEF DigitsAre
<1> HIDE DEF len
<1>4. /\ tail \in Seq(Byte) /\ Len(tail) = Len(data) - 4
      /\ \A i \in 1..Len(tail) : tail[i] = data[4 + i]
  BY <1>1, Suffix
<1> HIDE DEF tail
<1>5. /\ chunk \in Seq(Byte) /\ Len(chunk) = len
      /\ \A i \in 1..Len(chunk) : chunk[i] = tail[i]
  BY <1>2, <1>3, <1>4
<1>6. /\ rest \in Seq(Byte) /\ Len(rest) = Len(tail) - len
      /\ \A i \in 1..Len(rest) : rest[i] = tail[len + i]
  BY <1>2, <1>3, <1>4
<1>7. TakeChunk(data) = [ok |-> TRUE, chunk |-> chunk, rest |-> rest]
  BY <1>1, <1>2, Zenon DEF TakeChunk, len, tail
<1> HIDE DEF chunk, rest
<1>8. TakeChunk(data).chunk = chunk /\ TakeChunk(data).rest = rest
  BY <1>7
<1>9. Len(data) = 4 + Len(chunk) + Len(rest)
  BY <1>3, <1>4, <1>5, <1>6
<1>10. ASSUME NEW i \in 1..Len(chunk) PROVE data[4 + i] = chunk[i]
  <2>1. i \in 1..Len(tail)
    BY <1>2, <1>3, <1>4, <1>5
  <2>2. QED
    BY <1>4, <1>5, <2>1, Zenon
<1>11. ASSUME NEW i \in 1..Len(rest) PROVE data[4 + Len(chunk) + i] = rest[i]
  <2>1. len + i \in 1..Len(tail) /\ 4 + (len + i) = 4 + len + i
    BY <1>2, <1>3, <1>4, <1>6
  <2>2. rest[i] = tail[len + i] /\ tail[len + i] = data[4 + (len + i)]
    BY <1>4, <1>6, <2>1, Zenon
  <2>3. QED
    BY <1>5, <2>1, <2>2, Zenon
<1>12. FramedAs(data, chunk, rest)
  BY <1>5, <1>9, <1>10, <1>11, Zenon DEF FramedAs, len
<1>13. QED
  BY <1>5, <1>6, <1>8, <1>12, Zenon

\* take_chunk accepts exactly the framing of the chunk it returns, followed by
\* the rest it returns.
LEMMA TakesFrame ==
    ASSUME NEW data \in Seq(Byte), NEW chunk \in Seq(Byte), NEW rest \in Seq(Byte)
    PROVE  TakeChunk(data) = [ok |-> TRUE, chunk |-> chunk, rest |-> rest]
             <=> Len(chunk) < Base * Base * Base * Base /\ data = Frame(chunk) \o rest
<1>1. ASSUME TakeChunk(data) = [ok |-> TRUE, chunk |-> chunk, rest |-> rest]
      PROVE  Len(chunk) < Base * Base * Base * Base /\ data = Frame(chunk) \o rest
  <2>1. TakeChunk(data).ok /\ TakeChunk(data).chunk = chunk /\ TakeChunk(data).rest = rest
    BY <1>1
  <2>2. FramedAs(data, chunk, rest)
    BY <2>1, TakenFramed, Zenon
  <2>3. QED
    BY <2>2, FramedFrame, Zenon
<1>2. ASSUME Len(chunk) < Base * Base * Base * Base, data = Frame(chunk) \o rest
      PROVE  TakeChunk(data) = [ok |-> TRUE, chunk |-> chunk, rest |-> rest]
  <2>1. FramedAs(Frame(chunk) \o rest, chunk, rest)
    BY <1>2, FrameFramed, Zenon
  <2>2. FramedAs(data, chunk, rest)
    BY <1>2, <2>1, Zenon
  <2>3. QED
    BY <2>2, TakeFramed, Zenon
<1>3. QED
  BY <1>1, <1>2

\* A frame alone is a frame followed by nothing.
LEMMA FrameAlone ==
    ASSUME NEW bytes \in Seq(Byte), Len(bytes) < Base * Base * Base * Base
    PROVE  /\ Frame(bytes) \in Seq(Byte)
           /\ Frame(bytes) = Frame(bytes) \o <<>>
<1>1. Len(bytes) \in Nat
  OBVIOUS
<1>2. PICK a \in Byte, b \in Byte, c \in Byte, d \in Byte : Len(bytes) = Value(a, b, c, d)
  BY <1>1, HasDigits, Zenon
<1>3. Frame(bytes) = <<a, b, c, d>> \o bytes
  BY <1>2, FrameOf, Zenon
<1>4. <<a, b, c, d>> \in Seq(Byte)
  OBVIOUS
<1>5. Frame(bytes) \in Seq(Byte)
  BY <1>3, <1>4, Joined, Zenon
<1>6. QED
  BY <1>5, JoinedEmpty, Zenon

\* A nonce is a sequence of bytes short enough to be framed.
LEMMA NonceFits ==
    ASSUME NEW n \in Nonces
    PROVE  n \in Seq(Byte) /\ Len(n) < Base * Base * Base * Base
<1>1. n \in [1..NonceLength -> Byte] /\ NonceLength \in Nat /\ NonceLength < Base * Base * Base
  BY NonceAssumption
<1>2. n \in Seq(Byte)
  BY <1>1
<1>3. Len(n) = NonceLength
  BY <1>1, <1>2, SameLength
<1> DEFINE B3 == Base * Base * Base
<1>4. B3 \in Nat \ {0} /\ Base \in Nat /\ 1 < Base
  BY BaseAssumption
<1> HIDE DEF B3
<1>5. 1 * B3 + B3 <= Base * B3
  BY <1>4, Grows, Zenon
<1>6. B3 <= B3 * Base
  BY <1>4, <1>5
<1>7. B3 * Base \in Nat
  BY <1>4
<1>8. NonceLength < B3 * Base
  BY <1>1, <1>4, <1>6, <1>7 DEF B3
<1>9. QED
  BY <1>2, <1>3, <1>8, Zenon DEF B3

\* extract_payload accepts exactly a framed nonce and a framed key.
LEMMA ExtractExact ==
    ASSUME NEW data \in Seq(Byte), NEW n \in Nonces, NEW key \in Seq(Byte)
    PROVE  ExtractPayload(data) = [ok |-> TRUE, nonce |-> n, key |-> key]
             <=> Len(key) < Base * Base * Base * Base /\ data = Frame(n) \o Frame(key)
<1> DEFINE small(s) == Len(s) < Base * Base * Base * Base
           first == TakeChunk(data)
           second == TakeChunk(first.rest)
<1>1. n \in Seq(Byte) /\ small(n)
  BY NonceFits, Zenon
<1>2. ASSUME ExtractPayload(data) = [ok |-> TRUE, nonce |-> n, key |-> key]
      PROVE  small(key) /\ data = Frame(n) \o Frame(key)
  <2> DEFINE whole == first.ok /\ second.ok /\ second.rest = <<>>
  <2> HIDE DEF first, second, whole
  <2>1. ExtractPayload(data) = [ok |-> whole, nonce |-> first.chunk, key |-> second.chunk]
    BY Zenon DEF ExtractPayload, first, second, whole
  <2>2. whole /\ first.chunk = n /\ second.chunk = key
    BY <1>2, <2>1
  <2>3. first.rest \in Seq(Byte) /\ FramedAs(data, n, first.rest)
    BY <2>2, TakenFramed, Zenon DEF first, whole
  <2>4. FramedAs(first.rest, key, <<>>)
    BY <2>2, <2>3, TakenFramed, Zenon DEF second, whole
  <2>5. data = Frame(n) \o first.rest
    BY <1>1, <2>3, FramedFrame, Zenon
  <2>6. <<>> \in Seq(Byte)
    OBVIOUS
  <2>7. small(key) /\ first.rest = Frame(key) \o <<>>
    BY <2>3, <2>4, <2>6, FramedFrame, Zenon
  <2>8. first.rest = Frame(key)
    BY <2>7, FrameAlone, Zenon
  <2>9. QED
    BY <2>5, <2>7, <2>8, Zenon
<1>3. ASSUME small(key), data = Frame(n) \o Frame(key)
      PROVE  ExtractPayload(data) = [ok |-> TRUE, nonce |-> n, key |-> key]
  <2>1. Frame(key) \in Seq(Byte) /\ Frame(key) = Frame(key) \o <<>> /\ <<>> \in Seq(Byte)
    BY <1>3, FrameAlone
  <2>2. first = [ok |-> TRUE, chunk |-> n, rest |-> Frame(key)]
    <3>1. \A r \in Seq(Byte) :
             data = Frame(n) \o r => TakeChunk(data) = [ok |-> TRUE, chunk |-> n, rest |-> r]
      BY <1>1, TakesFrame, Zenon
    <3>2. QED
      BY <1>3, <2>1, <3>1, Zenon
  <2>3. TakeChunk(Frame(key)) = [ok |-> TRUE, chunk |-> key, rest |-> <<>>]
    BY <1>3, <2>1, TakesFrame, Zenon
  <2> HIDE DEF first, second
  <2>4. first.ok /\ first.chunk = n /\ first.rest = Frame(key)
    BY <2>2
  <2>5. second = [ok |-> TRUE, chunk |-> key, rest |-> <<>>]
    BY <2>3, <2>4, Zenon DEF second
  <2>6. second.ok /\ second.chunk = key /\ second.rest = <<>>
    BY <2>5
  <2>7. ExtractPayload(data) = [ok |-> first.ok /\ second.ok /\ second.rest = <<>>,
                                nonce |-> first.chunk, key |-> second.chunk]
    BY Zenon DEF ExtractPayload, first, second
  <2>8. (first.ok /\ second.ok /\ second.rest = <<>>) = TRUE
    BY <2>4, <2>6, Zenon DEF first, second
  <2>9. QED
    BY <2>4, <2>6, <2>7, <2>8, Zenon
<1>4. QED
  BY <1>2, <1>3

\* User data with a nonce of the session's length cannot start like a key.
LEMMA FramedIsNotBare ==
    ASSUME NEW data \in Seq(Byte), NEW n \in Nonces, NEW k \in Key, NEW bare \in Key,
           Binds(data, k, n)
    PROVE  FromBytes(data) # bare
<1> SUFFICES ASSUME FromBytes(data) = bare PROVE FALSE
  OBVIOUS
<1> USE BaseAssumption, NonceAssumption
<1>1. Len(data) >= 2 /\ data[1] = Tag
  BY NoKeyAssumption DEF FromBytes
<1>2. data[1] # 0
  BY <1>1, TagAssumption
<1>3. TakeChunk(data).ok /\ TakeChunk(data).chunk = n
  BY Zenon DEF Binds, ExtractPayload
<1> DEFINE rest == SubSeq(data, 5, Len(data))
           len == FromBigEndian(data)
<1>4. Len(data) >= 4 /\ ~(Len(rest) < len) /\ TakeChunk(data).chunk = SubSeq(rest, 1, len)
  <2>1. ~(Len(data) < 4)
    BY <1>3 DEF TakeChunk, Refused
  <2>2. ~(Len(rest) < len)
    BY <1>3, <2>1 DEF TakeChunk, Refused
  <2> DEFINE head == SubSeq(rest, 1, len)
             tail == SubSeq(rest, len + 1, Len(rest))
  <2>3. TakeChunk(data) = [ok |-> TRUE, chunk |-> head, rest |-> tail]
    BY <2>1, <2>2 DEF TakeChunk
  <2> HIDE DEF head, tail
  <2>4. TakeChunk(data).chunk = head
    BY <2>3
  <2>5. QED
    BY <2>1, <2>2, <2>4 DEF head
<1>5. len \in Nat /\ len >= Base * Base * Base
  BY <1>2, <1>4, LongHeader
<1>6. rest \in Seq(Byte)
  BY <1>4
<1> HIDE DEF rest, len
<1>7. Len(SubSeq(rest, 1, len)) = len
  BY <1>4, <1>5, <1>6
<1>8. Len(n) = NonceLength
  <2>1. n \in [1..NonceLength -> Byte]
    OBVIOUS
  <2>2. n \in Seq(Byte)
    BY <1>3, <1>4, <1>6, <1>5
  <2>3. QED
    BY <2>1, <2>2, SameLength
<1>9. Base * Base * Base \in Nat
  OBVIOUS
<1>10. QED
  BY <1>3, <1>4, <1>5, <1>7, <1>8, <1>9

\* User data binds at most one key and at most one nonce.
LEMMA OneChallenge ==
    ASSUME NEW data \in Seq(Byte), NEW k1 \in Key, NEW k2 \in Key,
           NEW n1 \in Nonces \cup {NoNonce}, NEW n2 \in Nonces \cup {NoNonce},
           Binds(data, k1, n1), Binds(data, k2, n2)
    PROVE  k1 = k2 /\ n1 = n2
<1>1. CASE n1 = NoNonce /\ n2 = NoNonce
  BY <1>1 DEF Binds
<1>2. CASE n1 # NoNonce /\ n2 # NoNonce
  BY <1>2 DEF Binds
<1>3. CASE n1 # NoNonce /\ n2 = NoNonce
  BY <1>3, FramedIsNotBare DEF Binds
<1>4. CASE n1 = NoNonce /\ n2 # NoNonce
  BY <1>4, FramedIsNotBare DEF Binds
<1>5. QED
  BY <1>1, <1>2, <1>3, <1>4

\* The framing of n and of an encoding of k.
IsFraming(data, k, n) ==
    \E i \in 1..Len(data) :
        LET key == SubSeq(data, i, Len(data)) IN
        /\ Len(key) < Base * Base * Base * Base
        /\ data = Frame(n) \o Frame(key)
        /\ FromBytes(key) = k

\* The key ends the user data.
LEMMA KeyEnds ==
    ASSUME NEW n \in Seq(Byte), NEW key \in Seq(Byte), NEW data \in Seq(Byte), NEW rest \in Seq(Byte),
           Len(key) > 0, FramedAs(data, n, rest), FramedAs(rest, key, <<>>)
    PROVE  /\ Len(n) + 9 \in 1..Len(data)
           /\ SubSeq(data, Len(n) + 9, Len(data)) = key
<1>1. Len(n) \in Nat /\ Len(key) \in Nat /\ Len(rest) \in Nat
  OBVIOUS
<1>2. Len(data) = 8 + Len(n) + Len(key) /\ Len(rest) = 4 + Len(key)
  BY <1>1 DEF FramedAs
<1> DEFINE s == SubSeq(data, Len(n) + 9, Len(data))
<1>3. s \in Seq(Byte) /\ Len(s) = Len(key) /\ \A i \in 1..Len(s) : s[i] = data[Len(n) + 8 + i]
  BY <1>1, <1>2
<1> HIDE DEF s
<1>4. ASSUME NEW i \in 1..Len(s) PROVE s[i] = key[i]
  <2>1. i \in 1..Len(key) /\ 4 + i \in 1..Len(rest) /\ Len(n) + 8 + i = 4 + Len(n) + (4 + i)
    BY <1>1, <1>2, <1>3
  <2>2. rest[4 + i] = key[i] /\ data[4 + Len(n) + (4 + i)] = rest[4 + i]
    BY <2>1, Zenon DEF FramedAs
  <2>3. QED
    BY <1>3, <2>1, <2>2, Zenon
<1>5. s = key
  BY <1>3, <1>4, SameBytes, Zenon
<1>6. Len(n) + 9 \in 1..Len(data)
  BY <1>1, <1>2
<1>7. QED
  BY <1>5, <1>6 DEF s

\* A session's verify_data_binding accepts exactly the framings.
LEMMA BindsFraming ==
    ASSUME NEW data \in Seq(Byte), NEW k \in Key, NEW n \in Nonces
    PROVE  Binds(data, k, n) <=> IsFraming(data, k, n)
<1> DEFINE quoted == ExtractPayload(data)
<1>1. Binds(data, k, n) <=> quoted.ok /\ quoted.nonce = n /\ FromBytes(quoted.key) = k
  BY NonceAssumption, Zenon DEF Binds
<1>2. n \in Seq(Byte)
  BY NonceFits, Zenon
<1>3. ASSUME Binds(data, k, n) PROVE IsFraming(data, k, n)
  <2> DEFINE first == TakeChunk(data)
             second == TakeChunk(first.rest)
             whole == first.ok /\ second.ok /\ second.rest = <<>>
  <2> HIDE DEF first, second, whole
  <2>1. quoted = [ok |-> whole, nonce |-> first.chunk, key |-> second.chunk]
    BY Zenon DEF ExtractPayload, first, second, whole
  <2> HIDE DEF quoted
  <2>2. quoted.ok = whole /\ quoted.nonce = first.chunk /\ quoted.key = second.chunk
    BY <2>1
  <2>3. whole /\ first.chunk = n /\ FromBytes(second.chunk) = k
    BY <1>1, <1>3, <2>2, Zenon
  <2> DEFINE key == second.chunk
  <2>4. first.rest \in Seq(Byte) /\ FramedAs(data, n, first.rest)
    BY <2>3, TakenFramed, Zenon DEF first, whole
  <2>5. key \in Seq(Byte) /\ FramedAs(first.rest, key, <<>>)
    BY <2>3, <2>4, TakenFramed, Zenon DEF second, whole
  <2>6. whole = TRUE
    BY <2>3, Zenon DEF whole
  <2>7. quoted = [ok |-> TRUE, nonce |-> n, key |-> key]
    BY <2>1, <2>3, <2>6, Zenon
  <2>8. Len(key) < Base * Base * Base * Base /\ data = Frame(n) \o Frame(key)
    BY <2>5, <2>7, ExtractExact, Zenon DEF quoted
  <2>9. FromBytes(key) = k
    BY <2>3
  <2> HIDE DEF key
  <2>10. Len(key) > 0
    BY <2>5, <2>9, NoKeyAssumption DEF FromBytes
  <2>11. Len(n) + 9 \in 1..Len(data) /\ SubSeq(data, Len(n) + 9, Len(data)) = key
    BY <1>2, <2>4, <2>5, <2>10, KeyEnds, Zenon
  <2>12. QED
    BY <2>8, <2>9, <2>11, Zenon DEF IsFraming
<1>4. ASSUME IsFraming(data, k, n) PROVE Binds(data, k, n)
  <2>1. PICK i \in 1..Len(data) :
           /\ Len(SubSeq(data, i, Len(data))) < Base * Base * Base * Base
           /\ data = Frame(n) \o Frame(SubSeq(data, i, Len(data)))
           /\ FromBytes(SubSeq(data, i, Len(data))) = k
    BY <1>4, Zenon DEF IsFraming
  <2> DEFINE key == SubSeq(data, i, Len(data))
  <2>2. key \in Seq(Byte)
    <3>1. \A d \in Seq(Byte) : \A j \in 1..Len(d) : SubSeq(d, j, Len(d)) \in Seq(Byte)
      OBVIOUS
    <3>2. QED
      BY <3>1, Zenon
  <2> HIDE DEF key
  <2>3. Len(key) < Base * Base * Base * Base /\ data = Frame(n) \o Frame(key) /\ FromBytes(key) = k
    BY <2>1, Zenon DEF key
  <2>4. quoted = [ok |-> TRUE, nonce |-> n, key |-> key]
    BY <2>2, <2>3, ExtractExact, Zenon
  <2> HIDE DEF quoted
  <2>5. quoted.ok /\ quoted.nonce = n /\ quoted.key = key
    BY <2>4
  <2>6. QED
    BY <1>1, <2>3, <2>5, Zenon
<1>5. QED
  BY <1>3, <1>4

\* A verdict is that of verify_data_binding.
BindingInv ==
    /\ verdict = "bound" => Binds(payload, csr, nonce)
    /\ verdict = "refused" => payload = <<>> \/ ~Binds(payload, csr, nonce)

\* No verdict at the start.
LEMMA InitBinding == BindingInit => BindingInv
BY DEF BindingInit, BindingInv

\* Every step keeps the verdict with the user data it is about.
LEMMA NextBinding == BindingInv /\ [BindingNext]_bindingVars => BindingInv'
<1> SUFFICES ASSUME BindingInv, [BindingNext]_bindingVars PROVE BindingInv'
  OBVIOUS
<1>1. CASE Receive
  BY <1>1 DEF Receive, BindingInv
<1>2. CASE VerifyUserData
  BY <1>2 DEF VerifyUserData, BindingInv
<1>3. CASE Answer
  BY <1>3 DEF Answer, BindingInv
<1>4. CASE UNCHANGED bindingVars
  BY <1>4 DEF bindingVars, BindingInv
<1>5. QED
  BY <1>1, <1>2, <1>3, <1>4 DEF BindingNext

\* verify_data_binding never accepts the same user data for two keys or for
\* two challenges, nor both in a session and in a unary call: the fact that
\* AvsServer and CsrValidation take for granted when they stand for user data
\* by the key and the nonce it binds.
THEOREM BindsOne == BindingSpec => []BindsOneChallenge
<1>1. BindingTypeOK /\ BindingInv => BindsOneChallenge
  BY OneChallenge DEF BindingTypeOK, BindingInv, BindsOneChallenge
<1>2. QED
  BY <1>1, InitBindingType, NextBindingType, InitBinding, NextBinding, PTL DEF BindingSpec

\* extract_payload and verify_data_binding accept, in a session, exactly the
\* framing of its nonce followed by the framing of an encoding of the CSR's
\* key, for bytes of any base and user data of any length.
THEOREM FramesExactly == BindingSpec => []FramingExact
<1>1. ASSUME BindingTypeOK, BindingInv PROVE FramingExact
  <2> SUFFICES ASSUME nonce # NoNonce, verdict \in {"bound", "refused"}
               PROVE  verdict = "bound" <=> IsFraming(payload, csr, nonce)
    BY Zenon DEF FramingExact, IsFraming
  <2>1. payload \in Seq(Byte) /\ csr \in Key /\ nonce \in Nonces
    BY <1>1 DEF BindingTypeOK
  <2>2. Binds(payload, csr, nonce) <=> IsFraming(payload, csr, nonce)
    BY <2>1, BindsFraming, Zenon
  <2>3. ~IsFraming(<<>>, csr, nonce)
    BY DEF IsFraming
  <2>4. QED
    BY <1>1, <2>2, <2>3, Zenon DEF BindingInv
<1>2. QED
  BY <1>1, InitBindingType, NextBindingType, InitBinding, NextBinding, PTL DEF BindingSpec
=============================================================================
