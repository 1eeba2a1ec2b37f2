--------------------------- MODULE MCCsrValidation ---------------------------
(* Instances of CsrValidation and CertificateLifetime for TLC.             *)
EXTENDS CertificateLifetime, SequencesExt

CONSTANTS good, bad, op1, op2

Base == [csr_valid |-> TRUE, binds |-> good, known |-> TRUE, operator |-> op1, rules |-> {op1},
         values |-> "cbt", platform |-> "amd_sev_snp", success |-> TRUE, results |-> <<>>,
         user_data |-> NoPayload]

Bare(p) == [payload |-> p, not_before |-> NoTime, not_after |-> NoTime]

\* Windows that overlap, are disjoint, open, reversed, or already closed.
Windows == [payload: {NoPayload, good}, not_before: {NoTime, 1, 3}, not_after: {NoTime, 1, 3}]

WindowRequests ==
    {[Base EXCEPT !.results = <<Bare(good)>> \o rs] : rs \in BoundedSeq(Windows, 2)}

BindingRequests ==
    {[Base EXCEPT !.results = rs, !.values = v, !.user_data = u] :
        rs \in BoundedSeq({Bare(p) : p \in Payload}, 2), v \in {"cbt", "oak_containers"}, u \in Payload}

CheckRequests ==
    {[Base EXCEPT !.csr_valid = c, !.known = k, !.operator = o, !.values = v, !.platform = p, !.success = s,
                  !.results = <<Bare(good)>>, !.user_data = good] :
        c \in BOOLEAN, k \in BOOLEAN, o \in {op1, op2}, v \in Values, p \in Platforms, s \in BOOLEAN}

AllRequests == WindowRequests \cup BindingRequests \cup CheckRequests
UserData == {good, bad}
BothOperators == {op1, op2}
Times == 0..6
=============================================================================
