------------------------- MODULE MCCertificateNames -------------------------
(* CertificateNames over one letter, so that names differ only in structure. *)
EXTENDS CertificateNames, SequencesExt

a == <<"a">>

Strings(n) == BoundedSeq({"a", Dash, Dot, Slash}, n)

\* Every domain with two roles is not needed: each of the two is enumerated
\* against a few values of the other.
MCOperators ==
    [domain: Strings(MAX_DOMAIN_LEN + 1), role: {a}]
      \cup [domain: {a, a \o <<Dot>> \o a}, role: Strings(MAX_LABEL_OR_ROLE_LEN + 1)]

MCPolicies ==
    {[rules |-> MCOperators, publisher_domain |-> a, publisher_role |-> a, workload_name |-> a],
     [rules |-> [domain: {a}, role: {a}], publisher_domain |-> a \o a, publisher_role |-> a,
      workload_name |-> a]}

\* SPIFFE IDs with and without a path, one without a trust domain, another
\* URI and a DNS name.
MCNames ==
    {<<"a", Colon, Slash, Slash, "a", Slash, "a">>,
     <<"a", Colon, Slash, Slash, "a", Dot, "a">>,
     <<"a", Colon, Slash, Slash, Slash, "a">>,
     <<"b", Colon, Slash, Slash, "a">>,
     <<"a", Dot, "a">>}

MCTcaSans == BoundedSeq(MCNames, 2)

MCTrustDomain == <<"b", Dot, "b">>
=============================================================================
