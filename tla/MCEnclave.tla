----------------------------- MODULE MCEnclave -----------------------------
(* Enclave with configuration files of every kind. *)
EXTENDS Enclave

Json(set) == [kind |-> "json", set |-> set]
NoField == [f \in {} |-> TRUE]

MCFiles ==
    {[kind |-> "empty", set |-> NoField], [kind |-> "broken", set |-> NoField], Json(NoField),
     Json([use_self_signed_cert |-> TRUE]),
     Json([use_self_signed_cert |-> FALSE, tca_endpoint |-> "test", enable_c2sp_tlog |-> TRUE]),
     Json([include_development_policy |-> FALSE])}
=============================================================================
