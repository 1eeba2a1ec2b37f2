-------------------------- MODULE MCPolicyRegistry --------------------------
(* Instances of PolicyRegistry: policies as the repository has them, with   *)
(* the names that legacy hints use, and others a bundle may hold: reference *)
(* values of each type with every field, a name given twice, no name.       *)
EXTENDS PolicyRegistry, TLC

Policy(name, type, pes, c2sp) ==
    [name |-> name, type |-> type, pes |-> [p \in pes |-> <<>>], c2sp |-> [p \in c2sp |-> ""]]

Embedded == <<
    Policy("development", "cbt", {}, {}),
    Policy("encrypted_zone", "cbt", EndorsedPaths, EndorsedPaths),
    Policy("pa-frontend-nonprod", "cbt", EndorsedPaths, {}),
    Policy("prober_ez", "cbt", FieldsOf("cbt"), FieldsOf("cbt")),
    Policy("prober", "cbt", {"kernel_layer.kernel"}, {}),
    Policy("", "cbt", {"kernel_layer.kernel"}, {}),
    Policy("prober", "cbt", EndorsedPaths, {"layer1.userspace", "layer2.binary_mpms"}),
    Policy("containers", "oak_containers", FieldsOf("oak_containers"), FieldsOf("oak_containers")),
    Policy("restricted_kernel", "other", {}, {}) >>

\* A policy for machines with Intel TDX that has the deprecated agent too.
WithIntelTdx == <<
    Policy("encrypted_zone", "cbt", EndorsedPaths \cup {"root_layer.intel_tdx.stage0"},
           EndorsedPaths \cup {"root_layer.intel_tdx.stage0", "layer1.runtime_agent"}),
    Policy("prober", "cbt", EndorsedPaths, EndorsedPaths) >>

Certificate(key) == [kind |-> "certificate", key |-> key]

Directories == {
    <<>>,
    <<[kind |-> "directory"], Certificate(1), Certificate(2)>>,
    <<Certificate(1), [kind |-> "unreadable"], Certificate(2)>> }

Symmetric == Permutations(Lookups)
=============================================================================
