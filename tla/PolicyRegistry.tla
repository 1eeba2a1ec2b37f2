--------------------------- MODULE PolicyRegistry ---------------------------
(***************************************************************************)
(* How a request selects its policy: resolve_policy_request of             *)
(* avs_server/src/server.rs, the registry of avs_server/policies/policy.rs *)
(* and the values that pes.rs and c2sp.rs inject into each policy handed   *)
(* out.  Lookups run concurrently over one process-wide registry.          *)
(*                                                                         *)
(* A reference value is named by its path in the policy.  A policy maps    *)
(* the paths where it has a `pes` value to that value's keys, and those    *)
(* where it has a `c2sp` value to its verifier policy.                     *)
(***************************************************************************)
EXTENDS Naturals, Sequences

CONSTANTS Lookups,      \* concurrent requests
          Roles,        \* operator roles
          Bundle,       \* the embedded PolicyBundle, a sequence of policies
          CertDirs,     \* contents of etc/pes-certs the image may ship
          NoRegistry, NoPolicy

VARIABLES
    config,     \* PoliciesConfig; never changes
    certs,      \* what the glob over etc/pes-certs yields, in order; never changes
    registry,   \* the OnceLock: NoRegistry, or policies by name
    pc,         \* where each lookup is
    selector,   \* the selector of its request
    selection,  \* the policy name and profile it resolves to
    policy      \* its copy of the policy

vars == <<config, certs, registry, pc, selector, selection, policy>>

RootPaths == {"root_layer.amd_sev.stage0", "root_layer.intel_tdx.stage0"}
KernelPaths == {"kernel_layer.kernel", "kernel_layer.init_ram_fs", "kernel_layer.memory_map",
                "kernel_layer.acpi", "kernel_layer.kernel_cmd_line_text"}

\* Where reference values of a type can have an endorsement, and with it a
\* `pes` or a `c2sp` value: the fields of Oak's messages that the code or the
\* policy files name.
FieldsOf(type) ==
    CASE type = "cbt" ->
            RootPaths \cup KernelPaths
            \cup {"layer1.runtime_agent", "layer1.runtime_agent_binary", "layer1.userspace",
                  "layer2.binary_mpm", "layer2.binary_mpms"}
      [] type = "oak_containers" ->
            RootPaths \cup KernelPaths
            \cup {"system_layer.system_image", "container_layer.binary",
                  "container_layer.configuration"}

PoliciesConfig == [include_development_policy: BOOLEAN, enable_c2sp_tlog: BOOLEAN]

\* The reference values of a policy are of one type and have fields of its
\* message only.
ASSUME BundleAssumption ==
    /\ Len(Bundle) \in Nat /\ DOMAIN Bundle = 1..Len(Bundle)
    /\ \A i \in DOMAIN Bundle :
        LET p == Bundle[i] IN
        /\ p = [name |-> p.name, type |-> p.type, pes |-> p.pes, c2sp |-> p.c2sp]
        /\ p.type \in {"cbt", "oak_containers"} =>
             DOMAIN p.pes \cup DOMAIN p.c2sp \subseteq FieldsOf(p.type)

Profiles == {"Unrestricted", "Mtls", "Tls"}
Hints == {"Unspecified", "EzEnforcerCbCertificate", "EzTsmCbFrontendCertificate",
          "ProberCbCertificate", "DevelopmentCbCertificate", "DevelopmentMtlsCbCertificate",
          "DevelopmentTlsCbCertificate"}

BundleNames == {Bundle[i].name : i \in DOMAIN Bundle}

\* The selector of a request; names are those of the bundle, none, or unknown.
Selectors ==
    {[kind |-> "none"]}
    \cup [kind: {"parameters"}, name: BundleNames \cup {"", "unknown"},
          profile: Profiles \cup {"Unspecified"}]
    \cup [kind: {"hint"}, hint: Hints]

-----------------------------------------------------------------------------
(* Selecting a policy.                                                     *)

Selection(name, profile) == [ok |-> TRUE, name |-> name, profile |-> profile]
NoSelection == [ok |-> FALSE, name |-> "", profile |-> "Unspecified"]

EnforcerPolicy(role) ==
    CASE role \in {"prober", "prober-staging"} -> "prober_ez"
      [] role = "pa-frontend-nonprod"          -> "pa-frontend-nonprod"
      [] OTHER                                 -> "encrypted_zone"

\* Mutant: the enforcer hint names the policy after the role.
HintByRole(hint, role) ==
    CASE hint = "Unspecified"                -> NoSelection
      [] hint = "EzEnforcerCbCertificate"    -> Selection(role, "Mtls")
      [] hint = "EzTsmCbFrontendCertificate" -> Selection("encrypted_zone", "Tls")
      [] hint = "ProberCbCertificate"        -> Selection("prober", "Unrestricted")
      [] OTHER                               -> Selection("development", "Unrestricted")

resolve_legacy_hint(hint, role) ==
    CASE hint = "Unspecified"                  -> NoSelection
      [] hint = "EzEnforcerCbCertificate"      -> Selection(EnforcerPolicy(role), "Mtls")
      [] hint = "EzTsmCbFrontendCertificate"   ->
            Selection(IF role = "pa-frontend-nonprod" THEN role ELSE "encrypted_zone", "Tls")
      [] hint = "ProberCbCertificate"          -> Selection("prober", "Unrestricted")
      [] hint = "DevelopmentCbCertificate"     -> Selection("development", "Unrestricted")
      [] hint = "DevelopmentMtlsCbCertificate" -> Selection("development", "Mtls")
      [] hint = "DevelopmentTlsCbCertificate"  -> Selection("development", "Tls")

resolve_policy_request(s, role) ==
    CASE s.kind = "none"       -> NoSelection
      [] s.kind = "parameters" ->
            IF s.name = "" \/ s.profile = "Unspecified"
              THEN NoSelection
              ELSE Selection(s.name, s.profile)
      [] s.kind = "hint"       -> resolve_legacy_hint(s.hint, role)

-----------------------------------------------------------------------------
(* The registry and the injected values.                                   *)

\* Collecting into a map keeps the last policy of a name.
LastOf(name) ==
    Bundle[CHOOSE i \in DOMAIN Bundle :
              Bundle[i].name = name /\ \A j \in (i + 1)..Len(Bundle) : Bundle[j].name # name]

build_policy_registry == [n \in BundleNames \ {""} |-> LastOf(n)]

\* Mutant: the gate is not there.
GateOpen(name) == TRUE

DevelopmentGate(name) == name # "development" \/ config.include_development_policy

\* A file of the directory holds a certificate with a key, or cannot be read
\* or parsed; subdirectories are skipped.
FilesOf(directory) == SelectSeq(directory, LAMBDA f : f.kind # "directory")

Files == FilesOf(certs)

CertificateParses(f) == f.kind = "certificate"

\* load_certificates and load_rsa_sha2_256_keyset: one bad file fails the lookup.
LoadKeys ==
    [ok |-> \A i \in DOMAIN Files : CertificateParses(Files[i]), keys |-> Files]

\* The paths that both injections visit, of each type.
VisitedOfCbt ==
    {"root_layer.amd_sev.stage0", "kernel_layer.kernel", "kernel_layer.init_ram_fs",
     "layer1.runtime_agent_binary", "layer1.userspace", "layer2.binary_mpm", "layer2.binary_mpms"}

VisitedOfOakContainers ==
    RootPaths \cup {"kernel_layer.kernel", "kernel_layer.init_ram_fs", "system_layer.system_image",
                    "container_layer.binary", "container_layer.configuration"}

\* Mutant: the agent's binary is forgotten.
PesPathsButOne(type) ==
    CASE type = "cbt"            -> VisitedOfCbt \ {"layer1.runtime_agent_binary"}
      [] type = "oak_containers" -> VisitedOfOakContainers
      [] OTHER                   -> {}

get_pes_fields(type) ==
    CASE type = "cbt"            -> VisitedOfCbt \cup {"layer1.runtime_agent"}
      [] type = "oak_containers" -> VisitedOfOakContainers
      [] OTHER                   -> {}

get_c2sp_fields(type) ==
    CASE type = "cbt"            -> VisitedOfCbt
      [] type = "oak_containers" -> VisitedOfOakContainers
      [] OTHER                   -> {}

Overwrite(f, fields, value) == [p \in DOMAIN f |-> IF p \in fields THEN value ELSE f[p]]

\* With no certificate nothing is injected.
inject_pes_keys(clone) ==
    IF Files = <<>> THEN clone
    ELSE [clone EXCEPT !.pes = Overwrite(@, get_pes_fields(clone.type), LoadKeys.keys)]

inject_c2sp_policy(clone) ==
    IF config.enable_c2sp_tlog
      THEN [clone EXCEPT !.c2sp = Overwrite(@, get_c2sp_fields(clone.type), "prod_verifier")]
      ELSE clone

-----------------------------------------------------------------------------
(* The lookups.                                                            *)

Init ==
    /\ config \in PoliciesConfig
    /\ certs \in CertDirs
    /\ registry = NoRegistry
    /\ pc = [l \in Lookups |-> "idle"]
    /\ selector = [l \in Lookups |-> [kind |-> "none"]]
    /\ selection = [l \in Lookups |-> NoSelection]
    /\ policy = [l \in Lookups |-> NoPolicy]

Goto(l, label) == pc' = [pc EXCEPT ![l] = label]

Request(l) ==
    /\ pc[l] = "idle"
    /\ \E s \in Selectors, role \in Roles :
         LET resolved == resolve_policy_request(s, role) IN
         /\ selector' = [selector EXCEPT ![l] = s]
         /\ selection' = [selection EXCEPT ![l] = resolved]
         /\ Goto(l, IF resolved.ok THEN "look_up" ELSE "invalid_selector")
    /\ UNCHANGED <<registry, policy>>

\* The gate, then get() on the registry, which the first caller builds.
LookUp(l) ==
    LET name == selection[l].name IN
    /\ pc[l] = "look_up"
    /\ IF ~DevelopmentGate(name)
         THEN /\ Goto(l, "not_supported")
              /\ UNCHANGED <<registry, policy>>
         ELSE LET policies == IF registry = NoRegistry THEN build_policy_registry ELSE registry IN
              /\ registry' = policies
              /\ IF name \in DOMAIN policies
                   THEN /\ Goto(l, "inject_pes")
                        /\ policy' = [policy EXCEPT ![l] = policies[name]]
                   ELSE /\ Goto(l, "unrecognized")
                        /\ UNCHANGED policy
    /\ UNCHANGED <<selector, selection>>

\* Mutant: the keys are injected into the registry's own policy.
StorePesInPlace(l, injected) ==
    /\ policy' = [policy EXCEPT ![l] = injected]
    /\ registry' = [registry EXCEPT ![injected.name] = injected]

\* The policy was cloned: the registry keeps its own.
StorePes(l, injected) ==
    /\ policy' = [policy EXCEPT ![l] = injected]
    /\ UNCHANGED registry

InjectPes(l) ==
    /\ pc[l] = "inject_pes"
    /\ IF LoadKeys.ok
         THEN Goto(l, "inject_c2sp") /\ StorePes(l, inject_pes_keys(policy[l]))
         ELSE Goto(l, "bad_certificate") /\ UNCHANGED <<registry, policy>>
    /\ UNCHANGED <<selector, selection>>

InjectC2sp(l) ==
    /\ pc[l] = "inject_c2sp"
    /\ Goto(l, "found")
    /\ policy' = [policy EXCEPT ![l] = inject_c2sp_policy(@)]
    /\ UNCHANGED <<registry, selector, selection>>

Failed == {"invalid_selector", "not_supported", "unrecognized", "bad_certificate"}

\* The request is done with the policy, or was refused.
Finish(l) ==
    /\ pc[l] \in Failed \cup {"found"}
    /\ Goto(l, "idle")
    /\ selector' = [selector EXCEPT ![l] = [kind |-> "none"]]
    /\ selection' = [selection EXCEPT ![l] = NoSelection]
    /\ policy' = [policy EXCEPT ![l] = NoPolicy]
    /\ UNCHANGED registry

Next ==
    /\ UNCHANGED <<config, certs>>
    /\ \E l \in Lookups : Request(l) \/ LookUp(l) \/ InjectPes(l) \/ InjectC2sp(l) \/ Finish(l)

Spec == Init /\ [][Next]_vars

-----------------------------------------------------------------------------
(* Properties.                                                             *)

\* The policy of a name that stands last in the bundle.
Source(name) ==
    LET places == {i \in DOMAIN Bundle : Bundle[i].name = name} IN
    Bundle[CHOOSE i \in places : \A j \in places : j <= i]

\* Where the policies of the repository have endorsements: stage0, kernel and
\* init_ram_fs, the agent and the workloads.  All else they skip.
EndorsedPaths == {"root_layer.amd_sev.stage0", "kernel_layer.kernel", "kernel_layer.init_ram_fs",
                  "layer1.runtime_agent_binary", "layer2.binary_mpms"}

\* The values of one kind that a policy hands out, given those of the bundle:
\* each is the bundle's or the injected one, and where policies have
\* endorsements it is the injected one.
InjectedOver(values, source, injects, injected) ==
    /\ DOMAIN values = DOMAIN source
    /\ \A p \in DOMAIN source :
         /\ values[p] = source[p] \/ (injects /\ values[p] = injected)
         /\ injects /\ p \in EndorsedPaths => values[p] = injected

\* However lookups interleave, the policy one gets depends only on its own
\* request: it is the bundle's policy with the keys of every certificate file,
\* none left out, in each `pes` value, and with the verifier policy in each
\* `c2sp` value, that it has at a path the policies of the repository use.
\* Nothing else in it has changed or was injected for another request.
LookupIsolated ==
    \A l \in Lookups : pc[l] = "found" =>
        LET source == Source(selection[l].name)
            typed  == source.type \in {"cbt", "oak_containers"} IN
        /\ policy[l].name = source.name /\ policy[l].type = source.type
        /\ InjectedOver(policy[l].pes, source.pes, typed /\ Files # <<>>, Files)
        /\ InjectedOver(policy[l].c2sp, source.c2sp, typed /\ config.enable_c2sp_tlog, "prod_verifier")

\* The registry that all requests share has every policy of the bundle with a
\* name and no other, as it stands in the bundle, before and after any
\* injection.
RegistryPristine ==
    registry # NoRegistry =>
        /\ DOMAIN registry = BundleNames \ {""}
        /\ \A n \in DOMAIN registry : registry[n] = Source(n)

\* Without include_development_policy no selector, explicit or legacy, leads
\* to the development policy.
DevelopmentGated ==
    ~config.include_development_policy => \A l \in Lookups : policy[l] # NoPolicy => policy[l].name # "development"

\* Every legacy hint names a policy that the bundle contains, whatever the
\* operator's role: only an explicit policy name can be unrecognized.
HintsNamePolicies ==
    \A l \in Lookups : pc[l] = "unrecognized" => selector[l].kind = "parameters"

\* "all present `pes` fields" and "every C2SP tlog reference value": with
\* certificates and the log enabled, each value of a policy is injected.  (The
\* code passes over root_layer.intel_tdx of a cbt policy, over what the kernel
\* layer has beside its two binaries, and for `c2sp` over the deprecated
\* layer1.runtime_agent.)
InjectedEverywhere ==
    Files # <<>> /\ config.enable_c2sp_tlog => \A l \in Lookups : pc[l] = "found" =>
        /\ \A p \in DOMAIN policy[l].pes : policy[l].pes[p] = Files
        /\ \A p \in DOMAIN policy[l].c2sp : policy[l].c2sp[p] = "prod_verifier"
=============================================================================
