# A TLA+ verification of the Attestation Verification Service

The Attestation Verification Service (AVS) receives evidence that a workload
runs in a trusted execution environment, checks it against public policies, and
issues a leaf certificate for the workload's key, signed by a certificate
authority (CA) that lives in the service and is itself certified by a Trusted
Certificate Authority (TCA). This directory models it in TLA+, checks the models
with TLC, and proves the main results with TLAPS.

## The system

| part | state | operations | module |
|---|---|---|---|
| gRPC service, `avs_server/src/server.rs` | the slot `certificate_authority` behind a tokio `RwLock`; per session a nonce, an `Arc` of the authority and a channel of capacity 1 | `certify_attestation`, `certify_attestation_stream` and the task it spawns, `generate_avs_signing_key` | `AvsServer`, `CertificateIssuance` |
| certificate authority, `ca.rs` | a key and an issuer name, raw BoringSSL pointers, each in a `Mutex`; a trust domain | `new_intermediate`, `new_root`, `generate_certificate`, `Drop` | `CertificatePrograms`, `CertificateAuthority` (memory and locks), `CertificateNames` (names), `CertificateLifetime` (validity) |
| operator identity, `operator_info.rs` | none | validation of domain and role | `CertificateNames` |
| CSR validation, `csr.rs` | none kept between requests; reads the clock | `validate_csr_request` | `CsrValidation`, `CertificateLifetime` |
| data binding, `csr.rs` | none | `extract_payload`, `verify_data_binding` | `DataBinding` |
| policies, `policies/*.rs`, `server.rs:33-97` | the registry in a `OnceLock`; certificate files of the image | selector resolution, lookup, injection of PES keys and of the C2SP verifier policy | `PolicyRegistry` |
| startup, `main.rs`, `config.rs` | configuration, readiness, the port | connect, configure, build, announce, serve | `Startup`, `Enclave` |
| TCA client, `third_party/tca-sdk` | the orchestrator client behind an async mutex | `issue_certificate` | `TcaClient`, `Enclave` |

How they interact: a certification reads the slot, resolves the request's
selector to a policy name and a certificate profile (`PolicyRegistry`),
validates the CSR and the evidence (`CsrValidation`, whose data binding is
`DataBinding`) and signs with the authority (`CertificateAuthority`). A rotation
creates an authority, awaits the TCA without the lock (`TcaClient`), and assigns
the slot under the write lock. `main` serves all this once it is configured
(`Startup`). A unary call keeps its read guard from reading the slot to its
answer. A session clones the `Arc`, releases the lock and may live much longer.

What is hard here: rotations that race with calls and sessions; calls cancelled
at any await; a TCA or a client that never answers; a client that pipelines its
messages or reuses evidence; an authority whose last owner is not known in
advance; error paths of some fifty BoringSSL calls that no test can make fail;
endorsement windows that close while a request is verified; user data whose
framing decides what it binds; names put together from parts; a mutex held while
another process is asked; a process that announces itself before it listens.
`PROJECT.json` lists these hazards at the lines where they bite.

## Modules

`AvsServer` has one action per stretch of a handler between two awaits. The
variables `ca`, `waiters` and `readers` are the slot and its lock; `pc`, `status`
and `authority` are the calls; `nonce`, `out`, `chan`, `received` and `gone` are
the sessions; `attested` is all evidence that workloads have produced and
`issued` every leaf signed. An authority is named by the rotation that created
it. A request is its CSR key, its evidence and the first check it fails; the
handlers' checks keep their order and their status codes. An abandoned call
leaves the queue of the lock. Evidence for a nonce appears only after some client
received that nonce, which is what random 32-byte nonces mean.

`CertificateIssuance` is the promise: one active authority, replaced by rotations
by one never active before; unary certification with the active one, in one step;
at most one certificate per session, with the authority that was active when it
opened. `AvsServer!IssuanceSpec` is that specification under the mapping
`active <- ca`, `installed <-` the rotations answered `Ok`,
`bound <-` the sessions' authorities.

`CertificatePrograms` turns each function of `ca.rs` into a sequence of steps
with the objects each step uses, makes and frees, what its error path frees, and
the mutex it takes. `Call` adds what the caller frees, or what Rust drops, when
the callee fails. Ownership that passes to another object ends the first object's
own life in `heap`. Adjacent calls with the same objects and the same error path
are one step. `CertificateAuthority` runs these programs on concurrent threads:
`StepOk` and `StepFails` are their steps. A unary call certifies from `Begin`,
where it takes the read guard, to `Return`, without an await. A session clones its
`Arc` in `Open` and waits for its client; it certifies from `Start`, when the
certify request arrives, to `Answer`, where the guards are gone and the channel is
awaited; `Close` ends it, at whichever await it is. `Install` and `Dropped` are the
slot's `Arc` and the last one. One simplification: the identity that a session
validated is freed with its certification, and not when the answer was sent.

`CsrValidation` runs the checks of `validate_csr_request` one at a time while
`Tick` moves the clock, and the validity loop one iteration at a time. What the
Oak verifiers answer is part of the request. `DataBinding` is the binding check
over bytes; `AvsServer!Bound` and `CsrValidation`'s `binds` are what it
establishes: user data binds at most one key and one challenge. The names of its
state machine begin with `Binding`, so that one module can reason about both.

`CertificateLifetime` extends `CsrValidation` with the authority in the slot and
the one the request refers to, each with its validity, and lets rotations replace
the first at any time. It is about self-signed authorities, whose validity the
code sets; a TCA decides that of an intermediate.

`CertificateNames` has the validators of `operator_info.rs`, the SPIFFE and DNS
names of `ca.rs` and the scan for the trust domain, over sequences of characters
(letters, the separators, and the bytes of the encoding). Its actions are
rotations, which change the trust domain, and unary and session certifications.
`HostName` and `IsTrustDomainOf` say what the code computes without following how
it does.

`TcaClient` is a rotation from the CSR to the slot: `Sign`, `TakeAttester`,
`FetchEvidence`, `Connect`, `Answer`, `Install`, with `queue` and `attester` for
the mutex of the orchestrator client and `Cancel` at every await. `Startup` is
`main`, with `file` for what the orchestrator hands out. `Enclave` composes the
two: calls arrive when the port is bound. Its `Server` is `AvsServer` without
certification calls, under the mapping that makes every label between the CSR and
the answer the one label `await_tca`.

`PolicyRegistry` names reference values by their paths and runs concurrent
lookups over one registry. `FieldsOf` is what a message of Oak can have,
`get_pes_fields` and `get_c2sp_fields` what the two injections visit, and
`EndorsedPaths` where the policy files have endorsements; the three differ, see
finding 3. The configuration and the certificate directory are arbitrary and
fixed, as in the running image.

Each specification has an `MC` module with the definitions its `.cfg` files use.
Operators marked "Mutant" in a comment are plausible wrong versions of the
definition that follows them. They appear in no specification; each property is
known to fail when one of them takes the definition's place.

## Runs

| run | configuration | shows |
|---|---|---|
| `avs_rotation` | 2 unary slots, 1 session, 2 rotations, TCA, fair | `LeafChainsToItsIssuer`, `UnaryUsesActiveKey`, refinement `IssuanceSpec`, `CertifyAnswered`, `InstallNotStarved`, `AbandonedSessionReleased` |
| `avs_sessions` | 2 sessions, 1 unary slot, 2 nonces, self-signed | `CertifiedAfterChallenge`, `EvidenceNotReplayed`, `SessionTranscript` |
| `avs_stale_session` | 1 session, 1 unary slot, 2 rotations | violates `NewKeyUsedHenceforth`: a finding |
| `ca_rotation` | 1 unary call, 2 sessions, 2 rotations with a TCA | `NothingDangles`, `NothingLeaks`, `HolderNeverWaits` |
| `ca_self_signed` | 1 unary call, 1 session, 1 self-signed authority, fair | `PointersUsedExclusively`, `NothingLeaks`, `CertificationReturns` |
| `csr_requests` | all lists of up to 2 windows, every failing check, user data in every place, rotations, clock 0..2 | `WindowIsIntersection`, `RefusedOnlyIfEmpty`, `AcceptedWindowLive`, `AcceptedIsBound`, `LeafWithinIssuer` |
| `csr_fallback` | endorsements longer than the fallback | violates `FallbackOnlyWithoutWindows`: a finding |
| `enclave` | 3 rotations, 6 kinds of configuration file, fair | `TypeOK` (queues), `AttesterGuarded`, `ReadyAsConfigured`, refinement `ImplementsServer`, `StartupCompletes`, `AttesterNotStarved` |
| `names` | domains of up to 5 and roles of up to 4 characters, 2 policies, TCA certificates with up to 2 names of 5 kinds | `AdmitsHostNames`, `NameIdentifies`, `NamedByItsIssuer`, `TrustDomainExact` |
| `binding` | all user data of up to 13 one-bit bytes | `BindsOneChallenge`, `FramingExact` |
| `policy_lookups` | 2 lookups, every selector, configuration and directory | `LookupIsolated`, `RegistryPristine`, `DevelopmentGated`, `HintsNamePolicies` |
| `policy_injection` | a policy with endorsements for Intel TDX and in a deprecated field | violates `InjectedEverywhere`: a finding |

Bounds. Two rotations are enough for a slot to be replaced while it is in use,
and unary slots are reused, so calls are unbounded in time. Two sessions are
enough for evidence to travel from one to another. Bytes of one bit and nonces of
two bytes keep four-byte headers, so every combination of lengths up to 13 bytes
occurs, which covers a nonce frame (6) and a key frame of up to 7. Windows lie
before, at and after the clock and the fallback limit. The policies of
`MCPolicyRegistry` are written by hand: those the hint table names, with the paths
the policy files use, then one of each type with every field, a name given twice
and a missing one, which the build tool does not exclude. So `HintsNamePolicies`
is about the hint table and the names it uses; a policy file that is renamed has
to be renamed in `MCPolicyRegistry` for the run to notice. Domains and roles go one
character beyond limits of 4 and 3, so both limits bite with dots and hyphens
everywhere; one letter is enough, because names are to differ in structure. Three
rotations let one hold the attester, one wait for the TCA and one queue. Each run
of `CsrValidation` is one request, as nothing is kept between requests. The clock
does not go back. The proofs remove the bounds
for the results they cover.

Fairness. The tokio runtime polls every task that is ready, so the steps of
handlers and tasks are weakly fair, and an abandoned stream yields its end. A
tokio `RwLock` is first come first served, which the model states and
`InstallNotStarved` needs; so is the tokio `Mutex` of the orchestrator client, for
`AttesterNotStarved`. The orchestrator, which runs beside the process, is assumed
to answer or fail. Nothing is assumed of the TCA or of clients. The
threads that sign are scheduled, as there is no await between the start and the
end of a certification; whether a session's client ever sends its certify request
or reads the answer is left open. A `std::sync::Mutex` is not fair, so
`CertificationReturns` excludes the behaviours in which other certifications keep
starting for ever.

## Findings

1. A session opened before a rotation signs with the retired key after the
   rotation was answered, where the service definition says that the new key is
   used henceforth (`proto/attestation_verification.proto:37-39`). The chain it
   returns is the retired key's own, so the answer is consistent.
2. The fallback validity of 90 days also limits certificates with endorsements,
   where the function's comment says that it applies when there are none
   (`csr.rs:220-222`).
3. For reference values of type `cbt` neither injection visits
   `root_layer.intel_tdx.stage0`, which both visit in Oak Containers values, and
   the one for C2SP does not visit the deprecated `layer1.runtime_agent`; the
   comments say all fields (`pes.rs:90-91`, `c2sp.rs:70-71`, `policy.rs:67-69`).
   Neither visits what the kernel layer has beside the kernel and `init_ram_fs`.
   No policy of the repository has an endorsement at any of these paths, so
   `LookupIsolated` claims the injection for the paths that they use.

Remarks that are no findings. `generate_certificate` holds the name's mutex until
it returns, so the key's mutex, taken later, is never contended
(`HolderNeverWaits`). Nothing bounds
the age of an authority: one that has served longer than its validity less the
fallback gives leaves that outlive its certificate, which is why
`LeafWithinIssuer` has a condition. `NameIdentifies` needs publisher names without
a slash (`PublishersAssumption`); they come from the bundle, and the server does
not look at them. For the same reason `NamedByItsIssuer` holds only if the
identities in policies hold no second `spiffe://`; the theorem about it asks that
they hold no colon, and none of the repository's policies does.

## Proofs

`AvsServerProofs`, for any finite or infinite sets of calls, keys and nonces:

- `TypeCorrect`, with `AuthorityInv`: a call that is being served has an
  authority.
- `LeafChains` and `UnaryActive` rest on `IssueInv`: the slot, the authority of
  every call and the issuer of every leaf were installed, and a unary call that
  holds the read guard has the authority in the slot. The last part is what makes
  the action property inductive; it holds because `Install` needs `readers = {}`.

`AvsSessionProofs`, likewise:

- `ChallengedFirst` and `NotReplayed` rest on `FreshInv`: sessions have distinct
  nonces, a challenge in a channel or a transcript is that session's nonce,
  framed evidence exists only for received challenges, and a session's leaf is
  for its own nonce.
- `Transcripts` rests on `TranscriptInv`, which gives for each label of the task
  what the session has sent so far, split anywhere between client and channel,
  and what it is about to send. The property alone is not inductive: it does not
  say that the challenge was sent when the certificate is.

- `ImplementsIssuance`: every step of the service is a step of
  `CertificateIssuance` or a stutter. It uses `IssueInv` and one more invariant,
  that a session that has not reached signing has issued nothing.

`CertificateProgramProofs` and `CertificateAuthorityProofs`, for any number of
unary calls, sessions and rotations, and whichever BoringSSL call fails:

- `PointersLive` (`NothingDangles`), `HeapClean` (`NothingLeaks`),
  `PointersExclusive` (`PointersUsedExclusively`) and `NoDeadlock`
  (`HolderNeverWaits`).
- The programs come first. `Balanced(p, keep, pre, k, post, m)` says that `p`,
  started when the thread owns `pre` and holds the mutexes `k`, finds every object
  it touches alive, ends with `post` and `m`, and after a failure at any step
  leaves exactly `keep`. It also says that the mutexes are taken in order: none
  twice, and the key's only under the name's (`InOrder`). It has a law for one step, for `p \o q` and for `Call`, and
  with these one lemma for each function of `ca.rs` in the order of the calls.
  For a certification `pre`, `post` and `keep` are empty; the creation of an
  authority ends with its key and its name.
- From this each program has an outline: the objects and the mutexes before each
  step. The invariant `CAInv` then says that the heap is exactly what the outlines
  give at every thread's place (`HeapExact`, both inclusions: one is
  `NothingDangles`, the other `NothingLeaks`), that what the slot and the calls
  refer to is installed (`RefsInstalled`), without which an object of an authority
  could be gone while a call still uses it, and that held mutexes are those of the
  outline and no two calls hold the same one (`LocksExclusive`). From the order of
  the programs and exclusive locks `NoDeadlock` follows: who holds a mutex holds the
  name's, so no other call on the same authority holds any. None of the
  properties is inductive alone: `NothingDangles` does not say that the *next*
  step will find what it needs, and `NothingLeaks` does not say what a failing step
  has to free.

`EnclaveProofs`, for any rotations and configuration files: `QueuesExact` and
`AttesterExclusive` from the invariant that each of the two queues holds exactly
the calls that wait in it, once each, and the guard exactly the call that fetches
evidence; `ReadyMeansConfigured` from what is known of the configuration in each
phase of `main`; and `ClientImplementsServer`, step by step, from the first of
these. The proof about queues is about sequences without repetition from which
any element may be removed.

`CsrValidationProofs` proves `ValidationTyped`, `WindowCorrect`,
`RefusalsJustified` and `AcceptedLive`, for any list of results, any times and any
fallback, from the loop invariant that the window is exactly the set of
times allowed by the results visited so far; `AcceptedBound`, from the fact that a
request past the binding check passed it on these results; and `LeafLifetime`,
from the loop invariant and the order in which things happen: the authority was
made before the request took it, and the request took it before it read the
clock.

`CertificateNamesProofs` proves `OperatorsExact`, for domains, roles and limits of
any length: cutting a domain at its dots and checking each label is the same as
looking at adjacent characters. It proves `NamesIdentify` by cutting equal names
at their first separators, part by part, from the left; for DNS names the trust
domain is cut off at the right. `NamedByIssuer`, under the hypothesis that the
identities in policies hold no colon, goes through the bytes of the extension: a
place where the scheme matches has a colon and then two slashes, which the header,
the trust domain (free of slashes, and followed by a slash and a letter) and the
path do not offer, so there is one match; what follows it up to the next slash is
the trust domain, all of it printable. `TrustDomainRead` is about the other
direction, a TCA certificate with any number of names of any length, under the
hypothesis that each name is printable and has the scheme, its length byte included,
at its start or nowhere (`TcaNamesPlain`, which the run's names satisfy). A match
contains no tag, because a tag is not printable, so it lies within one encoded name;
so the matches are exactly the starts of the SPIFFE IDs, and the ID read from a match
ends at the next tag or at the end. What the recursive encoding computes is proved by
taking the shortest prefix of the names for which it would be wrong.

`PolicyRegistryProofs` proves `LookupsIsolated`, `RegistryUnchanged` and
`DevelopmentClosed`, for any bundle, files and lookups, from
one invariant: the registry is empty or the bundle's, and what a lookup has in
hand is a function of its own request and its label. The first also needs that both
injections visit every path of `EndorsedPaths` that a type has
(`EndorsedPathsVisited`). `HintsRecognized` has the
hypothesis that the bundle holds the five policies that the hint tables name,
which the policy files do; other policies may be missing or given twice.

Two theorems about `DataBinding` are in `CsrValidationProofs` as well. `BindsOne`,
for bytes of any base and nonces shorter than the cube of the base: the header of
a frame then starts with a zero byte and a DER key with its tag, so user data
framed for a session is never a bare key. `FramesExactly`: the four digits of a
header determine the length and are determined by it, so `extract_payload` succeeds
exactly on two frames with nothing after them. The proof attempt showed that
`FramingExact` has to say that the key's length fits in four bytes; a longer
encoding has no frame of its own, and no run reaches one.

The assumptions are the named `ASSUME`s of the modules. They say that sets of
calls are disjoint, that "no value" constants are not values, that inputs have
their types (`RequestsAssumption`, `FilesAssumption`, `BundleAssumption`,
`InputsAssumption`, `SansAssumption`), that separators are not letters, that some
byte is not printable, that the service's own words hold no separator and the first
of a SPIFFE path is not empty, and that publisher names hold no slash. For
`DataBinding` they say that the tag of a DER sequence is not zero and that nonces are
short: the code has 256, 0x30 and 32.

Only model-checked: everything under fairness (`CertifyAnswered`,
`InstallNotStarved`, `AbandonedSessionReleased`, `CertificationReturns`,
`StartupCompletes`, `AttesterNotStarved`), which is out of the prover's reach.

## Not modelled

- Cryptography, X.509 and DER contents other than names and validity, attestation
  verification by Oak.
- Poisoned mutexes: no code panics while it holds a guard.
- Failures of `RAND_bytes`, whose result the code ignores.
- Log output, transparency log results, error texts.
- `bundle_policies.rs`: it reads files and writes one message at build time, with
  nothing beside it and no state; what it does not check is in the bundles that
  `PolicyRegistry` allows.
- Generated code and re-exports; `get_ca_certificate_chain`, a reader of the slot.
- The lifetime of an authority that a TCA certified; a `spiffe://` inside another
  name of the TCA's certificate, which the scan would take for an ID.

## What is left

Every part with state or decisions of its own has its module, and every safety
property of a passing run its theorem. Three theorems have a hypothesis of their own,
which the runs' instances meet: `HintsRecognized`, `NamedByIssuer` and
`TrustDomainRead`.
