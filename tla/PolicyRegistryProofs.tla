------------------------ MODULE PolicyRegistryProofs ------------------------
(***************************************************************************)
(* Lookups do not disturb each other, for any bundle, any certificate      *)
(* directory and any number of concurrent requests.                        *)
(***************************************************************************)
EXTENDS PolicyRegistry, WellFoundedInduction, TLAPS

-----------------------------------------------------------------------------
(* The registry is the bundle.                                             *)

\* Some policy of a name stands last in the bundle.
LEMMA LastExists ==
    ASSUME NEW name \in BundleNames
    PROVE  \E i \in DOMAIN Bundle :
              /\ Bundle[i].name = name
              /\ \A j \in DOMAIN Bundle : Bundle[j].name = name => j <= i
<1> DEFINE n == Len(Bundle)
           T == {m \in Nat : n - m \in DOMAIN Bundle /\ Bundle[n - m].name = name}
<1>1. n \in Nat /\ DOMAIN Bundle = 1..n
  BY BundleAssumption
<1>2. PICK i \in DOMAIN Bundle : Bundle[i].name = name
  BY DEF BundleNames
<1>3. n - i \in T
  <2>1. n - i \in Nat /\ n - (n - i) = i
    BY <1>1
  <2>2. QED
    BY <1>2, <2>1
<1>4. T \in SUBSET Nat /\ T # {}
  BY <1>3
<1>5. \E x \in T : \A y \in T : ~(<<y, x>> \in OpToRel(<, Nat))
  BY <1>4, NatLessThanWellFounded, WFMin, Zenon
<1>6. PICK m \in T : \A k \in T : ~(k < m)
  BY <1>4, <1>5, Zenon DEF OpToRel
<1>7. ASSUME NEW j \in DOMAIN Bundle, Bundle[j].name = name
      PROVE  j <= n - m
  <2>1. n - j \in Nat /\ n - (n - j) = j
    BY <1>1
  <2>2. n - j \in T
    BY <1>7, <2>1
  <2>3. ~(n - j < m) /\ m \in Nat
    BY <1>6, <2>2
  <2>4. QED
    BY <1>1, <2>3
<1>8. QED
  BY <1>6, <1>7

\* Collecting into a map finds that policy: build_policy_registry maps every
\* name to it.
LEMMA RegistryIsBundle ==
    ASSUME NEW name \in BundleNames
    PROVE  /\ LastOf(name) = Source(name)
           /\ \E i \in DOMAIN Bundle : Source(name) = Bundle[i] /\ Bundle[i].name = name
<1> DEFINE places == {i \in DOMAIN Bundle : Bundle[i].name = name}
           Last(i) == Bundle[i].name = name /\ \A j \in (i + 1)..Len(Bundle) : Bundle[j].name # name
           a == CHOOSE i \in DOMAIN Bundle : Last(i)
           b == CHOOSE i \in places : \A j \in places : j <= i
<1>1. Len(Bundle) \in Nat /\ DOMAIN Bundle = 1..Len(Bundle)
  BY BundleAssumption
<1>2. PICK i \in places : \A j \in places : j <= i
  BY LastExists
<1>3. b \in places /\ \A j \in places : j <= b
  BY <1>2
<1>4. i \in DOMAIN Bundle /\ Last(i)
  BY <1>1, <1>2
<1>5. a \in DOMAIN Bundle /\ Last(a)
  BY <1>4
<1> HIDE DEF a, b
<1>6. a = b
  <2>1. a <= b
    BY <1>3, <1>5
  <2>2. b \notin (a + 1)..Len(Bundle)
    BY <1>3, <1>5
  <2>3. QED
    BY <1>1, <1>3, <1>5, <2>1, <2>2
<1>7. LastOf(name) = Bundle[a] /\ Source(name) = Bundle[b]
  BY DEF LastOf, Source, a, b
<1>8. QED
  BY <1>3, <1>6, <1>7

\* A policy of the registry is a record of the bundle, with its own name.
LEMMA SourceShape ==
    ASSUME NEW name \in BundleNames
    PROVE  LET s == Source(name) IN
           /\ s.name = name
           /\ s = [name |-> s.name, type |-> s.type, pes |-> s.pes, c2sp |-> s.c2sp]
<1>1. PICK i \in DOMAIN Bundle : Source(name) = Bundle[i] /\ Bundle[i].name = name
  BY RegistryIsBundle
<1>2. QED
  BY <1>1, BundleAssumption

\* The lists in pes.rs and c2sp.rs hold every path the policies use, where
\* the reference values are of a type that has such paths, and are empty
\* where they are of another type.
LEMMA EndorsedPathsVisited ==
    ASSUME NEW type
    PROVE  IF type \in {"cbt", "oak_containers"}
             THEN \A p \in FieldsOf(type) \cap EndorsedPaths :
                    p \in get_pes_fields(type) /\ p \in get_c2sp_fields(type)
             ELSE get_pes_fields(type) = {} /\ get_c2sp_fields(type) = {}
<1>1. CASE type = "cbt"
  BY <1>1 DEF FieldsOf, EndorsedPaths, get_pes_fields, get_c2sp_fields, VisitedOfCbt,
              RootPaths, KernelPaths
<1>2. CASE type = "oak_containers"
  BY <1>2 DEF FieldsOf, EndorsedPaths, get_pes_fields, get_c2sp_fields, VisitedOfOakContainers,
              RootPaths, KernelPaths
<1>3. CASE type \notin {"cbt", "oak_containers"}
  BY <1>3 DEF get_pes_fields, get_c2sp_fields
<1>4. QED
  BY <1>1, <1>2, <1>3

\* A policy has values at the paths of its type only.
LEMMA SourcePaths ==
    ASSUME NEW name \in BundleNames
    PROVE  LET s == Source(name) IN
           s.type \in {"cbt", "oak_containers"} =>
             DOMAIN s.pes \subseteq FieldsOf(s.type) /\ DOMAIN s.c2sp \subseteq FieldsOf(s.type)
<1>1. PICK i \in DOMAIN Bundle : Source(name) = Bundle[i]
  BY RegistryIsBundle
<1>2. QED
  BY <1>1, BundleAssumption

\* Overwriting the visited paths of a map injects as it should.
LEMMA OverwriteInjects ==
    ASSUME NEW source, NEW fields, NEW injected, NEW typed, NEW enabled,
           typed => DOMAIN source \cap EndorsedPaths \subseteq fields,
           ~typed => fields = {}
    PROVE  LET values == IF enabled THEN Overwrite(source, fields, injected) ELSE source IN
           InjectedOver(values, source, typed /\ enabled, injected)
<1>1. CASE ~enabled
  BY <1>1 DEF InjectedOver
<1>2. CASE enabled
  <2> DEFINE values == Overwrite(source, fields, injected)
  <2>1. /\ DOMAIN values = DOMAIN source
        /\ \A p \in DOMAIN source : values[p] = IF p \in fields THEN injected ELSE source[p]
    BY DEF Overwrite
  <2> HIDE DEF values
  <2>2. InjectedOver(values, source, typed /\ enabled, injected)
    BY <1>2, <2>1 DEF InjectedOver
  <2>3. QED
    BY <1>2, <2>2 DEF values
<1>3. QED
  BY <1>1, <1>2

-----------------------------------------------------------------------------
(* The invariant: a lookup's copy is a function of its own request.        *)

HasPolicy == {"inject_pes", "inject_c2sp", "found", "bad_certificate"}

\* What InjectPes and InjectC2sp make of a policy, given what they read.
Keyed(p, files) ==
    IF files = <<>> THEN p ELSE [p EXCEPT !.pes = Overwrite(@, get_pes_fields(p.type), files)]

Logged(p, tlog) ==
    IF tlog THEN [p EXCEPT !.c2sp = Overwrite(@, get_c2sp_fields(p.type), "prod_verifier")] ELSE p

LookupInv(l) ==
    LET name == selection[l].name IN
    /\ pc[l] \in HasPolicy => /\ name \in BundleNames \ {""}
                              /\ name # "development" \/ config.include_development_policy
    /\ pc[l] \in {"inject_pes", "bad_certificate"} => policy[l] = Source(name)
    /\ pc[l] \in {"inject_c2sp", "found"} => LoadKeys.ok
    /\ pc[l] = "inject_c2sp" => policy[l] = Keyed(Source(name), Files)
    /\ pc[l] = "found" => policy[l] = Logged(Keyed(Source(name), Files), config.enable_c2sp_tlog)
    /\ pc[l] \notin HasPolicy => policy[l] = NoPolicy

Inv ==
    /\ DOMAIN pc = Lookups /\ DOMAIN selection = Lookups /\ DOMAIN policy = Lookups
    /\ registry \in {NoRegistry, build_policy_registry}
    /\ \A l \in Lookups : LookupInv(l)

\* Every step of a lookup leaves the other lookups' state alone, and keeps
\* the registry and its own copy as Inv says.
LEMMA StepKeepsInv ==
    ASSUME Inv, Next
    PROVE  Inv'
<1> USE DEF Inv
<1>1. config' = config /\ certs' = certs
  BY DEF Next
<1>2. Files' = Files /\ LoadKeys' = LoadKeys
  <2>1. Files' = Files
    BY <1>1 DEF Files
  <2>2. QED
    BY <2>1 DEF LoadKeys
<1>3. \A c : /\ inject_pes_keys(c) = Keyed(c, Files)
             /\ inject_c2sp_policy(c) = Logged(c, config.enable_c2sp_tlog)
  BY DEF inject_pes_keys, Keyed, inject_c2sp_policy, Logged, LoadKeys
<1>4. PICK l \in Lookups : Request(l) \/ LookUp(l) \/ InjectPes(l) \/ InjectC2sp(l) \/ Finish(l)
  BY DEF Next
<1>5. /\ DOMAIN pc' = Lookups /\ DOMAIN selection' = Lookups /\ DOMAIN policy' = Lookups
      /\ \A k \in Lookups \ {l} : pc'[k] = pc[k] /\ selection'[k] = selection[k] /\ policy'[k] = policy[k]
  BY <1>4 DEF Request, LookUp, InjectPes, InjectC2sp, Finish, Goto, StorePes
<1>6. ASSUME NEW k \in Lookups \ {l} PROVE LookupInv(k)'
  <2>1. LookupInv(k)
    OBVIOUS
  <2>2. QED
    BY <1>1, <1>2, <1>5, <2>1 DEF LookupInv
<1>7. registry' \in {NoRegistry, build_policy_registry}
  BY <1>4 DEF Request, LookUp, InjectPes, InjectC2sp, Finish, StorePes
<1>8. LookupInv(l)'
  <2> USE DEF LookupInv, Goto, HasPolicy
  <2>1. CASE Request(l)
    <3>1. PICK s \in Selectors, role \in Roles :
            LET resolved == resolve_policy_request(s, role) IN
            /\ selection' = [selection EXCEPT ![l] = resolved]
            /\ Goto(l, IF resolved.ok THEN "look_up" ELSE "invalid_selector")
      BY <2>1 DEF Request
    <3> DEFINE resolved == resolve_policy_request(s, role)
    <3> HIDE DEF resolved
    <3>3. /\ selection'[l] = resolved
          /\ pc'[l] = IF resolved.ok THEN "look_up" ELSE "invalid_selector"
      BY <3>1 DEF resolved
    <3>4. policy'[l] = NoPolicy
      BY <2>1 DEF Request
    <3>5. QED
      BY <3>3, <3>4
  <2>2. CASE LookUp(l)
    <3> DEFINE name == selection[l].name
    <3>1. selection' = selection /\ pc[l] = "look_up" /\ policy[l] = NoPolicy
      BY <2>2 DEF LookUp
    <3>2. CASE ~DevelopmentGate(name)
      <4>1. pc'[l] = "not_supported" /\ policy' = policy
        BY <2>2, <3>2 DEF LookUp
      <4>2. QED
        BY <3>1, <4>1
    <3>3. CASE DevelopmentGate(name) /\ name \in DOMAIN build_policy_registry
      <4>1. pc'[l] = "inject_pes" /\ policy'[l] = build_policy_registry[name]
        BY <2>2, <3>3 DEF LookUp
      <4>2. name \in BundleNames \ {""} /\ policy'[l] = LastOf(name)
        BY <3>3, <4>1 DEF build_policy_registry
      <4>3. policy'[l] = Source(name)
        BY <4>2, RegistryIsBundle
      <4>4. QED
        BY <1>1, <3>1, <3>3, <4>1, <4>2, <4>3 DEF DevelopmentGate
    <3>4. CASE DevelopmentGate(name) /\ name \notin DOMAIN build_policy_registry
      <4>1. pc'[l] = "unrecognized" /\ policy' = policy
        BY <2>2, <3>4 DEF LookUp
      <4>2. QED
        BY <3>1, <4>1
    <3>5. QED
      BY <3>2, <3>3, <3>4
  <2>3. CASE InjectPes(l)
    <3>1. selection' = selection /\ pc[l] = "inject_pes"
      BY <2>3 DEF InjectPes
    <3>2. CASE LoadKeys.ok
      <4>1. pc'[l] = "inject_c2sp" /\ policy'[l] = Keyed(policy[l], Files)
        BY <1>3, <2>3, <3>2 DEF InjectPes, StorePes
      <4>2. QED
        BY <1>1, <1>2, <3>1, <3>2, <4>1
    <3>3. CASE ~LoadKeys.ok
      <4>1. pc'[l] = "bad_certificate" /\ policy' = policy
        BY <2>3, <3>3 DEF InjectPes
      <4>2. QED
        BY <1>1, <1>2, <3>1, <4>1
    <3>4. QED
      BY <3>2, <3>3
  <2>4. CASE InjectC2sp(l)
    BY <1>1, <1>2, <1>3, <1>5, <2>4 DEF InjectC2sp
  <2>5. CASE Finish(l)
    BY <1>1, <1>2, <1>5, <2>5 DEF Finish
  <2>6. QED
    BY <1>4, <2>1, <2>2, <2>3, <2>4, <2>5
<1>9. QED
  BY <1>5, <1>6, <1>7, <1>8

\* The initial state satisfies Inv, and so do all that follow.
LEMMA LookupsInvariant == Spec => []Inv
<1>1. Init => Inv
  BY DEF Init, Inv, LookupInv, HasPolicy
<1>2. Inv /\ [Next]_vars => Inv'
  <2>1. CASE Next
    BY <2>1, StepKeepsInv
  <2>2. CASE UNCHANGED vars
    <3>1. Files' = Files /\ LoadKeys' = LoadKeys
      <4>1. Files' = Files
        BY <2>2 DEF Files, vars
      <4>2. QED
        BY <4>1 DEF LoadKeys
    <3>2. QED
      BY <2>2, <3>1 DEF Inv, LookupInv, vars
  <2>3. QED
    BY <2>1, <2>2
<1>3. QED
  BY <1>1, <1>2, PTL DEF Spec

\* What a lookup that has a policy holds: the name and the type are those of
\* the bundle's policy, injection changes the values only.
LEMMA InjectionKeepsShape ==
    ASSUME NEW name \in BundleNames, NEW files, NEW tlog
    PROVE  LET s == Source(name)
               k == Keyed(s, files)
               p == Logged(k, tlog) IN
           /\ k.name = name /\ p.name = name /\ p.type = s.type
           /\ p.pes = IF files # <<>> THEN Overwrite(s.pes, get_pes_fields(s.type), files) ELSE s.pes
           /\ p.c2sp = IF tlog THEN Overwrite(s.c2sp, get_c2sp_fields(s.type), "prod_verifier")
                               ELSE s.c2sp
<1> DEFINE s == Source(name)
           k == Keyed(s, files)
           p == Logged(k, tlog)
<1>1. /\ s.name = name
      /\ s = [name |-> s.name, type |-> s.type, pes |-> s.pes, c2sp |-> s.c2sp]
  BY SourceShape
<1> HIDE DEF s
<1>2. /\ k = [name |-> k.name, type |-> k.type, pes |-> k.pes, c2sp |-> k.c2sp]
      /\ k.name = name /\ k.type = s.type /\ k.c2sp = s.c2sp
      /\ k.pes = IF files # <<>> THEN Overwrite(s.pes, get_pes_fields(s.type), files) ELSE s.pes
  BY <1>1 DEF Keyed
<1> HIDE DEF k
<1>3. /\ p.name = name /\ p.type = s.type /\ p.pes = k.pes
      /\ p.c2sp = IF tlog THEN Overwrite(s.c2sp, get_c2sp_fields(s.type), "prod_verifier") ELSE s.c2sp
  BY <1>2 DEF Logged
<1>4. QED
  BY <1>2, <1>3 DEF s, k, p

\* The policy a lookup gets depends only on its own request, however many
\* lookups interleave: for any bundle whose values are at paths of Oak's
\* messages and any certificates, each value at a path the repository's
\* policies use is the one to inject, and nothing else has changed.
THEOREM LookupsIsolated == Spec => []LookupIsolated
<1>1. Inv => LookupIsolated
  <2> SUFFICES ASSUME Inv, NEW l \in Lookups, pc[l] = "found"
               PROVE  LET source == Source(selection[l].name)
                          typed  == source.type \in {"cbt", "oak_containers"} IN
                      /\ policy[l].name = source.name /\ policy[l].type = source.type
                      /\ InjectedOver(policy[l].pes, source.pes, typed /\ Files # <<>>, Files)
                      /\ InjectedOver(policy[l].c2sp, source.c2sp,
                                      typed /\ config.enable_c2sp_tlog, "prod_verifier")
    BY DEF LookupIsolated
  <2> DEFINE name   == selection[l].name
             source == Source(name)
             typed  == source.type \in {"cbt", "oak_containers"}
             some   == Files # <<>>
             tlog   == config.enable_c2sp_tlog
             pes    == get_pes_fields(source.type)
             c2sp   == get_c2sp_fields(source.type)
  <2>1. name \in BundleNames /\ policy[l] = Logged(Keyed(source, Files), tlog)
    BY DEF Inv, LookupInv, HasPolicy
  <2>2. source.name = name
    BY <2>1, SourceShape
  <2>3. /\ policy[l].name = name /\ policy[l].type = source.type
        /\ policy[l].pes = IF some THEN Overwrite(source.pes, pes, Files) ELSE source.pes
        /\ policy[l].c2sp = IF tlog THEN Overwrite(source.c2sp, c2sp, "prod_verifier") ELSE source.c2sp
    BY <2>1, InjectionKeepsShape
  <2>4. /\ typed => /\ DOMAIN source.pes \cap EndorsedPaths \subseteq pes
                    /\ DOMAIN source.c2sp \cap EndorsedPaths \subseteq c2sp
        /\ ~typed => pes = {} /\ c2sp = {}
    BY <2>1, SourcePaths, EndorsedPathsVisited
  <2> HIDE DEF name, source, typed, some, tlog, pes, c2sp
  <2>5. InjectedOver(policy[l].pes, source.pes, typed /\ some, Files)
    BY <2>3, <2>4, OverwriteInjects DEF typed, some
  <2>6. InjectedOver(policy[l].c2sp, source.c2sp, typed /\ tlog, "prod_verifier")
    BY <2>3, <2>4, OverwriteInjects DEF typed
  <2>7. QED
    BY <2>2, <2>3, <2>5, <2>6 DEF name, source, typed, some, tlog
<1>2. QED
  BY <1>1, LookupsInvariant, PTL

\* The registry all requests share stays the bundle, whatever was injected
\* into the policies cloned from it.
THEOREM RegistryUnchanged == Spec => []RegistryPristine
<1>1. Inv => RegistryPristine
  BY RegistryIsBundle DEF Inv, RegistryPristine, build_policy_registry
<1>2. QED
  BY <1>1, LookupsInvariant, PTL

\* Without include_development_policy no lookup ever holds the development
\* policy, also if the bundle has several of that name.
THEOREM DevelopmentClosed == Spec => []DevelopmentGated
<1>1. Inv => DevelopmentGated
  <2> SUFFICES ASSUME Inv, ~config.include_development_policy, NEW l \in Lookups, policy[l] # NoPolicy
               PROVE  policy[l].name # "development"
    BY DEF DevelopmentGated
  <2> DEFINE name == selection[l].name
  <2>1. pc[l] \in HasPolicy /\ name \in BundleNames /\ name # "development"
    BY DEF Inv, LookupInv
  <2>2. Source(name).name = name
    BY <2>1, SourceShape
  <2>3. policy[l].name = name
    <3> DEFINE k == Keyed(Source(name), Files)
               p == Logged(k, config.enable_c2sp_tlog)
    <3>1. k.name = name /\ p.name = name
      BY <2>1, InjectionKeepsShape
    <3> HIDE DEF k, p
    <3>2. policy[l] \in {Source(name), k, p}
      BY <2>1 DEF Inv, LookupInv, HasPolicy, k, p
    <3>3. QED
      BY <2>2, <3>1, <3>2
  <2>4. QED
    BY <2>1, <2>3
<1>2. QED
  BY <1>1, LookupsInvariant, PTL

-----------------------------------------------------------------------------
(* The policies of the legacy hints.                                       *)

\* The names in the tables of resolve_legacy_hint.
HintNames == {"encrypted_zone", "prober", "prober_ez", "pa-frontend-nonprod", "development"}

\* A legacy hint resolves to one of them, whatever the role, or to nothing.
LEMMA HintsResolve ==
    ASSUME NEW hint \in Hints, NEW role
    PROVE  resolve_legacy_hint(hint, role).ok => resolve_legacy_hint(hint, role).name \in HintNames
BY DEF Hints, resolve_legacy_hint, EnforcerPolicy, Selection, NoSelection, HintNames

\* A lookup on its way to the registry has an explicit name or a hint's.
HintInv ==
    /\ DOMAIN selector = Lookups
    /\ \A l \in Lookups :
         /\ pc[l] = "look_up" => selector[l].kind = "parameters" \/ selection[l].name \in HintNames
         /\ pc[l] = "unrecognized" => selector[l].kind = "parameters"

\* Every step keeps it, if the bundle has the policies of the hints.
LEMMA StepKeepsHints ==
    ASSUME HintNames \subseteq BundleNames, Inv, HintInv, Next
    PROVE  HintInv'
<1>1. PICK l \in Lookups : Request(l) \/ LookUp(l) \/ InjectPes(l) \/ InjectC2sp(l) \/ Finish(l)
  BY DEF Next
<1>2. DOMAIN pc = Lookups /\ DOMAIN selection = Lookups /\ DOMAIN selector = Lookups
  BY DEF Inv, HintInv
<1>3. CASE Request(l)
  <2>1. PICK s \in Selectors, role \in Roles :
          LET resolved == resolve_policy_request(s, role) IN
          /\ selector' = [selector EXCEPT ![l] = s]
          /\ selection' = [selection EXCEPT ![l] = resolved]
          /\ Goto(l, IF resolved.ok THEN "look_up" ELSE "invalid_selector")
    BY <1>3 DEF Request
  <2> DEFINE resolved == resolve_policy_request(s, role)
  <2>2. resolved.ok => s.kind = "parameters" \/ resolved.name \in HintNames
    <3>1. CASE s \in {[kind |-> "none"]}
      <4>1. s.kind = "none"
        BY <3>1
      <4>2. QED
        BY <4>1 DEF resolve_policy_request, NoSelection
    <3>2. CASE s.kind = "parameters"
      BY <3>2
    <3>3. CASE s \in [kind: {"hint"}, hint: Hints]
      <4>1. s.kind = "hint" /\ s.hint \in Hints
        BY <3>3
      <4>2. resolved = resolve_legacy_hint(s.hint, role)
        BY <4>1 DEF resolve_policy_request
      <4>3. QED
        BY <4>1, <4>2, HintsResolve
    <3>4. QED
      <4>1. \/ s \in {[kind |-> "none"]}
            \/ s \in [kind: {"parameters"}, name: BundleNames \cup {"", "unknown"},
                      profile: Profiles \cup {"Unspecified"}]
            \/ s \in [kind: {"hint"}, hint: Hints]
        BY Zenon DEF Selectors
      <4>2. ASSUME s \in [kind: {"parameters"}, name: BundleNames \cup {"", "unknown"},
                          profile: Profiles \cup {"Unspecified"}]
            PROVE  s.kind = "parameters"
        BY <4>2
      <4>3. QED
        BY <3>1, <3>2, <3>3, <4>1, <4>2, Zenon
  <2> HIDE DEF resolved
  <2>3. /\ selector' = [selector EXCEPT ![l] = s]
        /\ selection' = [selection EXCEPT ![l] = resolved]
        /\ pc' = [pc EXCEPT ![l] = IF resolved.ok THEN "look_up" ELSE "invalid_selector"]
    BY <2>1 DEF resolved, Goto
  <2>4. QED
    BY <1>2, <2>2, <2>3 DEF HintInv
<1>4. CASE LookUp(l)
  <2> DEFINE name == selection[l].name
  <2>1. selector' = selector /\ selection' = selection /\ pc[l] = "look_up"
    BY <1>4 DEF LookUp
  <2>2. name \in HintNames => name \in DOMAIN build_policy_registry
    BY DEF HintNames, build_policy_registry
  <2>3. registry = NoRegistry \/ registry = build_policy_registry
    BY DEF Inv
  <2>4. /\ pc' = [pc EXCEPT ![l] = pc'[l]]
        /\ pc'[l] \in {"not_supported", "inject_pes", "unrecognized"}
        /\ pc'[l] = "unrecognized" => name \notin DOMAIN build_policy_registry
    BY <1>2, <1>4, <2>3 DEF LookUp, Goto
  <2>5. QED
    BY <1>2, <2>1, <2>2, <2>4 DEF HintInv
<1>5. CASE InjectPes(l) \/ InjectC2sp(l)
  BY <1>2, <1>5 DEF InjectPes, InjectC2sp, Goto, HintInv
<1>6. CASE Finish(l)
  BY <1>2, <1>6 DEF Finish, Goto, HintInv
<1>7. QED
  BY <1>1, <1>3, <1>4, <1>5, <1>6

\* If the bundle has the policies that the tables of resolve_legacy_hint name,
\* as the policies directory does, then no request that uses a legacy hint
\* fails with an unrecognized policy, whatever the role, the other requests
\* and the other policies of the bundle.
THEOREM HintsRecognized ==
    ASSUME HintNames \subseteq BundleNames
    PROVE  Spec => []HintsNamePolicies
<1>1. Init => HintInv
  BY DEF Init, HintInv
<1>2. Inv /\ HintInv /\ [Next]_vars => HintInv'
  <2>1. Inv /\ HintInv /\ Next => HintInv'
    BY StepKeepsHints
  <2>2. HintInv /\ UNCHANGED vars => HintInv'
    BY DEF HintInv, vars
  <2>3. QED
    BY <2>1, <2>2
<1>3. HintInv => HintsNamePolicies
  BY DEF HintInv, HintsNamePolicies
<1>4. QED
  BY <1>1, <1>2, <1>3, LookupsInvariant, PTL DEF Spec
=============================================================================
