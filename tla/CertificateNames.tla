-------------------------- MODULE CertificateNames --------------------------
(***************************************************************************)
(* The names in certificates: the operator identity that                   *)
(* avs_server/src/operator_info.rs admits, the trust domain that           *)
(* avs_server/src/ca.rs reads from the certificate the TCA issued, and the *)
(* subject alternative name it gives to a leaf, while authorities with     *)
(* other trust domains replace each other.                                 *)
(*                                                                         *)
(* A string is a sequence of characters.  The fixed words of a name are    *)
(* strings over the same letters that operators may use.                   *)
(***************************************************************************)
EXTENDS Naturals, Sequences

CONSTANTS Letters,                  \* ASCII letters, digits and '_'
          NonGraphic,               \* bytes that are not graphic ASCII characters
          MAX_DOMAIN_LEN, MAX_LABEL_OR_ROLE_LEN,
          SELF_SIGNED_TRUST_DOMAIN,
          SPIFFE, OPERATOR, PUBLISHER, WORKLOAD,   \* the words of a SPIFFE ID
          Operators,                \* the operator_info of requests
          Policies,                 \* policies: operator rules and the identity they give
          TcaSans                   \* the names of the certificates the TCA issues

Dash == "-"
Dot == "."
Slash == "/"
Colon == ":"

Chars == Letters \cup NonGraphic \cup {Dash, Dot, Slash, Colon}
String == Seq(Chars)

Profiles == {"Unrestricted", "Mtls", "Tls"}

ASSUME LettersAssumption ==
    /\ Letters \cap {Dash, Dot, Slash, Colon} = {}
    /\ NonGraphic \cap (Letters \cup {Dash, Dot, Slash, Colon}) = {}
    /\ NonGraphic # {}
ASSUME LengthsAssumption ==
    /\ MAX_DOMAIN_LEN \in Nat
    /\ MAX_LABEL_OR_ROLE_LEN \in Nat
ASSUME WordsAssumption ==
    /\ {SPIFFE, OPERATOR, PUBLISHER, WORKLOAD} \subseteq Seq(Letters)
    /\ OPERATOR # <<>>
ASSUME TrustDomainAssumption ==
    /\ SELF_SIGNED_TRUST_DOMAIN \in Seq(Letters \cup {Dash, Dot})
    /\ SELF_SIGNED_TRUST_DOMAIN # <<>>
ASSUME InputsAssumption ==
    /\ Operators \subseteq [domain: String, role: String]
    /\ Policies \subseteq [rules: SUBSET Operators, publisher_domain: String,
                          publisher_role: String, workload_name: String]
\* Nothing in the server looks at the publisher's names in a policy.
ASSUME PublishersAssumption ==
    \A p \in Policies :
      {p.publisher_domain, p.publisher_role} \subseteq Seq(Chars \ {Slash})

-----------------------------------------------------------------------------
(* operator_info.rs.                                                       *)

is_valid_char(c) == c \in Letters \cup {Dash}

\* The checks of a label of a domain, and of a role; which one fails first
\* only decides the wording of the error.
ValidSegment(s) ==
    /\ s # <<>>
    /\ Len(s) <= MAX_LABEL_OR_ROLE_LEN
    /\ \A i \in DOMAIN s : is_valid_char(s[i])
    /\ s[1] # Dash /\ s[Len(s)] # Dash

\* Where split('.') cuts a string, its two ends included.
Cuts(s) == {0, Len(s) + 1} \cup {i \in DOMAIN s : s[i] = Dot}

Label(s, i, j) == SubSeq(s, i + 1, j - 1)

\* Mutant: empty labels are dropped, as by split_terminator or a filter.
DomainSkippingEmpty(d) ==
    /\ d # <<>>
    /\ Len(d) <= MAX_DOMAIN_LEN
    /\ \A i, j \in Cuts(d) :
         i + 1 < j /\ (\A k \in Cuts(d) : k <= i \/ j <= k) => ValidSegment(Label(d, i, j))

validate_domain(d) ==
    /\ d # <<>>
    /\ Len(d) <= MAX_DOMAIN_LEN
    /\ \A i, j \in Cuts(d) :
         i < j /\ (\A k \in Cuts(d) : k <= i \/ j <= k) => ValidSegment(Label(d, i, j))

\* Mutant: the role is validated like a domain.
RoleLikeDomain(r) == validate_domain(r)

validate_role(r) == ValidSegment(r)

\* OperatorInfo::new.
ValidOperator(op) == validate_domain(op.domain) /\ validate_role(op.role)

-----------------------------------------------------------------------------
(* Trust domains and subject alternative names.                            *)

SCHEME == SPIFFE \o <<Colon, Slash, Slash>>

\* What precedes the first character of stop in s.
Before(s, stop) ==
    LET ends == {i \in DOMAIN s : s[i] \in stop} IN
    IF ends = {} THEN s ELSE SubSeq(s, 1, (CHOOSE i \in ends : \A j \in ends : i <= j) - 1)

\* The places of the scheme: match_indices.
Matches(bytes) ==
    {i \in 1..(Len(bytes) + 1 - Len(SCHEME)) : SubSeq(bytes, i, i + Len(SCHEME) - 1) = SCHEME}

\* Mutant: the first of several URIs is taken.
TrustDomainOfFirst(bytes) ==
    LET starts == Matches(bytes)
        start == CHOOSE i \in starts : \A j \in starts : i <= j
        uri == Before(SubSeq(bytes, start, Len(bytes)), NonGraphic) IN
    IF starts = {} THEN <<>> ELSE Before(SubSeq(uri, Len(SCHEME) + 1, Len(uri)), {Slash})

\* The trust domain of the only SPIFFE URI; <<>> stands for the errors: no
\* URI, several, or one without a trust domain.
extract_spiffe_trust_domain(bytes) ==
    LET starts == Matches(bytes)
        start == CHOOSE i \in starts : TRUE
        uri == Before(SubSeq(bytes, start, Len(bytes)), NonGraphic) IN
    IF \A i \in starts : starts # {i} THEN <<>>
    ELSE Before(SubSeq(uri, Len(SCHEME) + 1, Len(uri)), {Slash})

\* The value of a SAN extension.  Each name is preceded by a tag, which is
\* not an ASCII character, and by its length, which may well be one.
Tag == CHOOSE b \in NonGraphic : TRUE
Length == CHOOSE c \in Letters : TRUE
Der(names) ==
    LET upto[n \in 0..Len(names)] ==
          IF n = 0 THEN <<>> ELSE upto[n - 1] \o <<Tag, Length>> \o names[n]
    IN  upto[Len(names)]
ASSUME SansAssumption == TcaSans \subseteq Seq(String)

Workload(p) == <<p.publisher_domain, p.publisher_role, p.workload_name>>

Segment(s) == <<Slash>> \o s

create_spiffe_extension(trust, op, p) ==
    SCHEME \o trust
      \o Segment(OPERATOR) \o Segment(op.domain) \o Segment(op.role)
      \o Segment(PUBLISHER) \o Segment(p.publisher_domain) \o Segment(p.publisher_role)
      \o Segment(WORKLOAD) \o Segment(p.workload_name)

create_dns_extension(trust, op) ==
    op.role \o <<Dot>> \o op.domain \o <<Dot>> \o trust

create_san_extension(trust, op, p, profile) ==
    IF profile = "Tls" THEN create_dns_extension(trust, op)
                       ELSE create_spiffe_extension(trust, op, p)

-----------------------------------------------------------------------------
(* The service, reduced to the trust domain of its authorities: <<>> is no *)
(* authority.  A session keeps the authority it was opened with.           *)

VARIABLES self_signed,   \* the configured kind of authority
          slot,          \* the trust domain of the installed authority
          session,       \* the trust domain of the session's authority
          answer         \* the last answer, until the caller has read it

vars == <<self_signed, slot, session, answer>>

NoAnswer == [kind |-> "none"]

Init ==
    /\ self_signed \in BOOLEAN
    /\ slot = <<>> /\ session = <<>>
    /\ answer = NoAnswer

\* new_root.
RotateSelfSigned ==
    /\ answer = NoAnswer
    /\ self_signed
    /\ slot' = SELF_SIGNED_TRUST_DOMAIN
    /\ UNCHANGED <<self_signed, session, answer>>

\* new_intermediate: a chain whose first certificate has no trust domain to
\* read leaves the slot as it is.
RotateIntermediate(names) ==
    LET trust == extract_spiffe_trust_domain(Der(names)) IN
    /\ answer = NoAnswer
    /\ ~self_signed
    /\ slot' = IF trust = <<>> THEN slot ELSE trust
    /\ answer' = [kind |-> "rotated", names |-> names, trust |-> trust]
    /\ UNCHANGED <<self_signed, session>>

Open ==
    /\ answer = NoAnswer
    /\ slot # <<>> /\ session = <<>>
    /\ session' = slot
    /\ UNCHANGED <<self_signed, slot, answer>>

Abandon ==
    /\ answer = NoAnswer
    /\ session # <<>>
    /\ session' = <<>>
    /\ UNCHANGED <<self_signed, slot, answer>>

\* A certification signed by the authority of this trust domain: the operator
\* is validated, then held against the rules of the policy, then named.
Answer(trust, op, p, profile) ==
    [kind |-> "certified", op |-> op, workload |-> Workload(p), profile |-> profile, issuer |-> trust,
     code |-> IF ~ValidOperator(op) THEN "InvalidArgument"
              ELSE IF op \notin p.rules THEN "FailedPrecondition" ELSE "Ok",
     san |-> IF ValidOperator(op) /\ op \in p.rules
             THEN create_san_extension(trust, op, p, profile) ELSE <<>>]

CertifyUnary ==
    /\ answer = NoAnswer
    /\ slot # <<>>
    /\ \E op \in Operators, p \in Policies, profile \in Profiles :
         answer' = Answer(slot, op, p, profile)
    /\ UNCHANGED <<self_signed, slot, session>>

\* Mutant: the name is given under the trust domain of the installed authority.
CertifyUnderSlot ==
    /\ answer = NoAnswer
    /\ session # <<>>
    /\ \E op \in Operators, p \in Policies, profile \in Profiles :
         answer' = [Answer(slot, op, p, profile) EXCEPT !.issuer = session]
    /\ session' = <<>>
    /\ UNCHANGED <<self_signed, slot>>

CertifySession ==
    /\ answer = NoAnswer
    /\ session # <<>>
    /\ \E op \in Operators, p \in Policies, profile \in Profiles :
         answer' = Answer(session, op, p, profile)
    /\ session' = <<>>
    /\ UNCHANGED <<self_signed, slot>>

\* The caller reads the answer before it makes another call.
Read ==
    /\ answer # NoAnswer
    /\ answer' = NoAnswer
    /\ UNCHANGED <<self_signed, slot, session>>

Next ==
    \/ RotateSelfSigned
    \/ \E names \in TcaSans : RotateIntermediate(names)
    \/ Open
    \/ Abandon
    \/ CertifyUnary
    \/ CertifySession
    \/ Read

Spec == Init /\ [][Next]_vars

-----------------------------------------------------------------------------
(* Properties.                                                             *)

\* A host name, told from adjacent characters and without cutting it up.
HostName(s) ==
    /\ Len(s) >= 1 /\ s[1] \in Letters /\ s[Len(s)] \in Letters
    /\ \A i \in DOMAIN s : s[i] \in Letters \cup {Dash, Dot}
    /\ \A i \in 1..(Len(s) - 1) : s[i] = Dot => s[i + 1] \in Letters
    /\ \A i \in 1..(Len(s) - 1) : s[i + 1] = Dot => s[i] \in Letters
    /\ \A i \in 0..(Len(s) - MAX_LABEL_OR_ROLE_LEN - 1) :
         \E j \in (i + 1)..(i + MAX_LABEL_OR_ROLE_LEN + 1) : s[j] = Dot

DomainName(s) == HostName(s) /\ Len(s) <= MAX_DOMAIN_LEN
RoleName(s) == HostName(s) /\ \A i \in DOMAIN s : s[i] # Dot

\* A request is refused as an invalid argument exactly when its operator's
\* domain is no host name within the length limits or its role is no single
\* label: validate_domain and validate_role are exact at every boundary
\* (empty, first and last label, hyphens next to dots, both maximal lengths).
AdmitsHostNames ==
    answer.kind = "certified" =>
      (answer.code # "InvalidArgument" <=> DomainName(answer.op.domain) /\ RoleName(answer.op.role))

TrustDomains ==
    ({extract_spiffe_trust_domain(Der(names)) : names \in TcaSans} \cup {SELF_SIGNED_TRUST_DOMAIN})
      \ {<<>>}

ValidOperators == {op \in Operators : ValidOperator(op)}

\* No two parties get the same name.  A SPIFFE ID (create_spiffe_extension)
\* determines the trust domain, the operator and the workload; a DNS name
\* (create_dns_extension) determines the operator among those of its trust
\* domain, although domains have any number of labels.
NameIdentifies ==
    answer.kind = "certified" /\ answer.code = "Ok" =>
      \A trust \in TrustDomains, op \in ValidOperators, p \in Policies :
        create_san_extension(trust, op, p, answer.profile) = answer.san =>
          IF answer.profile = "Tls"
          THEN trust = answer.issuer => op = answer.op
          ELSE trust = answer.issuer /\ op = answer.op /\ Workload(p) = answer.workload

\* The name a leaf gets lies in the trust domain of the authority that signs
\* it, the session's own after a rotation into another trust domain; read
\* back the way the server reads a TCA certificate, a SPIFFE leaf gives
\* exactly that trust domain.
NamedByItsIssuer ==
    answer.kind = "certified" /\ answer.code = "Ok" =>
      IF answer.profile = "Tls"
      THEN LET host == answer.op.role \o <<Dot>> \o answer.op.domain IN
           answer.san = host \o <<Dot>> \o answer.issuer
      ELSE extract_spiffe_trust_domain(Der(<<answer.san>>)) = answer.issuer

\* The trust domain of a SPIFFE ID, name by name rather than byte by byte.
IsSpiffe(name) == Len(SCHEME) <= Len(name) /\ SubSeq(name, 1, Len(SCHEME)) = SCHEME
HasTrustDomain(name) == Len(name) > Len(SCHEME) /\ name[Len(SCHEME) + 1] # Slash
IsTrustDomainOf(t, name) ==
    /\ t # <<>> /\ \A i \in DOMAIN t : t[i] # Slash
    /\ Len(SCHEME) + Len(t) <= Len(name)
    /\ SubSeq(name, Len(SCHEME) + 1, Len(SCHEME) + Len(t)) = t
    /\ Len(name) > Len(SCHEME) + Len(t) => name[Len(SCHEME) + Len(t) + 1] = Slash

\* An authority is installed with a trust domain exactly when the TCA's
\* certificate has one SPIFFE ID among its names, wherever it stands and
\* whatever surrounds it, and the trust domain is that ID's: the scan of the
\* raw extension (extract_spiffe_trust_domain) neither joins neighbouring
\* names nor chooses between two.
TrustDomainExact ==
    answer.kind = "rotated" =>
      LET spiffe == {i \in DOMAIN answer.names : IsSpiffe(answer.names[i])} IN
      IF \E i \in spiffe : spiffe = {i} /\ HasTrustDomain(answer.names[i])
      THEN slot = answer.trust /\ \A i \in spiffe : IsTrustDomainOf(slot, answer.names[i])
      ELSE answer.trust = <<>>

=============================================================================
