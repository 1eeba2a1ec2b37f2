------------------------ MODULE CertificateIssuance ------------------------
(***************************************************************************)
(* What the service promises about its certificate authority, with no      *)
(* lock, no channel and no message in sight.  At any time there is at most *)
(* one active authority.  A rotation replaces it by one that was never     *)
(* active before.  A unary certification uses the active authority, in one *)
(* step.  An interactive session is bound to the authority that was active *)
(* when it opened; it issues at most one certificate, from that authority, *)
(* and is unbound when it ends.                                            *)
(***************************************************************************)
CONSTANTS Unary,        \* unary CertifyAttestation calls
          Streams,      \* CertifyAttestationStream sessions
          Authorities,  \* the authorities that rotations may create
          Subjects,     \* what a leaf certificate is issued for
          NoCA          \* no authority

VARIABLES active,       \* the active authority, or NoCA
          installed,    \* every authority that was ever active
          bound,        \* the authority each session is bound to, or NoCA
          issued        \* the leaf certificates signed so far

vars == <<active, installed, bound, issued>>

Certificate == [via: Unary \cup Streams, issuer: Authorities, chain: Authorities, subject: Subjects]

Init ==
    /\ active = NoCA
    /\ installed = {}
    /\ bound = [s \in Streams |-> NoCA]
    /\ issued = {}

Rotate(a) ==
    /\ a \notin installed
    /\ active' = a
    /\ installed' = installed \cup {a}
    /\ UNCHANGED <<bound, issued>>

Open(s) ==
    /\ active # NoCA
    /\ bound[s] = NoCA
    /\ bound' = [bound EXCEPT ![s] = active]
    /\ UNCHANGED <<active, installed, issued>>

Close(s) ==
    /\ bound' = [bound EXCEPT ![s] = NoCA]
    /\ UNCHANGED <<active, installed, issued>>

\* Sign for call c with authority a and attach the certificate chain of a.
Issue(c, a, subject) ==
    /\ a # NoCA
    /\ issued' = issued \cup {[via |-> c, issuer |-> a, chain |-> a, subject |-> subject]}
    /\ UNCHANGED <<active, installed, bound>>

Certify(u, subject) == Issue(u, active, subject)

CertifyBound(s, subject) ==
    /\ \A cert \in issued : cert.via # s
    /\ Issue(s, bound[s], subject)

Next ==
    \/ \E a \in Authorities : Rotate(a)
    \/ \E s \in Streams : Open(s) \/ Close(s)
    \/ \E u \in Unary, subject \in Subjects : Certify(u, subject)
    \/ \E s \in Streams, subject \in Subjects : CertifyBound(s, subject)

Spec == Init /\ [][Next]_vars
=============================================================================
