------------------------ MODULE CertificateLifetime ------------------------
(***************************************************************************)
(* The validity of a leaf against that of the self-signed authority that   *)
(* signs it (avs_server/src/ca.rs): the request of CsrValidation refers to *)
(* the authority that was in the slot when its call or session began, and  *)
(* authorities grow old and are replaced while it is validated.            *)
(***************************************************************************)
EXTENDS CsrValidation

CONSTANTS CertValidity   \* CERT_VALIDITY * SEC_DAYS

ASSUME CertValidityAssumption == CertValidity \in Nat

\* The validity of an authority's certificate.
Authority == [not_before: Int, not_after: Int]

VARIABLES slot,    \* the validity of the installed authority
          issuer   \* that of the request's authority, an option

lifetimeVars == <<vars, slot, issuer>>

\* The service starts to serve with an authority made at time 0.
LifetimeInit ==
    /\ Init
    /\ slot = [not_before |-> 0, not_after |-> CertValidity]
    /\ issuer = <<>>

\* set_x509_validity reads the clock twice: the beginning was set at some time
\* before the end, which is set now.
Rotate ==
    /\ \E start \in 0..clock : slot' = [not_before |-> start, not_after |-> clock + CertValidity]
    /\ UNCHANGED <<vars, issuer>>

\* The call takes its guard, or the session its reference.
Open ==
    /\ issuer = <<>>
    /\ issuer' = <<slot>>
    /\ UNCHANGED <<vars, slot>>

\* Mutant: the request is validated before the authority is looked up.
ValidateUnopened == Validate /\ UNCHANGED <<slot, issuer>>

ValidateOpen ==
    /\ issuer # <<>>
    /\ Validate
    /\ UNCHANGED <<slot, issuer>>

LifetimeNext ==
    \/ Rotate
    \/ Open
    \/ ValidateOpen
    \/ Tick /\ UNCHANGED <<slot, issuer>>

LifetimeSpec == LifetimeInit /\ [][LifetimeNext]_lifetimeVars

-----------------------------------------------------------------------------
(* Properties.                                                             *)

\* A leaf is never valid before the authority that signs it, however often
\* the authority was replaced and whatever the endorsements say; and it ends
\* with that authority's certificate at the latest, as long as the authority
\* is not older than its validity less the fallback validity of a leaf when
\* the request reads the clock.  (Nothing in the code bounds the age of an
\* authority: an older one gives leaves that outlive its certificate.)
LeafWithinIssuer ==
    pc = "accepted" =>
      \A i \in DOMAIN issuer :
        /\ issuer[i].not_before <= not_before
        /\ now + Fallback <= issuer[i].not_before + CertValidity =>
             not_after <= issuer[i].not_after
=============================================================================
