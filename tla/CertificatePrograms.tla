------------------------ MODULE CertificatePrograms ------------------------
(***************************************************************************)
(* The functions of avs_server/src/ca.rs and csr.rs that own BoringSSL     *)
(* objects, as programs that CertificateAuthority runs.                    *)
(*                                                                         *)
(* A function is a sequence of steps.  A step uses some objects, makes and *)
(* frees others, and may fail, in which case the function frees what its   *)
(* error path names, its callers free what theirs name, and Rust drops the *)
(* KeyPairs in scope.  Calls that use, free and undo the same objects are  *)
(* one step.  An object whose ownership passes to another one is no longer *)
(* an object of its own.                                                   *)
(***************************************************************************)
EXTENDS Naturals, Sequences

CONSTANT SelfSigned   \* TRUE iff the service was built without a TCA client

ASSUME SelfSignedAssumption == SelfSigned \in BOOLEAN

\* The objects.
Names == {"rsa", "big_e", "ca_key", "issuer_name", "subject", "req", "parsed", "x509", "ext",
          "serial", "big_num", "ia5", "general_name", "gens", "issuer_x509", "csr",
          "public_key", "quoted"}

Step(self, uses, makes, frees, undo, fails, lock) ==
    <<[self |-> self, uses |-> uses, makes |-> makes, frees |-> frees,
       undo |-> undo, fails |-> fails, lock |-> lock]>>

\* A call that may fail; undo is freed if it does, frees if it does not.
Try(uses, makes, frees, undo) == Step({}, uses, makes, frees, undo, TRUE, {})
Free(objs) == Step({}, {}, {}, objs, {}, FALSE, {})

\* The authority's object o is used together with the caller's objects.
TrySelf(o, uses, undo) == Step({o}, uses, {}, {}, undo, TRUE, {})

\* lock() on the mutex around the authority's object o; the guard lives until
\* the function returns.
Lock(o) == Step({}, {}, {}, {}, {}, FALSE, {o})

\* A callee whose caller frees cleanup, or drops it, when the callee fails.
Call(program, cleanup) ==
    [i \in DOMAIN program |-> [program[i] EXCEPT !.undo = IF program[i].fails THEN @ \cup cleanup ELSE @]]

create_issuer_x509_name(name) ==
    Try({}, {name}, {}, {}) \o Try({name}, {}, {}, {name})

\* Mutant: the error path of key generation forgets the RSA struct.
KeypairLeakingRsa ==
    Try({}, {"rsa"}, {}, {})
    \o Try({}, {"big_e"}, {}, {"rsa"})
    \o Try({"rsa", "big_e"}, {}, {"big_e"}, {"big_e"})
    \o Try({}, {"ca_key"}, {}, {"rsa"})
    \o Try({"ca_key", "rsa"}, {}, {"rsa"}, {"rsa", "ca_key"})

\* EVP_PKEY_assign_RSA passes rsa to the key whether or not it succeeds.
create_ca_keypair ==
    Try({}, {"rsa"}, {}, {})
    \o Try({}, {"big_e"}, {}, {"rsa"})
    \o Try({"rsa", "big_e"}, {}, {"big_e"}, {"big_e", "rsa"})
    \o Try({}, {"ca_key"}, {}, {"rsa"})
    \o Try({"ca_key", "rsa"}, {}, {"rsa"}, {"rsa", "ca_key"})

create_ca_csr(subject) ==
    Try({}, {"req"}, {}, {}) \o Try({"req", subject, "ca_key"}, {}, {"req"}, {"req"})

extract_trust_domain_from_cert ==
    Try({}, {"parsed"}, {}, {}) \o Try({"parsed"}, {}, {"parsed"}, {"parsed"})

extract_subject_name_from_cert ==
    Try({}, {"parsed"}, {}, {})
    \o Try({"parsed"}, {"issuer_name"}, {"parsed"}, {"parsed"})

add_extension == Try({}, {"ext"}, {}, {}) \o Try({"x509", "ext"}, {}, {"ext"}, {"ext"})

\* An unrestricted profile adds nothing: it skips these steps, which leave
\* the heap as they find it.
set_x509_extended_key_usage == add_extension

x509_to_der(onError) == Try({"x509"}, {}, {"x509"}, onError)

create_ca_x509 ==
    Try({}, {"x509"}, {}, {})
    \o Call(Try({"x509"}, {}, {}, {})                                      \* version
         \o Try({}, {"serial"}, {}, {})
         \o Try({"x509", "serial"}, {}, {"serial"}, {"serial"})
         \o Try({"x509", "issuer_name", "ca_key"}, {}, {}, {})             \* names, key, validity
         \o add_extension                                                  \* basic constraints
         \o add_extension                                                  \* subject key identifier
         \o Try({"x509", "ca_key"}, {}, {}, {}), {"x509"})                 \* sign

\* new_intermediate: the CSR, the TCA's answer (or the caller going away while
\* it is awaited), and what is read from the chain.
new_intermediate ==
    create_issuer_x509_name("subject")
    \o Call(create_ca_keypair, {"subject"})
    \o Call(create_ca_csr("subject"), {"subject", "ca_key"})
    \o Free({"subject"})
    \o Call(Try({}, {}, {}, {})
         \o extract_trust_domain_from_cert
         \o extract_subject_name_from_cert, {"ca_key"})

new_root ==
    create_ca_keypair
    \o Call(create_issuer_x509_name("issuer_name"), {"ca_key"})
    \o Call(create_ca_x509
         \o x509_to_der({"x509"}), {"issuer_name", "ca_key"})

set_x509_serial_random ==
    Try({}, {"serial"}, {}, {})
    \o Try({}, {"big_num"}, {}, {"serial"})
    \o Try({"big_num", "serial"}, {}, {"big_num"}, {"big_num", "serial"})
    \o Try({"x509", "serial"}, {}, {"serial"}, {"serial"})

\* Mutant: the string is freed although the general name owns it.
SanFreedTwice ==
    Try({}, {"ia5"}, {}, {})
    \o Try({"ia5"}, {}, {}, {"ia5"})
    \o Try({"ia5"}, {"general_name"}, {"ia5"}, {"ia5"})
    \o Try({}, {"gens"}, {}, {"general_name", "ia5"})
    \o Try({"gens", "general_name"}, {}, {"general_name"}, {"general_name", "gens"})
    \o Try({"gens"}, {"ext"}, {"gens"}, {"gens"})

\* GENERAL_NAME_set0_value passes ia5 on, sk_GENERAL_NAME_push the name.
create_san_extension_from_str ==
    Try({}, {"ia5"}, {}, {})
    \o Try({"ia5"}, {}, {}, {"ia5"})
    \o Try({"ia5"}, {"general_name"}, {"ia5"}, {"ia5"})
    \o Try({}, {"gens"}, {}, {"general_name"})
    \o Try({"gens", "general_name"}, {}, {"general_name"}, {"general_name", "gens"})
    \o Try({"gens"}, {"ext"}, {"gens"}, {"gens"})

set_x509_authority_key_identifier ==
    Try({}, {"issuer_x509"}, {}, {})
    \o Try({"issuer_x509", "x509"}, {"ext"}, {"issuer_x509"}, {"issuer_x509"})
    \o Try({"x509", "ext"}, {}, {"ext"}, {"ext"})

\* Mutant: the name is used without its mutex.
CertificateUnlocked ==
    Try({}, {"x509"}, {}, {})
    \o Call(TrySelf("issuer_name", {"x509", "public_key"}, {})
         \o Lock("ca_key")
         \o TrySelf("ca_key", {"x509"}, {})
         \o x509_to_der({}), {"x509"})

\* Mutant: signing locks the name, which its caller has locked.
SignRelocking == Lock("issuer_name") \o TrySelf("ca_key", {"x509"}, {})

sign_x509 == TrySelf("ca_key", {"x509"}, {})

generate_certificate ==
    Try({}, {"x509"}, {}, {})
    \o Call(Try({"x509"}, {}, {}, {})                                      \* version
         \o set_x509_serial_random
         \o Lock("issuer_name")
         \o TrySelf("issuer_name", {"x509", "public_key"}, {})
         \o create_san_extension_from_str
         \o Try({"x509", "ext"}, {}, {"ext"}, {"ext"})
         \o set_x509_extended_key_usage
         \o add_extension                                                  \* basic constraints
         \o add_extension                                                  \* key usage
         \o set_x509_authority_key_identifier
         \o Try({"x509"}, {}, {}, {})                                      \* validity
         \o Lock("ca_key")
         \o sign_x509
         \o x509_to_der({}), {"x509"})

verify_csr_and_get_public_key ==
    Try({}, {"csr"}, {}, {})
    \o Try({"csr"}, {"public_key"}, {}, {"csr"})
    \o Try({"csr", "public_key"}, {}, {"csr"}, {"public_key", "csr"})

\* The quoted key of verify_data_binding is dropped on every path.
verify_data_binding ==
    Try({}, {"quoted"}, {}, {}) \o Try({"quoted", "public_key"}, {}, {"quoted"}, {"quoted"})

\* What a handler does with an authority, up to dropping the identity.  (A
\* session drops it together with its Arc, when the answer was sent.)
Certify ==
    verify_csr_and_get_public_key
    \o Call(verify_data_binding \o generate_certificate, {"public_key"})
    \o Free({"public_key"})

Create == IF SelfSigned THEN new_root ELSE new_intermediate
=============================================================================
