---------------------------- MODULE DataBinding ----------------------------
(***************************************************************************)
(* extract_payload and verify_data_binding of avs_server/src/csr.rs, over  *)
(* the bytes of the user data that attestation evidence carries.  A        *)
(* session expects Length(Nonce) Nonce Length(Key) Key, each length in     *)
(* four big-endian bytes; a unary call expects the key alone.  AvsServer   *)
(* and CsrValidation use what this module establishes: user data binds at  *)
(* most one key and one challenge.                                         *)
(***************************************************************************)
EXTENDS Naturals, Sequences

CONSTANTS Base,         \* number of byte values, 256 in the code
          Tag,          \* first byte of a DER encoded key, 0x30
          NonceLength,  \* 32 in the code
          UserData,     \* the user data examined
          Nonces,       \* the nonces expected
          NoNonce, NoKey

Byte == 0..(Base - 1)
Key == Byte

ASSUME BaseAssumption == Base \in Nat /\ Base > 1
ASSUME TagAssumption == Tag \in Byte \ {0}
ASSUME NonceAssumption ==
    /\ NonceLength \in Nat
    /\ NonceLength < Base * Base * Base
    /\ Nonces \subseteq [1..NonceLength -> Byte]
    /\ NoNonce \notin Nonces
ASSUME UserDataAssumption == UserData \subseteq Seq(Byte)
ASSUME NoKeyAssumption == NoKey \notin Key

\* Mutant: the header is read little-endian.
LittleEndian(data) == data[1] + Base * (data[2] + Base * (data[3] + Base * data[4]))

\* u32::from_be_bytes of the first four bytes.
FromBigEndian(data) == ((data[1] * Base + data[2]) * Base + data[3]) * Base + data[4]

Refused == [ok |-> FALSE, chunk |-> <<>>, rest |-> <<>>]

\* take_chunk: one length-prefixed chunk and what follows it.
TakeChunk(data) ==
    IF Len(data) < 4 THEN Refused
    ELSE LET rest == SubSeq(data, 5, Len(data))
             len == FromBigEndian(data) IN
         IF Len(rest) < len THEN Refused
         ELSE [ok |-> TRUE, chunk |-> SubSeq(rest, 1, len), rest |-> SubSeq(rest, len + 1, Len(rest))]

ExtractPayload(data) ==
    LET nonce == TakeChunk(data)
        key == TakeChunk(nonce.rest) IN
    [ok |-> nonce.ok /\ key.ok /\ key.rest = <<>>, nonce |-> nonce.chunk, key |-> key.chunk]

\* KeyPair::from_bytes: a DER structure and nothing about what follows it.
\* The key is stood for by the byte after the tag.
FromBytes(bytes) ==
    IF Len(bytes) >= 2 /\ bytes[1] = Tag THEN bytes[2] ELSE NoKey

\* Mutant: a session also takes user data without a nonce.
BindsLeniently(data, csr, nonce) ==
    LET quoted == ExtractPayload(data) IN
    \/ FromBytes(data) = csr
    \/ nonce # NoNonce /\ quoted.ok /\ quoted.nonce = nonce /\ FromBytes(quoted.key) = csr

\* verify_data_binding for the CSR's key and the expected nonce, if any.
Binds(data, csr, nonce) ==
    IF nonce = NoNonce
      THEN FromBytes(data) = csr
      ELSE LET quoted == ExtractPayload(data) IN
           quoted.ok /\ quoted.nonce = nonce /\ FromBytes(quoted.key) = csr

-----------------------------------------------------------------------------
VARIABLES payload, csr, nonce, verdict

bindingVars == <<payload, csr, nonce, verdict>>

BindingInit ==
    /\ payload = <<>>
    /\ csr \in Key
    /\ nonce = NoNonce
    /\ verdict = "idle"

\* A request's evidence is verified and carries user data.
Receive ==
    /\ verdict = "idle"
    /\ payload' \in UserData
    /\ csr' \in Key
    /\ nonce' \in Nonces \cup {NoNonce}
    /\ verdict' = "pending"

VerifyUserData ==
    /\ verdict = "pending"
    /\ verdict' = IF payload # <<>> /\ Binds(payload, csr, nonce) THEN "bound" ELSE "refused"
    /\ UNCHANGED <<payload, csr, nonce>>

Answer ==
    /\ verdict \in {"bound", "refused"}
    /\ verdict' = "idle"
    /\ payload' = <<>>
    /\ nonce' = NoNonce
    /\ UNCHANGED csr

BindingNext == Receive \/ VerifyUserData \/ Answer

BindingSpec == BindingInit /\ [][BindingNext]_bindingVars

-----------------------------------------------------------------------------
(* Properties.                                                             *)

\* Types: verify_data_binding ends with one of its two answers, whatever the
\* user data.
BindingTypeOK ==
    /\ payload \in Seq(Byte)
    /\ csr \in Key
    /\ nonce \in Nonces \cup {NoNonce}
    /\ verdict \in {"idle", "pending", "bound", "refused"}

\* User data that verify_data_binding accepts for one key and one challenge
\* is accepted for no other key and no other challenge, and user data made for
\* a session is not accepted by a unary call, nor the reverse.
BindsOneChallenge ==
    verdict = "bound" =>
        \A k \in Key, n \in Nonces \cup {NoNonce} :
            Binds(payload, k, n) => k = csr /\ n = nonce

Digit(number, weight) == (number \div weight) % Base

\* Length-prefixed bytes as a workload writes them.
Frame(bytes) ==
    <<Digit(Len(bytes), Base * Base * Base), Digit(Len(bytes), Base * Base),
      Digit(Len(bytes), Base), Digit(Len(bytes), 1)>> \o bytes

\* A session accepts exactly the framing of its nonce followed by the framing
\* of an encoding of the CSR's key, whose length fits in the four bytes:
\* nothing missing, nothing trailing.
FramingExact ==
    nonce # NoNonce /\ verdict \in {"bound", "refused"} =>
        (verdict = "bound" <=>
            \E i \in 1..Len(payload) :
                LET key == SubSeq(payload, i, Len(payload)) IN
                /\ Len(key) < Base * Base * Base * Base
                /\ payload = Frame(nonce) \o Frame(key)
                /\ FromBytes(key) = csr)
=============================================================================
