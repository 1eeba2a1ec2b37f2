---------------------- MODULE CertificateProgramProofs ----------------------
(***************************************************************************)
(* A small logic of the programs of CertificatePrograms: Balanced(p, ...)  *)
(* says which objects are live and which mutexes are held before and after *)
(* p, and that each of its steps finds what it needs and undoes what it    *)
(* must.  There is a law for one step, for p \o q and for Call, and a      *)
(* lemma for each function of ca.rs.                                       *)
(***************************************************************************)
EXTENDS CertificatePrograms, TLAPS

-----------------------------------------------------------------------------
(* The logic of programs.                                                  *)

Guarded == {"ca_key", "issuer_name"}

StepRecord ==
    [self: SUBSET Names, uses: SUBSET Names, makes: SUBSET Names, frees: SUBSET Names,
     undo: SUBSET Names, fails: BOOLEAN, lock: SUBSET Names]

After(step, live) == (live \cup step.makes) \ step.frees

\* The mutexes of lock are not held yet, and the name's is the first one taken.
InOrder(lock, locked) ==
    lock \cap locked = {} /\ (lock # {} => "issuer_name" \in lock \cup locked)

\* The step may be taken when live are the thread's objects and locked its
\* mutexes: what it touches is live, what it makes is not yet, an error leaves
\* exactly keep, and mutexes are taken in order.
Sound(step, keep, live, locked) ==
    /\ step.uses \subseteq live /\ step.frees \subseteq live /\ step.undo \subseteq live
    /\ step.makes \cap live = {}
    /\ step.fails => live \ step.undo = keep
    /\ step.self \subseteq locked
    /\ step.self \cup step.lock \subseteq Guarded
    /\ InOrder(step.lock, locked)

Follows(step, live, locked, next_live, next_locked) ==
    next_live = After(step, live) /\ next_locked = locked \cup step.lock

\* The objects and the mutexes before each step of p, and after the last.
Outline(p, keep, live, locked) ==
    \A i \in 1..Len(p) :
        /\ Sound(p[i], keep, live[i], locked[i])
        /\ Follows(p[i], live[i], locked[i], live[i + 1], locked[i + 1])

Sets(p) == [1..(Len(p) + 1) -> SUBSET Names]

\* Started with pre live and the mutexes of k held, p ends with post and m,
\* or fails with keep.
Balanced(p, keep, pre, k, post, m) ==
    /\ p \in Seq(StepRecord) /\ Len(p) >= 1
    /\ \E live, locked \in Sets(p) :
         /\ Outline(p, keep, live, locked)
         /\ live[1] = pre /\ locked[1] = k
         /\ live[Len(p) + 1] = post /\ locked[Len(p) + 1] = m

\* One step that is sound.
LEMMA OneStep ==
    ASSUME NEW step \in StepRecord, NEW keep, NEW pre \in SUBSET Names, NEW k \in SUBSET Names,
           Sound(step, keep, pre, k)
    PROVE  Balanced(<<step>>, keep, pre, k, After(step, pre), k \cup step.lock)
<1> DEFINE p == <<step>>
           live == [i \in 1..2 |-> IF i = 1 THEN pre ELSE After(step, pre)]
           locked == [i \in 1..2 |-> IF i = 1 THEN k ELSE k \cup step.lock]
<1>1. p \in Seq(StepRecord) /\ Len(p) = 1 /\ p[1] = step
  OBVIOUS
<1>2. After(step, pre) \in SUBSET Names /\ k \cup step.lock \in SUBSET Names
  BY DEF After, StepRecord
<1> HIDE DEF p
<1>3. live \in Sets(p) /\ locked \in Sets(p)
  BY <1>1, <1>2 DEF Sets
<1>4. live[1] = pre /\ locked[1] = k /\ live[2] = After(step, pre) /\ locked[2] = k \cup step.lock
  OBVIOUS
<1> HIDE DEF live, locked
<1>5. Outline(p, keep, live, locked)
  BY <1>1, <1>4 DEF Outline, Follows
<1>6. Balanced(p, keep, pre, k, After(step, pre), k \cup step.lock)
  BY <1>1, <1>3, <1>4, <1>5 DEF Balanced
<1>7. QED
  BY <1>6 DEF p

\* p, then q from where p ends.
LEMMA InSequence ==
    ASSUME NEW p, NEW q, NEW keep, NEW pre, NEW k, NEW mid, NEW l, NEW post, NEW m,
           Balanced(p, keep, pre, k, mid, l), Balanced(q, keep, mid, l, post, m)
    PROVE  Balanced(p \o q, keep, pre, k, post, m)
<1> DEFINE r == p \o q
           a == Len(p)
           b == Len(q)
<1>1. p \in Seq(StepRecord) /\ q \in Seq(StepRecord) /\ a \in Nat /\ b \in Nat /\ a >= 1 /\ b >= 1
  BY DEF Balanced
<1>2. r \in Seq(StepRecord) /\ Len(r) = a + b
  BY <1>1
<1>3. /\ \A i \in 1..a : r[i] = p[i]
      /\ \A i \in (a + 1)..(a + b) : r[i] = q[i - a]
  BY <1>1
<1>4. PICK L1 \in Sets(p), K1 \in Sets(p) :
         /\ Outline(p, keep, L1, K1)
         /\ L1[1] = pre /\ K1[1] = k /\ L1[a + 1] = mid /\ K1[a + 1] = l
  BY DEF Balanced
<1>5. PICK L2 \in Sets(q), K2 \in Sets(q) :
         /\ Outline(q, keep, L2, K2)
         /\ L2[1] = mid /\ K2[1] = l /\ L2[b + 1] = post /\ K2[b + 1] = m
  BY DEF Balanced
<1> HIDE DEF r, a, b
<1> DEFINE Joined(x, y) == [i \in 1..(a + b + 1) |-> IF i <= a THEN x[i] ELSE y[i - a]]
           live == Joined(L1, L2)
           locked == Joined(K1, K2)
<1>6. ASSUME NEW x \in Sets(p), NEW y \in Sets(q), x[a + 1] = y[1]
      PROVE  /\ Joined(x, y) \in Sets(r)
             /\ \A i \in 1..(a + 1) : Joined(x, y)[i] = x[i]
             /\ \A i \in (a + 1)..(a + b + 1) : Joined(x, y)[i] = y[i - a]
  <2>1. x \in [1..(a + 1) -> SUBSET Names] /\ y \in [1..(b + 1) -> SUBSET Names]
    BY DEF Sets, a, b
  <2>2. \A i \in 1..(a + b + 1) : (IF i <= a THEN x[i] ELSE y[i - a]) \in SUBSET Names
    BY <1>1, <2>1
  <2>3. Joined(x, y) \in Sets(r)
    BY <1>2, <2>2 DEF Sets
  <2>4. QED
    BY <1>1, <1>6, <2>3
<1> HIDE DEF Joined
<1>0. L1[a + 1] = L2[1] /\ K1[a + 1] = K2[1]
  BY <1>4, <1>5
<1>7. /\ live \in Sets(r)
      /\ \A i \in 1..(a + 1) : live[i] = L1[i]
      /\ \A i \in (a + 1)..(a + b + 1) : live[i] = L2[i - a]
  BY <1>0, <1>6, Zenon
<1>8. /\ locked \in Sets(r)
      /\ \A i \in 1..(a + 1) : locked[i] = K1[i]
      /\ \A i \in (a + 1)..(a + b + 1) : locked[i] = K2[i - a]
  BY <1>0, <1>6, Zenon
<1> HIDE DEF live, locked
<1>9. Outline(r, keep, live, locked)
  <2> SUFFICES ASSUME NEW i \in 1..(a + b)
               PROVE  /\ Sound(r[i], keep, live[i], locked[i])
                      /\ Follows(r[i], live[i], locked[i], live[i + 1], locked[i + 1])
    BY <1>2 DEF Outline
  <2>1. CASE i <= a
    <3>1. i \in 1..a /\ i \in 1..(a + 1) /\ i + 1 \in 1..(a + 1)
      BY <1>1, <2>1
    <3>2. QED
      BY <1>3, <1>4, <1>7, <1>8, <3>1 DEF Outline, a
  <2>2. CASE i > a
    <3>1. /\ i - a \in 1..b /\ (i + 1) - a = (i - a) + 1
          /\ i \in (a + 1)..(a + b) /\ i \in (a + 1)..(a + b + 1) /\ i + 1 \in (a + 1)..(a + b + 1)
      BY <1>1, <2>2
    <3>2. QED
      BY <1>3, <1>5, <1>7, <1>8, <3>1 DEF Outline, b
  <2>3. QED
    BY <1>1, <2>1, <2>2
<1>10. /\ live[1] = pre /\ locked[1] = k
       /\ live[Len(r) + 1] = post /\ locked[Len(r) + 1] = m
  BY <1>1, <1>2, <1>4, <1>5, <1>7, <1>8
<1>11. Balanced(r, keep, pre, k, post, m)
  BY <1>1, <1>2, <1>7, <1>8, <1>9, <1>10 DEF Balanced
<1>12. QED
  BY <1>11 DEF r

\* A callee that fails with what its caller frees then, fails with the rest.
LEMMA Called ==
    ASSUME NEW p, NEW cleanup \in SUBSET Names, NEW keep, NEW pre, NEW k, NEW post, NEW m,
           Balanced(p, keep \cup cleanup, pre, k, post, m), keep \cap cleanup = {}
    PROVE  Balanced(Call(p, cleanup), keep, pre, k, post, m)
<1> DEFINE Undoing(step) == [step EXCEPT !.undo = IF step.fails THEN @ \cup cleanup ELSE @]
           r == [i \in DOMAIN p |-> Undoing(p[i])]
<1>1. p \in Seq(StepRecord) /\ Len(p) \in Nat /\ Len(p) >= 1 /\ DOMAIN p = 1..Len(p)
  BY DEF Balanced
<1>2. Call(p, cleanup) = r
  BY DEF Call
<1>3. PICK live \in Sets(p), locked \in Sets(p) :
         /\ Outline(p, keep \cup cleanup, live, locked)
         /\ live[1] = pre /\ locked[1] = k /\ live[Len(p) + 1] = post /\ locked[Len(p) + 1] = m
  BY DEF Balanced
<1>4. ASSUME NEW step \in StepRecord
      PROVE  /\ Undoing(step) \in StepRecord
             /\ \A now, held_now :
                  Sound(step, keep \cup cleanup, now, held_now) => Sound(Undoing(step), keep, now, held_now)
             /\ \A now, held_now, then, held_then :
                  Follows(step, now, held_now, then, held_then) =>
                    Follows(Undoing(step), now, held_now, then, held_then)
  <2> DEFINE s == Undoing(step)
  <2>1. /\ s.self = step.self /\ s.uses = step.uses /\ s.makes = step.makes /\ s.frees = step.frees
        /\ s.fails = step.fails /\ s.lock = step.lock
        /\ s.undo = IF step.fails THEN step.undo \cup cleanup ELSE step.undo
    BY DEF StepRecord
  <2>2. s \in StepRecord
    BY DEF StepRecord
  <2> HIDE DEF s
  <2>3. ASSUME NEW now, NEW held_now, Sound(step, keep \cup cleanup, now, held_now)
        PROVE  Sound(s, keep, now, held_now)
    BY <2>1, <2>3 DEF Sound
  <2>4. ASSUME NEW now, NEW held_now, NEW then, NEW held_then,
               Follows(step, now, held_now, then, held_then)
        PROVE  Follows(s, now, held_now, then, held_then)
    BY <2>1, <2>4 DEF Follows, After
  <2>5. QED
    BY <2>2, <2>3, <2>4, Zenon DEF s
<1> HIDE DEF Undoing
<1>5. \A i \in 1..Len(p) : p[i] \in StepRecord
  BY <1>1
<1>6. r \in Seq(StepRecord) /\ Len(r) = Len(p) /\ \A i \in 1..Len(p) : r[i] = Undoing(p[i])
  BY <1>1, <1>4, <1>5
<1> HIDE DEF r
<1>7. Outline(r, keep, live, locked)
  BY <1>3, <1>4, <1>5, <1>6, Zenon DEF Outline
<1>8. live \in Sets(r) /\ locked \in Sets(r)
  BY <1>3, <1>6 DEF Sets
<1>9. QED
  BY <1>1, <1>2, <1>3, <1>6, <1>7, <1>8 DEF Balanced

\* The names of the objects, once for all.
LEMMA NamesOf ==
    /\ {"rsa", "big_e", "ca_key", "issuer_name", "subject", "req"} \subseteq Names
    /\ {"parsed", "x509", "ext", "serial", "big_num", "ia5"} \subseteq Names
    /\ {"general_name", "gens", "issuer_x509", "csr", "public_key", "quoted"} \subseteq Names
BY DEF Names

\* A step that takes no mutex is in order.
LEMMA NoLockInOrder == \A k : InOrder({}, k)
BY DEF InOrder

\* Step, from what it finds and what it must undo.
LEMMA StepLaw ==
    ASSUME NEW self \in SUBSET Guarded, NEW uses \in SUBSET Names, NEW makes \in SUBSET Names,
           NEW frees \in SUBSET Names, NEW undo \in SUBSET Names, NEW fails \in BOOLEAN,
           NEW lock \in SUBSET Guarded, NEW keep, NEW pre \in SUBSET Names, NEW k \in SUBSET Names,
           self \subseteq k, uses \subseteq pre, frees \subseteq pre, undo \subseteq pre,
           makes \cap pre = {}, fails => pre \ undo = keep, InOrder(lock, k)
    PROVE  Balanced(Step(self, uses, makes, frees, undo, fails, lock),
                    keep, pre, k, (pre \cup makes) \ frees, k \cup lock)
<1> DEFINE step == [self |-> self, uses |-> uses, makes |-> makes, frees |-> frees,
                    undo |-> undo, fails |-> fails, lock |-> lock]
<1>0. Guarded \subseteq Names
  BY NamesOf DEF Guarded
<1>1. step \in StepRecord
  BY <1>0 DEF StepRecord
<1>2. Sound(step, keep, pre, k)
  BY DEF Sound
<1>3. After(step, pre) = (pre \cup makes) \ frees /\ step.lock = lock
  BY DEF After
<1>4. Step(self, uses, makes, frees, undo, fails, lock) = <<step>>
  BY DEF Step
<1> HIDE DEF step
<1>5. Balanced(<<step>>, keep, pre, k, After(step, pre), k \cup step.lock)
  BY <1>1, <1>2, OneStep
<1>6. QED
  BY <1>3, <1>4, <1>5, Zenon

\* A call that may fail.
LEMMA TryLaw ==
    ASSUME NEW uses \in SUBSET Names, NEW makes \in SUBSET Names, NEW frees \in SUBSET Names,
           NEW undo \in SUBSET Names, NEW keep, NEW pre \in SUBSET Names, NEW k \in SUBSET Names,
           NEW post,
           uses \subseteq pre, frees \subseteq pre, undo \subseteq pre, makes \cap pre = {},
           pre \ undo = keep, post = (pre \cup makes) \ frees
    PROVE  Balanced(Try(uses, makes, frees, undo), keep, pre, k, post, k)
<1>1. Balanced(Try(uses, makes, frees, undo), keep, pre, k, (pre \cup makes) \ frees, k \cup {})
  BY StepLaw, NoLockInOrder, Zenon DEF Try
<1>2. QED
  BY <1>1

\* Objects that are freed on every path.
LEMMA FreeLaw ==
    ASSUME NEW objs \in SUBSET Names, NEW keep, NEW pre \in SUBSET Names, NEW k \in SUBSET Names,
           NEW post, objs \subseteq pre, post = pre \ objs
    PROVE  Balanced(Free(objs), keep, pre, k, post, k)
<1>1. Balanced(Free(objs), keep, pre, k, (pre \cup {}) \ objs, k \cup {})
  BY StepLaw, NoLockInOrder, Zenon DEF Free
<1>2. QED
  BY <1>1

\* The authority's object is used by a caller that holds its mutex.
LEMMA TrySelfLaw ==
    ASSUME NEW o \in Guarded, NEW uses \in SUBSET Names, NEW undo \in SUBSET Names,
           NEW keep, NEW pre \in SUBSET Names, NEW k \in SUBSET Names,
           o \in k, uses \subseteq pre, undo \subseteq pre, pre \ undo = keep
    PROVE  Balanced(TrySelf(o, uses, undo), keep, pre, k, pre, k)
<1>1. Balanced(TrySelf(o, uses, undo), keep, pre, k, (pre \cup {}) \ {}, k \cup {})
  BY StepLaw, NoLockInOrder, Zenon DEF TrySelf
<1>2. QED
  BY <1>1

\* A mutex is taken.
LEMMA LockLaw ==
    ASSUME NEW o \in Guarded, NEW keep, NEW pre \in SUBSET Names, NEW k \in SUBSET Names,
           o \notin k, "issuer_name" \in k \cup {o}
    PROVE  Balanced(Lock(o), keep, pre, k, pre, k \cup {o})
<1>0. InOrder({o}, k)
  BY DEF InOrder
<1>1. Balanced(Lock(o), keep, pre, k, (pre \cup {}) \ {}, k \cup {o})
  BY <1>0, StepLaw, Zenon DEF Lock
<1>2. QED
  BY <1>1

-----------------------------------------------------------------------------
(* The functions of ca.rs, called with the objects of F live.              *)

\* create_issuer_x509_name makes one name, or nothing.
LEMMA IssuerNameBalanced ==
    ASSUME NEW name \in Names, NEW F \in SUBSET Names, NEW k \in SUBSET Names, name \notin F
    PROVE  Balanced(create_issuer_x509_name(name), F, F, k, F \cup {name}, k)
<1>1. /\ Balanced(Try({}, {name}, {}, {}), F, F, k, F \cup {name}, k)
      /\ Balanced(Try({name}, {}, {}, {name}), F, F \cup {name}, k, F \cup {name}, k)
  BY TryLaw
<1>3. QED
  BY <1>1, InSequence DEF create_issuer_x509_name

\* create_ca_keypair makes the key, or nothing: the RSA structure and the
\* exponent are gone on every path.
LEMMA KeypairBalanced ==
    ASSUME NEW F \in SUBSET Names, NEW k \in SUBSET Names, F \cap {"rsa", "big_e", "ca_key"} = {}
    PROVE  Balanced(create_ca_keypair, F, F, k, F \cup {"ca_key"}, k)
<1> USE NamesOf
<1>1. /\ Balanced(Try({}, {"rsa"}, {}, {}), F, F, k, F \cup {"rsa"}, k)
      /\ Balanced(Try({}, {"big_e"}, {}, {"rsa"}), F, F \cup {"rsa"}, k, F \cup {"rsa", "big_e"}, k)
      /\ Balanced(Try({"rsa", "big_e"}, {}, {"big_e"}, {"big_e", "rsa"}),
                  F, F \cup {"rsa", "big_e"}, k, F \cup {"rsa"}, k)
      /\ Balanced(Try({}, {"ca_key"}, {}, {"rsa"}), F, F \cup {"rsa"}, k, F \cup {"rsa", "ca_key"}, k)
      /\ Balanced(Try({"ca_key", "rsa"}, {}, {"rsa"}, {"rsa", "ca_key"}),
                  F, F \cup {"rsa", "ca_key"}, k, F \cup {"ca_key"}, k)
  BY TryLaw
<1>6. QED
  BY <1>1, InSequence DEF create_ca_keypair

\* create_ca_csr leaves nothing behind.
LEMMA CsrBalanced ==
    ASSUME NEW subject \in Names, NEW F \in SUBSET Names, NEW k \in SUBSET Names,
           {subject, "ca_key"} \subseteq F, "req" \notin F
    PROVE  Balanced(create_ca_csr(subject), F, F, k, F, k)
<1> USE NamesOf
<1>1. /\ Balanced(Try({}, {"req"}, {}, {}), F, F, k, F \cup {"req"}, k)
      /\ Balanced(Try({"req", subject, "ca_key"}, {}, {"req"}, {"req"}), F, F \cup {"req"}, k, F, k)
  BY TryLaw
<1>3. QED
  BY <1>1, InSequence DEF create_ca_csr

\* Reading the trust domain of a certificate leaves nothing behind.
LEMMA TrustDomainBalanced ==
    ASSUME NEW F \in SUBSET Names, NEW k \in SUBSET Names, "parsed" \notin F
    PROVE  Balanced(extract_trust_domain_from_cert, F, F, k, F, k)
<1> USE NamesOf
<1>1. /\ Balanced(Try({}, {"parsed"}, {}, {}), F, F, k, F \cup {"parsed"}, k)
      /\ Balanced(Try({"parsed"}, {}, {"parsed"}, {"parsed"}), F, F \cup {"parsed"}, k, F, k)
  BY TryLaw
<1>3. QED
  BY <1>1, InSequence DEF extract_trust_domain_from_cert

\* Copying the subject of a certificate makes the issuer name, or nothing.
LEMMA SubjectNameBalanced ==
    ASSUME NEW F \in SUBSET Names, NEW k \in SUBSET Names, F \cap {"parsed", "issuer_name"} = {}
    PROVE  Balanced(extract_subject_name_from_cert, F, F, k, F \cup {"issuer_name"}, k)
<1> USE NamesOf
<1>1. /\ Balanced(Try({}, {"parsed"}, {}, {}), F, F, k, F \cup {"parsed"}, k)
      /\ Balanced(Try({"parsed"}, {"issuer_name"}, {"parsed"}, {"parsed"}),
                  F, F \cup {"parsed"}, k, F \cup {"issuer_name"}, k)
  BY TryLaw
<1>3. QED
  BY <1>1, InSequence DEF extract_subject_name_from_cert

\* Adding an extension leaves nothing behind.
LEMMA ExtensionBalanced ==
    ASSUME NEW F \in SUBSET Names, NEW k \in SUBSET Names, "x509" \in F, "ext" \notin F
    PROVE  Balanced(add_extension, F, F, k, F, k)
<1> USE NamesOf
<1>1. /\ Balanced(Try({}, {"ext"}, {}, {}), F, F, k, F \cup {"ext"}, k)
      /\ Balanced(Try({"x509", "ext"}, {}, {"ext"}, {"ext"}), F, F \cup {"ext"}, k, F, k)
  BY TryLaw
<1>3. QED
  BY <1>1, InSequence DEF add_extension

\* create_ca_x509 makes the certificate, or nothing.
LEMMA CaX509Balanced ==
    ASSUME NEW F \in SUBSET Names, NEW k \in SUBSET Names,
           {"ca_key", "issuer_name"} \subseteq F, F \cap {"x509", "serial", "ext"} = {}
    PROVE  Balanced(create_ca_x509, F, F, k, F \cup {"x509"}, k)
<1> USE NamesOf
<1> DEFINE G == F \cup {"x509"}
           body == Try({"x509"}, {}, {}, {})
                   \o Try({}, {"serial"}, {}, {})
                   \o Try({"x509", "serial"}, {}, {"serial"}, {"serial"})
                   \o Try({"x509", "issuer_name", "ca_key"}, {}, {}, {})
                   \o add_extension
                   \o add_extension
                   \o Try({"x509", "ca_key"}, {}, {}, {})
<1>1. /\ Balanced(Try({}, {"x509"}, {}, {}), F, F, k, G, k)
      /\ Balanced(Try({"x509"}, {}, {}, {}), G, G, k, G, k)
      /\ Balanced(Try({}, {"serial"}, {}, {}), G, G, k, G \cup {"serial"}, k)
      /\ Balanced(Try({"x509", "serial"}, {}, {"serial"}, {"serial"}), G, G \cup {"serial"}, k, G, k)
      /\ Balanced(Try({"x509", "issuer_name", "ca_key"}, {}, {}, {}), G, G, k, G, k)
  BY TryLaw
<1>6. Balanced(add_extension, G, G, k, G, k)
  BY ExtensionBalanced
<1>7. Balanced(Try({"x509", "ca_key"}, {}, {}, {}), G, G, k, G, k)
  BY TryLaw
<1>8. Balanced(body, G, G, k, G, k)
  <2> HIDE DEF G
  <2>1. QED
    BY <1>1, <1>6, <1>7, InSequence
<1> HIDE DEF body
<1>9. Balanced(Call(body, {"x509"}), F, G, k, G, k)
  BY <1>8, Called
<1>10. create_ca_x509 = Try({}, {"x509"}, {}, {}) \o Call(body, {"x509"})
  BY Zenon DEF create_ca_x509, body
<1>11. QED
  BY <1>1, <1>9, <1>10, InSequence

\* new_root ends with the key and the name of the authority, or with nothing.
LEMMA RootBalanced == Balanced(new_root, {}, {}, {}, Guarded, {})
<1> USE NamesOf DEF Guarded
<1> DEFINE last == create_ca_x509 \o x509_to_der({"x509"})
<1>1. Balanced(create_ca_keypair, {}, {}, {}, {"ca_key"}, {})
  <2>1. Balanced(create_ca_keypair, {}, {}, {}, {} \cup {"ca_key"}, {})
    BY KeypairBalanced
  <2>2. QED
    BY <2>1
<1>2. Balanced(Call(create_issuer_x509_name("issuer_name"), {"ca_key"}), {}, {"ca_key"}, {}, Guarded, {})
  <2>1. Balanced(create_issuer_x509_name("issuer_name"), {"ca_key"}, {"ca_key"}, {},
                 {"ca_key"} \cup {"issuer_name"}, {})
    BY IssuerNameBalanced
  <2>2. {"ca_key"} = {} \cup {"ca_key"} /\ {"ca_key"} \cup {"issuer_name"} = Guarded
    OBVIOUS
  <2>3. QED
    BY <2>1, <2>2, Called
<1>3. Balanced(create_ca_x509, Guarded, Guarded, {}, Guarded \cup {"x509"}, {})
  BY CaX509Balanced
<1>4. Balanced(x509_to_der({"x509"}), Guarded, Guarded \cup {"x509"}, {}, Guarded, {})
  BY TryLaw DEF x509_to_der
<1>5. Balanced(last, Guarded, Guarded, {}, Guarded, {})
  BY <1>3, <1>4, InSequence
<1> HIDE DEF last
<1>6. Balanced(Call(last, Guarded), {}, Guarded, {}, Guarded, {})
  <2>1. Guarded = {} \cup Guarded /\ {} \cap Guarded = {} /\ Guarded \in SUBSET Names
    OBVIOUS
  <2>2. QED
    BY <1>5, <2>1, Called
<1>7. Guarded = {"issuer_name", "ca_key"}
  OBVIOUS
<1>8. new_root = create_ca_keypair \o Call(create_issuer_x509_name("issuer_name"), {"ca_key"})
                 \o Call(last, Guarded)
  BY <1>7 DEF new_root, last
<1> HIDE DEF Guarded
<1>9. QED
  BY <1>1, <1>2, <1>6, <1>8, InSequence, Zenon

\* new_intermediate ends with the key and the name of the authority, or with
\* nothing: neither a TCA that does not answer nor a caller that goes away
\* while it is asked leaves an object behind.
LEMMA IntermediateBalanced == Balanced(new_intermediate, {}, {}, {}, Guarded, {})
<1> USE NamesOf
<1> DEFINE S == {"subject"}
           SK == {"subject", "ca_key"}
           C == {"ca_key"}
           tail == Try({}, {}, {}, {}) \o extract_trust_domain_from_cert
                   \o extract_subject_name_from_cert
<1>0. /\ S = {} \cup S /\ SK = {} \cup SK /\ C = {} \cup C /\ SK = S \cup {"ca_key"}
      /\ {} \cap S = {} /\ {} \cap SK = {} /\ {} \cap C = {}
      /\ Guarded = C \cup {"issuer_name"} /\ {S, SK, C} \subseteq SUBSET Names
  BY DEF Guarded
<1>1. Balanced(create_issuer_x509_name("subject"), {}, {}, {}, S, {})
  <2>1. Balanced(create_issuer_x509_name("subject"), {}, {}, {}, {} \cup {"subject"}, {})
    BY IssuerNameBalanced
  <2>2. QED
    BY <2>1
<1>2. Balanced(create_ca_keypair, S, S, {}, SK, {})
  <2>1. Balanced(create_ca_keypair, S, S, {}, S \cup {"ca_key"}, {})
    BY KeypairBalanced
  <2>2. QED
    BY <1>0, <2>1
<1>3. Balanced(create_ca_csr("subject"), SK, SK, {}, SK, {})
  BY CsrBalanced
<1>4. Balanced(Free(S), {}, SK, {}, C, {})
  BY FreeLaw
<1>5. Balanced(tail, C, C, {}, Guarded, {})
  <2>1. Balanced(Try({}, {}, {}, {}), C, C, {}, C, {})
    BY TryLaw
  <2>2. Balanced(extract_trust_domain_from_cert, C, C, {}, C, {})
    BY TrustDomainBalanced
  <2>3. Balanced(extract_subject_name_from_cert, C, C, {}, Guarded, {})
    <3>1. Balanced(extract_subject_name_from_cert, C, C, {}, C \cup {"issuer_name"}, {})
      BY SubjectNameBalanced
    <3>2. QED
      BY <1>0, <3>1
  <2>4. QED
    BY <2>1, <2>2, <2>3, InSequence
<1>6. new_intermediate = create_issuer_x509_name("subject") \o Call(create_ca_keypair, S)
                         \o Call(create_ca_csr("subject"), SK) \o Free(S) \o Call(tail, C)
  BY Zenon DEF new_intermediate
<1> HIDE DEF S, SK, C, tail
<1>7. /\ Balanced(Call(create_ca_keypair, S), {}, S, {}, SK, {})
      /\ Balanced(Call(create_ca_csr("subject"), SK), {}, SK, {}, SK, {})
      /\ Balanced(Call(tail, C), {}, C, {}, Guarded, {})
  BY <1>0, <1>2, <1>3, <1>5, Called
<1>8. QED
  BY <1>1, <1>4, <1>6, <1>7, InSequence, Zenon

\* Whichever way an authority is created.
LEMMA CreateBalanced == Balanced(Create, {}, {}, {}, Guarded, {})
BY RootBalanced, IntermediateBalanced DEF Create

\* set_x509_serial_random leaves nothing behind.
LEMMA SerialBalanced ==
    ASSUME NEW F \in SUBSET Names, NEW k \in SUBSET Names,
           "x509" \in F, F \cap {"serial", "big_num"} = {}
    PROVE  Balanced(set_x509_serial_random, F, F, k, F, k)
<1> USE NamesOf
<1>1. /\ Balanced(Try({}, {"serial"}, {}, {}), F, F, k, F \cup {"serial"}, k)
      /\ Balanced(Try({}, {"big_num"}, {}, {"serial"}),
                  F, F \cup {"serial"}, k, F \cup {"serial", "big_num"}, k)
      /\ Balanced(Try({"big_num", "serial"}, {}, {"big_num"}, {"big_num", "serial"}),
                  F, F \cup {"serial", "big_num"}, k, F \cup {"serial"}, k)
      /\ Balanced(Try({"x509", "serial"}, {}, {"serial"}, {"serial"}), F, F \cup {"serial"}, k, F, k)
  BY TryLaw
<1>5. QED
  BY <1>1, InSequence DEF set_x509_serial_random

\* create_san_extension_from_str makes the extension, or nothing: what owns
\* the string and the general name frees them.
LEMMA SanBalanced ==
    ASSUME NEW F \in SUBSET Names, NEW k \in SUBSET Names,
           F \cap {"ia5", "general_name", "gens", "ext"} = {}
    PROVE  Balanced(create_san_extension_from_str, F, F, k, F \cup {"ext"}, k)
<1> USE NamesOf
<1>1. /\ Balanced(Try({}, {"ia5"}, {}, {}), F, F, k, F \cup {"ia5"}, k)
      /\ Balanced(Try({"ia5"}, {}, {}, {"ia5"}), F, F \cup {"ia5"}, k, F \cup {"ia5"}, k)
      /\ Balanced(Try({"ia5"}, {"general_name"}, {"ia5"}, {"ia5"}),
                  F, F \cup {"ia5"}, k, F \cup {"general_name"}, k)
      /\ Balanced(Try({}, {"gens"}, {}, {"general_name"}),
                  F, F \cup {"general_name"}, k, F \cup {"general_name", "gens"}, k)
      /\ Balanced(Try({"gens", "general_name"}, {}, {"general_name"}, {"general_name", "gens"}),
                  F, F \cup {"general_name", "gens"}, k, F \cup {"gens"}, k)
      /\ Balanced(Try({"gens"}, {"ext"}, {"gens"}, {"gens"}), F, F \cup {"gens"}, k, F \cup {"ext"}, k)
  BY TryLaw
<1>7. QED
  BY <1>1, InSequence DEF create_san_extension_from_str

\* set_x509_authority_key_identifier leaves nothing behind.
LEMMA AuthorityKeyBalanced ==
    ASSUME NEW F \in SUBSET Names, NEW k \in SUBSET Names,
           "x509" \in F, F \cap {"issuer_x509", "ext"} = {}
    PROVE  Balanced(set_x509_authority_key_identifier, F, F, k, F, k)
<1> USE NamesOf
<1>1. /\ Balanced(Try({}, {"issuer_x509"}, {}, {}), F, F, k, F \cup {"issuer_x509"}, k)
      /\ Balanced(Try({"issuer_x509", "x509"}, {"ext"}, {"issuer_x509"}, {"issuer_x509"}),
                  F, F \cup {"issuer_x509"}, k, F \cup {"ext"}, k)
      /\ Balanced(Try({"x509", "ext"}, {}, {"ext"}, {"ext"}), F, F \cup {"ext"}, k, F, k)
  BY TryLaw
<1>4. QED
  BY <1>1, InSequence DEF set_x509_authority_key_identifier

\* generate_certificate leaves nothing behind, and uses the authority's name
\* and key only after it has taken their mutexes.
LEMMA GenerateBalanced ==
    ASSUME NEW F \in SUBSET Names, "public_key" \in F,
           F \cap {"x509", "serial", "big_num", "ia5", "general_name", "gens", "ext", "issuer_x509"} = {}
    PROVE  Balanced(generate_certificate, F, F, {}, F, Guarded)
<1> USE NamesOf
<1> DEFINE G == F \cup {"x509"}
           N == {"issuer_name"}
           body == Try({"x509"}, {}, {}, {})
                   \o set_x509_serial_random
                   \o Lock("issuer_name")
                   \o TrySelf("issuer_name", {"x509", "public_key"}, {})
                   \o create_san_extension_from_str
                   \o Try({"x509", "ext"}, {}, {"ext"}, {"ext"})
                   \o set_x509_extended_key_usage
                   \o add_extension
                   \o add_extension
                   \o set_x509_authority_key_identifier
                   \o Try({"x509"}, {}, {}, {})
                   \o Lock("ca_key")
                   \o sign_x509
                   \o x509_to_der({})
<1>0. Guarded = N \cup {"ca_key"} /\ N = {} \cup {"issuer_name"}
  BY DEF Guarded
<1>1. /\ Balanced(Try({}, {"x509"}, {}, {}), F, F, {}, G, {})
      /\ Balanced(Try({"x509"}, {}, {}, {}), G, G, {}, G, {})
  BY TryLaw
<1>3. Balanced(set_x509_serial_random, G, G, {}, G, {})
  BY SerialBalanced
<1>4. Balanced(Lock("issuer_name"), G, G, {}, G, N)
  <2>1. Balanced(Lock("issuer_name"), G, G, {}, G, {} \cup {"issuer_name"})
    BY LockLaw DEF Guarded
  <2>2. QED
    BY <1>0, <2>1
<1>5. Balanced(TrySelf("issuer_name", {"x509", "public_key"}, {}), G, G, N, G, N)
  BY TrySelfLaw DEF Guarded
<1>6. Balanced(create_san_extension_from_str, G, G, N, G \cup {"ext"}, N)
  BY SanBalanced
<1>7. Balanced(Try({"x509", "ext"}, {}, {"ext"}, {"ext"}), G, G \cup {"ext"}, N, G, N)
  BY TryLaw
<1>8. Balanced(add_extension, G, G, N, G, N) /\ Balanced(set_x509_extended_key_usage, G, G, N, G, N)
  BY ExtensionBalanced DEF set_x509_extended_key_usage
<1>9. Balanced(set_x509_authority_key_identifier, G, G, N, G, N)
  BY AuthorityKeyBalanced
<1>10. Balanced(Try({"x509"}, {}, {}, {}), G, G, N, G, N)
  BY TryLaw
<1>11. Balanced(Lock("ca_key"), G, G, N, G, Guarded)
  <2>1. Balanced(Lock("ca_key"), G, G, N, G, N \cup {"ca_key"})
    BY LockLaw DEF Guarded
  <2>2. QED
    BY <1>0, <2>1
<1>12. Balanced(sign_x509, G, G, Guarded, G, Guarded)
  BY TrySelfLaw DEF sign_x509, Guarded
<1>13. Balanced(x509_to_der({}), G, G, Guarded, F, Guarded)
  BY TryLaw DEF x509_to_der, Guarded
<1>14. Balanced(body, G, G, {}, F, Guarded)
  <2> HIDE DEF G, N
  <2>1. QED
    BY <1>1, <1>3, <1>4, <1>5, <1>6, <1>7, <1>8, <1>9, <1>10, <1>11, <1>12, <1>13, InSequence
<1> HIDE DEF body
<1>15. Balanced(Call(body, {"x509"}), F, G, {}, F, Guarded)
  BY <1>14, Called
<1>16. generate_certificate = Try({}, {"x509"}, {}, {}) \o Call(body, {"x509"})
  BY Zenon DEF generate_certificate, body
<1>17. QED
  BY <1>1, <1>15, <1>16, InSequence

\* verify_csr_and_get_public_key makes the key of the CSR, or nothing.
LEMMA VerifyCsrBalanced ==
    Balanced(verify_csr_and_get_public_key, {}, {}, {}, {"public_key"}, {})
<1> USE NamesOf
<1>1. /\ Balanced(Try({}, {"csr"}, {}, {}), {}, {}, {}, {"csr"}, {})
      /\ Balanced(Try({"csr"}, {"public_key"}, {}, {"csr"}), {}, {"csr"}, {}, {"csr", "public_key"}, {})
      /\ Balanced(Try({"csr", "public_key"}, {}, {"csr"}, {"public_key", "csr"}),
                  {}, {"csr", "public_key"}, {}, {"public_key"}, {})
  BY TryLaw
<1>4. QED
  BY <1>1, InSequence DEF verify_csr_and_get_public_key

\* verify_data_binding leaves nothing behind.
LEMMA DataBindingBalanced ==
    ASSUME NEW F \in SUBSET Names, "public_key" \in F, "quoted" \notin F
    PROVE  Balanced(verify_data_binding, F, F, {}, F, {})
<1> USE NamesOf
<1>1. /\ Balanced(Try({}, {"quoted"}, {}, {}), F, F, {}, F \cup {"quoted"}, {})
      /\ Balanced(Try({"quoted", "public_key"}, {}, {"quoted"}, {"quoted"}),
                  F, F \cup {"quoted"}, {}, F, {})
  BY TryLaw
<1>3. QED
  BY <1>1, InSequence DEF verify_data_binding

\* A certification leaves nothing behind.
LEMMA CertifyBalanced == Balanced(Certify, {}, {}, {}, {}, Guarded)
<1> USE NamesOf
<1> DEFINE P == {"public_key"}
           body == verify_data_binding \o generate_certificate
<1>1. Balanced(body, P, P, {}, P, Guarded)
  <2>1. Balanced(verify_data_binding, P, P, {}, P, {}) /\ Balanced(generate_certificate, P, P, {}, P, Guarded)
    BY DataBindingBalanced, GenerateBalanced
  <2>2. QED
    BY <2>1, InSequence
<1>2. P = {} \cup P /\ {} \cap P = {} /\ P \in SUBSET Names
  OBVIOUS
<1>3. Balanced(Free(P), {}, P, Guarded, {}, Guarded)
  BY FreeLaw DEF Guarded
<1>4. Balanced(verify_csr_and_get_public_key, {}, {}, {}, P, {})
  BY VerifyCsrBalanced
<1>5. Certify = verify_csr_and_get_public_key \o Call(body, P) \o Free(P)
  BY Zenon DEF Certify
<1> HIDE DEF P, body
<1>6. Balanced(Call(body, P), {}, P, {}, P, Guarded)
  BY <1>1, <1>2, Called
<1>7. QED
  BY <1>3, <1>4, <1>5, <1>6, InSequence
=============================================================================
