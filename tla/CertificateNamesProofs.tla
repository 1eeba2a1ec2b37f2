----------------------- MODULE CertificateNamesProofs -----------------------
(***************************************************************************)
(* Names are exact for strings of any length: the validation of operators  *)
(* admits the host names, no two holders get the same name, a leaf's name  *)
(* gives the trust domain of its issuer back, and the trust domain of an   *)
(* authority is that of the one SPIFFE ID in the TCA's certificate.        *)
(***************************************************************************)
EXTENDS CertificateNames, WellFoundedInduction, TLAPS

(* Least and greatest elements.                                            *)

\* A non-empty set of numbers has a least element: the first cut, the first
\* separator.
LEMMA LeastExists ==
    ASSUME NEW S \in SUBSET Nat, S # {}
    PROVE  \E x \in S : \A y \in S : x <= y
<1>1. \E x \in S : \A y \in S : ~(<<y, x>> \in OpToRel(<, Nat))
  BY NatLessThanWellFounded, WFMin, Zenon
<1>2. \E x \in S : \A y \in S : ~(y < x)
  BY <1>1, Zenon DEF OpToRel
<1>3. QED
  BY <1>2

\* And a greatest one, if it is bounded: the cut before a character.
LEMMA GreatestExists ==
    ASSUME NEW n \in Nat, NEW S \in SUBSET (0..n), S # {}
    PROVE  \E x \in S : \A y \in S : y <= x
<1> DEFINE T == {m \in Nat : n - m \in S}
<1>1. PICK x \in S : TRUE
  BY Zenon
<1>2. n - x \in T
  OBVIOUS
<1>3. PICK m \in T : \A k \in T : m <= k
  BY <1>2, LeastExists, Zenon
<1>4. ASSUME NEW y \in S PROVE y <= n - m
  <2>1. n - y \in T
    OBVIOUS
  <2>2. QED
    BY <1>3, <2>1
<1>5. QED
  BY <1>3, <1>4

-----------------------------------------------------------------------------
(* The validation of operators.                                            *)

Consecutive(d, i, j) == i < j /\ \A k \in Cuts(d) : k <= i \/ j <= k

\* What ValidSegment says of the label between two cuts, read off the domain.
ValidBetween(d, i, j) ==
    /\ i + 1 < j
    /\ j - i - 1 <= MAX_LABEL_OR_ROLE_LEN
    /\ \A k \in (i + 1)..(j - 1) : d[k] \in Letters \cup {Dash}
    /\ d[i + 1] # Dash /\ d[j - 1] # Dash

\* Cuts are the two ends and the dots.
LEMMA CutsAre ==
    ASSUME NEW d \in String
    PROVE  /\ Cuts(d) \in SUBSET (0..(Len(d) + 1))
           /\ 0 \in Cuts(d) /\ Len(d) + 1 \in Cuts(d)
           /\ \A k \in 1..Len(d) : k \in Cuts(d) <=> d[k] = Dot
           /\ Len(d) \in Nat /\ DOMAIN d = 1..Len(d)
<1>1. Len(d) \in Nat /\ DOMAIN d = 1..Len(d)
  BY DEF String
<1>2. QED
  BY <1>1 DEF Cuts

\* After every place there is a next cut.
LEMMA NextCut ==
    ASSUME NEW d \in String, NEW k \in 0..Len(d)
    PROVE  \E j \in Cuts(d) : k < j /\ \A c \in Cuts(d) : c <= k \/ j <= c
<1> DEFINE S == {c \in Cuts(d) : k < c}
<1>1. /\ Cuts(d) \in SUBSET (0..(Len(d) + 1)) /\ Len(d) + 1 \in Cuts(d)
      /\ Len(d) \in Nat
  BY CutsAre
<1>2. S \in SUBSET Nat /\ S # {}
  BY <1>1
<1>3. PICK j \in S : \A c \in S : j <= c
  BY <1>2, LeastExists, Zenon
<1>4. \A c \in Cuts(d) : c <= k \/ j <= c
  BY <1>1, <1>3
<1>5. QED
  BY <1>3, <1>4

\* Before every place there is a last cut.
LEMMA LastCut ==
    ASSUME NEW d \in String, NEW k \in 1..(Len(d) + 1)
    PROVE  \E i \in Cuts(d) : i < k /\ \A c \in Cuts(d) : c <= i \/ k <= c
<1> DEFINE S == {c \in Cuts(d) : c < k}
<1>1. /\ Cuts(d) \in SUBSET (0..(Len(d) + 1)) /\ 0 \in Cuts(d)
      /\ Len(d) \in Nat
  BY CutsAre
<1>2. S \in SUBSET (0..(Len(d) + 1)) /\ S # {} /\ Len(d) + 1 \in Nat
  BY <1>1
<1>3. PICK i \in S : \A c \in S : c <= i
  BY <1>2, GreatestExists, Zenon
<1>4. \A c \in Cuts(d) : c <= i \/ k <= c
  BY <1>1, <1>3
<1>5. QED
  BY <1>3, <1>4

\* A label is what stands between two cuts.
LEMMA LabelBetween ==
    ASSUME NEW d \in String, NEW i \in Cuts(d), NEW j \in Cuts(d), i < j
    PROVE  ValidSegment(Label(d, i, j)) <=> ValidBetween(d, i, j)
<1> DEFINE l == Label(d, i, j)
<1>1. Len(d) \in Nat /\ i \in 0..Len(d) /\ j \in 1..(Len(d) + 1) /\ DOMAIN d = 1..Len(d)
  BY CutsAre
<1>2. /\ l \in Seq(Chars) /\ Len(l) = j - i - 1
      /\ \A k \in 1..(j - i - 1) : l[k] = d[i + k]
  BY <1>1 DEF Label, String
<1> HIDE DEF l
<1>3. /\ DOMAIN l = 1..(j - i - 1)
      /\ l = <<>> <=> ~(i + 1 < j)
  BY <1>1, <1>2
<1>4. (\A k \in DOMAIN l : is_valid_char(l[k])) <=> \A k \in (i + 1)..(j - 1) : d[k] \in Letters \cup {Dash}
  <2>1. ASSUME \A k \in DOMAIN l : is_valid_char(l[k]), NEW k \in (i + 1)..(j - 1)
        PROVE  d[k] \in Letters \cup {Dash}
    <3>1. k - i \in 1..(j - i - 1) /\ i + (k - i) = k
      BY <1>1
    <3>2. QED
      BY <1>2, <1>3, <2>1, <3>1 DEF is_valid_char
  <2>2. ASSUME \A k \in (i + 1)..(j - 1) : d[k] \in Letters \cup {Dash}, NEW k \in DOMAIN l
        PROVE  is_valid_char(l[k])
    <3>1. i + k \in (i + 1)..(j - 1)
      BY <1>1, <1>3
    <3>2. QED
      BY <1>2, <1>3, <2>2, <3>1 DEF is_valid_char
  <2>3. QED
    BY <2>1, <2>2
<1>5. ASSUME i + 1 < j
      PROVE  l[1] = d[i + 1] /\ l[Len(l)] = d[j - 1]
  BY <1>1, <1>2, <1>5
<1>6. ValidSegment(l) <=> ValidBetween(d, i, j)
  BY <1>2, <1>3, <1>4, <1>5 DEF ValidSegment, ValidBetween
<1>7. QED
  BY <1>6 DEF l

\* A domain is valid iff it is well formed between any two neighbouring cuts.
LEMMA DomainByCuts ==
    ASSUME NEW d \in String
    PROVE  validate_domain(d) <=>
             /\ Len(d) >= 1 /\ Len(d) <= MAX_DOMAIN_LEN
             /\ \A i, j \in Cuts(d) : Consecutive(d, i, j) => ValidBetween(d, i, j)
<1>1. \A i, j \in Cuts(d) : i < j => (ValidSegment(Label(d, i, j)) <=> ValidBetween(d, i, j))
  BY LabelBetween
<1>2. d # <<>> <=> Len(d) >= 1
  BY DEF String
<1>3. QED
  BY <1>1, <1>2 DEF validate_domain, Consecutive

\* What validate_domain admits is a host name within the lengths.
LEMMA ValidDomainIsName ==
    ASSUME NEW d \in String, validate_domain(d)
    PROVE  DomainName(d)
<1>1. /\ Cuts(d) \in SUBSET (0..(Len(d) + 1))
      /\ 0 \in Cuts(d) /\ Len(d) + 1 \in Cuts(d)
      /\ \A k \in 1..Len(d) : k \in Cuts(d) <=> d[k] = Dot
      /\ Len(d) \in Nat /\ DOMAIN d = 1..Len(d)
  BY CutsAre
<1>2. /\ Len(d) >= 1 /\ Len(d) <= MAX_DOMAIN_LEN
      /\ \A i, j \in Cuts(d) : Consecutive(d, i, j) => ValidBetween(d, i, j)
  BY DomainByCuts
<1>3. \A i \in Cuts(d) : i <= Len(d) => d[i + 1] \in Letters
  <2> SUFFICES ASSUME NEW i \in Cuts(d), i <= Len(d)
               PROVE  d[i + 1] \in Letters
    OBVIOUS
  <2>1. PICK j \in Cuts(d) : i < j /\ \A c \in Cuts(d) : c <= i \/ j <= c
    BY <1>1, NextCut
  <2>2. ValidBetween(d, i, j)
    BY <1>2, <2>1 DEF Consecutive
  <2>3. QED
    BY <1>1, <2>2 DEF ValidBetween
<1>4. \A j \in Cuts(d) : 1 <= j => d[j - 1] \in Letters
  <2> SUFFICES ASSUME NEW j \in Cuts(d), 1 <= j
               PROVE  d[j - 1] \in Letters
    OBVIOUS
  <2>1. PICK i \in Cuts(d) : i < j /\ \A c \in Cuts(d) : c <= i \/ j <= c
    BY <1>1, LastCut
  <2>2. ValidBetween(d, i, j)
    BY <1>2, <2>1 DEF Consecutive
  <2>3. QED
    BY <1>1, <2>2 DEF ValidBetween
<1>5. \A k \in DOMAIN d : d[k] \in Letters \cup {Dash, Dot}
  <2> SUFFICES ASSUME NEW k \in DOMAIN d, d[k] # Dot
               PROVE  d[k] \in Letters \cup {Dash}
    OBVIOUS
  <2>1. PICK i \in Cuts(d) : i < k /\ \A c \in Cuts(d) : c <= i \/ k <= c
    BY <1>1, LastCut
  <2>2. PICK j \in Cuts(d) : k < j /\ \A c \in Cuts(d) : c <= k \/ j <= c
    BY <1>1, NextCut
  <2>3. k \notin Cuts(d)
    BY <1>1
  <2>4. Consecutive(d, i, j)
    BY <1>1, <2>1, <2>2, <2>3 DEF Consecutive
  <2>5. ValidBetween(d, i, j)
    BY <1>2, <2>4
  <2>6. QED
    BY <1>1, <2>1, <2>2, <2>5 DEF ValidBetween
<1>6. ASSUME NEW i \in 0..(Len(d) - MAX_LABEL_OR_ROLE_LEN - 1)
      PROVE  \E j \in (i + 1)..(i + MAX_LABEL_OR_ROLE_LEN + 1) : d[j] = Dot
  <2>1. i \in 0..Len(d) /\ i + 1 \in 1..(Len(d) + 1)
    BY <1>1, LengthsAssumption
  <2>2. PICK a \in Cuts(d) : a < i + 1 /\ \A c \in Cuts(d) : c <= a \/ i + 1 <= c
    BY <2>1, LastCut
  <2>3. PICK b \in Cuts(d) : i < b /\ \A c \in Cuts(d) : c <= i \/ b <= c
    BY <2>1, NextCut
  <2>4. Consecutive(d, a, b)
    BY <1>1, <2>2, <2>3 DEF Consecutive
  <2>5. b - a - 1 <= MAX_LABEL_OR_ROLE_LEN
    BY <1>2, <2>4 DEF ValidBetween
  <2>6. b \in (i + 1)..(i + MAX_LABEL_OR_ROLE_LEN + 1) /\ b \in 1..Len(d)
    BY <1>1, <2>1, <2>2, <2>3, <2>5, LengthsAssumption
  <2>7. QED
    BY <1>1, <2>6
<1>7. d[1] \in Letters /\ d[Len(d)] \in Letters
  <2>1. d[0 + 1] \in Letters
    BY <1>1, <1>3
  <2>2. d[Len(d) + 1 - 1] \in Letters
    BY <1>1, <1>4
  <2>3. QED
    BY <1>1, <2>1, <2>2
<1>8. \A i \in 1..(Len(d) - 1) : d[i] = Dot => d[i + 1] \in Letters
  BY <1>1, <1>3
<1>9. ASSUME NEW i \in 1..(Len(d) - 1), d[i + 1] = Dot
      PROVE  d[i] \in Letters
  <2>1. i + 1 \in Cuts(d) /\ (i + 1) - 1 = i
    BY <1>1, <1>9
  <2>2. QED
    BY <1>4, <2>1
<1>10. QED
  BY <1>2, <1>5, <1>6, <1>7, <1>8, <1>9 DEF DomainName, HostName

\* And every host name within the lengths is admitted.
LEMMA NameIsValidDomain ==
    ASSUME NEW d \in String, DomainName(d)
    PROVE  validate_domain(d)
<1>1. /\ Cuts(d) \in SUBSET (0..(Len(d) + 1))
      /\ 0 \in Cuts(d) /\ Len(d) + 1 \in Cuts(d)
      /\ \A k \in 1..Len(d) : k \in Cuts(d) <=> d[k] = Dot
      /\ Len(d) \in Nat /\ DOMAIN d = 1..Len(d)
  BY CutsAre
<1>2. /\ Len(d) >= 1 /\ Len(d) <= MAX_DOMAIN_LEN
      /\ d[1] \in Letters /\ d[Len(d)] \in Letters
      /\ \A i \in DOMAIN d : d[i] \in Letters \cup {Dash, Dot}
      /\ \A i \in 1..(Len(d) - 1) : d[i] = Dot => d[i + 1] \in Letters
      /\ \A i \in 1..(Len(d) - 1) : d[i + 1] = Dot => d[i] \in Letters
      /\ \A i \in 0..(Len(d) - MAX_LABEL_OR_ROLE_LEN - 1) :
           \E j \in (i + 1)..(i + MAX_LABEL_OR_ROLE_LEN + 1) : d[j] = Dot
  BY DEF DomainName, HostName
<1>3. Dot \notin Letters /\ Dash \notin Letters
  BY LettersAssumption
<1> SUFFICES ASSUME NEW i \in Cuts(d), NEW j \in Cuts(d), Consecutive(d, i, j)
             PROVE  ValidBetween(d, i, j)
  BY <1>2, DomainByCuts
<1>4. i \in 0..Len(d) /\ j \in 1..(Len(d) + 1) /\ i < j /\ \A k \in Cuts(d) : k <= i \/ j <= k
  BY <1>1 DEF Consecutive
<1>5. i < Len(d) /\ d[i + 1] \in Letters
  BY <1>1, <1>2, <1>3, <1>4
<1>6. 1 < j /\ d[j - 1] \in Letters
  <2>1. CASE j = Len(d) + 1
    BY <1>1, <1>2, <2>1
  <2>2. CASE j \in 1..Len(d)
    <3>1. d[j] = Dot
      BY <1>1, <2>2
    <3>2. 1 < j
      BY <1>2, <1>3, <2>2, <3>1
    <3>3. j - 1 \in 1..(Len(d) - 1) /\ (j - 1) + 1 = j
      BY <1>1, <2>2, <3>2
    <3>4. QED
      BY <1>2, <3>1, <3>2, <3>3
  <2>3. QED
    BY <1>4, <2>1, <2>2
<1>7. i + 1 < j
  BY <1>1, <1>3, <1>4, <1>5
<1>8. ASSUME NEW k \in (i + 1)..(j - 1) PROVE d[k] \in Letters \cup {Dash}
  <2>1. k \in 1..Len(d) /\ i < k /\ k < j
    BY <1>1, <1>4
  <2>2. k \notin Cuts(d)
    BY <1>4, <2>1
  <2>3. QED
    BY <1>1, <1>2, <2>1, <2>2
<1>9. j - i - 1 <= MAX_LABEL_OR_ROLE_LEN
  <2> SUFFICES ASSUME j - i - 1 > MAX_LABEL_OR_ROLE_LEN
               PROVE  FALSE
    BY <1>1, <1>4, LengthsAssumption
  <2>1. i \in 0..(Len(d) - MAX_LABEL_OR_ROLE_LEN - 1)
    BY <1>1, <1>4, LengthsAssumption
  <2>2. PICK c \in (i + 1)..(i + MAX_LABEL_OR_ROLE_LEN + 1) : d[c] = Dot
    BY <1>2, <2>1
  <2>3. c \in 1..Len(d) /\ i < c /\ c < j
    BY <1>1, <1>4, LengthsAssumption
  <2>4. QED
    BY <1>1, <1>4, <2>2, <2>3
<1>10. QED
  BY <1>3, <1>5, <1>6, <1>7, <1>8, <1>9 DEF ValidBetween

\* What validate_role admits is a host name of one label.
LEMMA ValidRoleIsName ==
    ASSUME NEW r \in String
    PROVE  validate_role(r) <=> RoleName(r)
<1>1. Len(r) \in Nat /\ DOMAIN r = 1..Len(r) /\ (r # <<>> <=> Len(r) >= 1)
  BY DEF String
<1>2. Dot \notin Letters /\ Dash \notin Letters /\ Dash # Dot /\ MAX_LABEL_OR_ROLE_LEN \in Nat
  BY LettersAssumption, LengthsAssumption DEF Dash, Dot
<1>3. ASSUME validate_role(r) PROVE RoleName(r)
  <2>1. /\ Len(r) >= 1 /\ Len(r) <= MAX_LABEL_OR_ROLE_LEN
        /\ \A i \in DOMAIN r : r[i] \in Letters \cup {Dash}
        /\ r[1] # Dash /\ r[Len(r)] # Dash
    BY <1>1, <1>3 DEF validate_role, ValidSegment, is_valid_char
  <2>2. \A i \in 1..Len(r) : r[i] # Dot
    BY <1>1, <1>2, <2>1
  <2>3. \A i \in 0..(Len(r) - MAX_LABEL_OR_ROLE_LEN - 1) : FALSE
    BY <1>1, <1>2, <2>1
  <2>4. \A i \in 1..(Len(r) - 1) : r[i] # Dot /\ r[i + 1] # Dot
    BY <1>1, <2>2
  <2>5. QED
    BY <1>1, <1>2, <2>1, <2>2, <2>3, <2>4 DEF RoleName, HostName
<1>4. ASSUME RoleName(r) PROVE validate_role(r)
  <2>1. /\ Len(r) >= 1 /\ r[1] \in Letters /\ r[Len(r)] \in Letters
        /\ \A i \in 1..Len(r) : r[i] \in Letters \cup {Dash, Dot} /\ r[i] # Dot
        /\ \A i \in 0..(Len(r) - MAX_LABEL_OR_ROLE_LEN - 1) :
             \E j \in (i + 1)..(i + MAX_LABEL_OR_ROLE_LEN + 1) : r[j] = Dot
    BY <1>1, <1>4 DEF RoleName, HostName
  <2>2. Len(r) <= MAX_LABEL_OR_ROLE_LEN
    <3> SUFFICES ASSUME Len(r) > MAX_LABEL_OR_ROLE_LEN
                 PROVE  FALSE
      BY <1>1, <1>2
    <3>1. 0 \in 0..(Len(r) - MAX_LABEL_OR_ROLE_LEN - 1)
      BY <1>1, <1>2
    <3>2. PICK j \in (0 + 1)..(0 + MAX_LABEL_OR_ROLE_LEN + 1) : r[j] = Dot
      BY <2>1, <3>1
    <3>3. j \in 1..Len(r)
      BY <1>1, <1>2
    <3>4. QED
      BY <2>1, <3>2, <3>3
  <2>3. QED
    BY <1>1, <1>2, <2>1, <2>2 DEF validate_role, ValidSegment, is_valid_char
<1>5. QED
  BY <1>3, <1>4

-----------------------------------------------------------------------------
(* Trust domains.                                                          *)

SlashFree == Seq(Chars \ {Slash})

\* What extract_spiffe_trust_domain can return.
TrustName == Seq((Chars \ NonGraphic) \ {Slash})

Begins(r, s) == \A i \in 1..Len(r) : r[i] = s[i]

\* Before cuts a string off in front of the first character of stop.
LEMMA BeforeIs ==
    ASSUME NEW C, NEW s \in Seq(C), NEW stop
    PROVE  /\ Before(s, stop) \in Seq(C \ stop)
           /\ Len(Before(s, stop)) \in 0..Len(s)
           /\ Begins(Before(s, stop), s)
           /\ Len(Before(s, stop)) < Len(s) => s[Len(Before(s, stop)) + 1] \in stop
<1> DEFINE ends == {i \in DOMAIN s : s[i] \in stop}
<1>1. Len(s) \in Nat /\ DOMAIN s = 1..Len(s) /\ \A i \in 1..Len(s) : s[i] \in C
  OBVIOUS
<1>2. CASE ends = {}
  <2>1. Before(s, stop) = s
    BY <1>2 DEF Before
  <2>2. \A i \in 1..Len(s) : s[i] \in C \ stop
    BY <1>1, <1>2
  <2>3. s \in Seq(C \ stop)
    BY <1>1, <2>2
  <2>4. QED
    BY <1>1, <2>1, <2>3 DEF Begins
<1>3. CASE ends # {}
  <2> DEFINE e == CHOOSE i \in ends : \A j \in ends : i <= j
             b == SubSeq(s, 1, e - 1)
  <2>1. ends \in SUBSET Nat
    BY <1>1
  <2>2. e \in ends /\ \A j \in ends : e <= j
    BY <1>3, <2>1, LeastExists, Zenon
  <2>3. Before(s, stop) = b
    BY <1>3, Zenon DEF Before
  <2> HIDE DEF e
  <2>4. e \in 1..Len(s) /\ s[e] \in stop /\ \A j \in 1..(e - 1) : s[j] \in C \ stop
    BY <1>1, <2>2
  <2>5. b \in Seq(C) /\ Len(b) = e - 1 /\ \A j \in 1..(e - 1) : b[j] = s[j]
    BY <1>1, <2>4
  <2> HIDE DEF b
  <2>6. b \in Seq(C \ stop)
    BY <1>1, <2>4, <2>5
  <2>7. Len(b) + 1 = e /\ Len(b) \in 0..Len(s)
    BY <1>1, <2>4, <2>5
  <2>8. Begins(b, s)
    BY <2>5 DEF Begins
  <2>9. QED
    BY <2>3, <2>4, <2>6, <2>7, <2>8, Zenon
<1>4. QED
  BY <1>2, <1>3

\* The scheme of a SPIFFE ID is a string.
LEMMA SchemeType == SCHEME \in String
BY WordsAssumption DEF SCHEME, String, Chars

\* The trust domain read from a certificate holds no '/' and nothing unprintable.
LEMMA ExtractType ==
    ASSUME NEW bytes \in String
    PROVE  extract_spiffe_trust_domain(bytes) \in TrustName
<1> DEFINE starts == Matches(bytes)
           start == CHOOSE i \in starts : TRUE
           uri == Before(SubSeq(bytes, start, Len(bytes)), NonGraphic)
           rest == SubSeq(uri, Len(SCHEME) + 1, Len(uri))
<1>1. CASE \A i \in starts : starts # {i}
  <2>1. extract_spiffe_trust_domain(bytes) = <<>>
    BY <1>1 DEF extract_spiffe_trust_domain
  <2>2. QED
    BY <2>1 DEF TrustName
<1>2. CASE ~ \A i \in starts : starts # {i}
  <2>1. starts # {}
    BY <1>2
  <2>2. start \in starts
    BY <2>1
  <2>3. Len(SCHEME) \in Nat /\ Len(bytes) \in Nat
    BY SchemeType DEF String
  <2>4. start \in 1..Len(bytes) \/ start = Len(bytes) + 1
    BY <2>2, <2>3 DEF Matches
  <2> HIDE DEF start
  <2>5. SubSeq(bytes, start, Len(bytes)) \in String
    BY <2>3, <2>4 DEF String
  <2>6. uri \in Seq(Chars \ NonGraphic)
    BY <2>5, BeforeIs, Zenon DEF String
  <2> HIDE DEF uri
  <2>7. rest \in Seq(Chars \ NonGraphic)
    BY <2>3, <2>6
  <2> HIDE DEF rest
  <2>8. Before(rest, {Slash}) \in TrustName
    BY <2>7, BeforeIs DEF TrustName
  <2>9. QED
    BY <1>2, <2>8 DEF extract_spiffe_trust_domain, start, uri, rest
<1>3. QED
  BY <1>1, <1>2

\* A trust domain holds no '/'.
LEMMA TrustNameIs == TrustName \subseteq SlashFree
BY DEF TrustName, SlashFree

-----------------------------------------------------------------------------
(* Names and their parts.                                                  *)

\* Concatenation under a name of its own: the steps below rest on the laws
\* stated for it and not on what the provers know of sequences.
Cat(a, b) == a \o b
Sep == <<Slash>>
Join(a, b) == Cat(Cat(a, Sep), b)
Seg(a) == Cat(Sep, a)

\* The part of a SPIFFE ID after the operator, and the part after its scheme.
WorkloadPath(p) ==
    Join(PUBLISHER, Join(p.publisher_domain, Join(p.publisher_role, Join(WORKLOAD, p.workload_name))))
Path(trust, op, p) ==
    Join(trust, Join(OPERATOR, Join(op.domain, Join(op.role, WorkloadPath(p)))))

\* The characters of a concatenation.
LEMMA CatParts ==
    ASSUME NEW a \in String, NEW b \in String
    PROVE  /\ a \o b \in String /\ Len(a \o b) = Len(a) + Len(b)
           /\ \A i \in 1..Len(a) : (a \o b)[i] = a[i]
           /\ \A i \in 1..Len(b) : (a \o b)[Len(a) + i] = b[i]
BY DEF String

\* Strings with the same characters are the same.
LEMMA SameString ==
    ASSUME NEW a \in String, NEW b \in String, Len(a) = Len(b), \A i \in 1..Len(a) : a[i] = b[i]
    PROVE  a = b
BY DEF String

\* Concatenation is associative.
LEMMA CatAssociative ==
    ASSUME NEW a \in String, NEW b \in String, NEW c \in String
    PROVE  Cat(Cat(a, b), c) = Cat(a, Cat(b, c))
<1> DEFINE ab == a \o b
           bc == b \o c
           l == ab \o c
           r == a \o bc
<1>1. /\ ab \in String /\ Len(ab) = Len(a) + Len(b)
      /\ \A i \in 1..Len(a) : ab[i] = a[i]
      /\ \A i \in 1..Len(b) : ab[Len(a) + i] = b[i]
  BY CatParts
<1>2. /\ bc \in String /\ Len(bc) = Len(b) + Len(c)
      /\ \A i \in 1..Len(b) : bc[i] = b[i]
      /\ \A i \in 1..Len(c) : bc[Len(b) + i] = c[i]
  BY CatParts
<1> HIDE DEF ab, bc
<1>3. /\ l \in String /\ Len(l) = Len(ab) + Len(c)
      /\ \A i \in 1..Len(ab) : l[i] = ab[i]
      /\ \A i \in 1..Len(c) : l[Len(ab) + i] = c[i]
  BY <1>1, CatParts, Zenon
<1>4. /\ r \in String /\ Len(r) = Len(a) + Len(bc)
      /\ \A i \in 1..Len(a) : r[i] = a[i]
      /\ \A i \in 1..Len(bc) : r[Len(a) + i] = bc[i]
  BY <1>2, CatParts, Zenon
<1> HIDE DEF l, r
<1>5. Len(a) \in Nat /\ Len(b) \in Nat /\ Len(c) \in Nat
  BY DEF String
<1>6. ASSUME NEW i \in 1..Len(l) PROVE l[i] = r[i]
  <2>1. CASE i <= Len(a)
    BY <1>1, <1>3, <1>4, <1>5, <2>1
  <2>2. CASE Len(a) < i /\ i <= Len(a) + Len(b)
    <3>1. i - Len(a) \in 1..Len(b) /\ Len(a) + (i - Len(a)) = i
      BY <1>5, <2>2
    <3>2. l[i] = b[i - Len(a)]
      <4>1. i \in 1..Len(ab)
        BY <1>1, <1>5, <2>2
      <4>2. l[i] = ab[i]
        BY <1>3, <4>1, Zenon
      <4>3. ab[Len(a) + (i - Len(a))] = b[i - Len(a)]
        BY <1>1, <3>1, Zenon
      <4>4. QED
        BY <3>1, <4>2, <4>3, Zenon
    <3>3. i - Len(a) \in 1..Len(bc)
      BY <1>2, <1>5, <3>1
    <3>4. r[i] = bc[i - Len(a)]
      BY <1>4, <3>1, <3>3, Zenon
    <3>5. bc[i - Len(a)] = b[i - Len(a)]
      BY <1>2, <3>1, Zenon
    <3>6. QED
      BY <3>2, <3>4, <3>5, Zenon
  <2>3. CASE Len(a) + Len(b) < i
    <3>1. /\ i - Len(a) - Len(b) \in 1..Len(c) /\ Len(ab) + (i - Len(a) - Len(b)) = i
          /\ i - Len(a) \in 1..Len(bc) /\ Len(a) + (i - Len(a)) = i
          /\ Len(b) + (i - Len(a) - Len(b)) = i - Len(a)
      BY <1>1, <1>2, <1>3, <1>5, <2>3
    <3>2. l[i] = c[i - Len(a) - Len(b)]
      BY <1>3, <3>1, Zenon
    <3>3. r[i] = bc[i - Len(a)]
      BY <1>4, <3>1
    <3>4. bc[i - Len(a)] = c[i - Len(a) - Len(b)]
      BY <1>2, <3>1, Zenon
    <3>5. QED
      BY <3>2, <3>3, <3>4
  <2>4. QED
    BY <1>1, <1>3, <1>5, <2>1, <2>2, <2>3
<1>7. Len(l) = Len(r)
  BY <1>1, <1>2, <1>3, <1>4, <1>5
<1>8. l = r
  BY <1>3, <1>4, <1>6, <1>7, SameString
<1>9. QED
  BY <1>8 DEF Cat, l, r, ab, bc

\* Strings are closed under concatenation.
LEMMA CatType ==
    ASSUME NEW a \in String, NEW b \in String
    PROVE  Cat(a, b) \in String
BY CatParts DEF Cat

\* The separator is a string.
LEMMA SepType == Sep \in String
BY DEF Sep, String, Chars

\* Joined strings and segments are strings.
LEMMA JoinType ==
    ASSUME NEW a \in String, NEW b \in String
    PROVE  Join(a, b) \in String /\ Seg(a) \in String
BY SepType, CatType DEF Join, Seg

\* Two segments in a row are one segment that holds a separator.
LEMMA FoldSegment ==
    ASSUME NEW h \in String, NEW a \in String, NEW b \in String
    PROVE  Cat(Cat(h, Seg(a)), Seg(b)) = Cat(h, Seg(Join(a, b)))
<1>1. Cat(Sep, a) \in String /\ Cat(Sep, b) \in String /\ Sep \in String
  BY SepType, CatType
<1>2. Cat(Cat(h, Cat(Sep, a)), Cat(Sep, b)) = Cat(h, Cat(Cat(Sep, a), Cat(Sep, b)))
  BY <1>1, CatAssociative
<1>3. Cat(Cat(Sep, a), Cat(Sep, b)) = Cat(Sep, Cat(a, Cat(Sep, b)))
  BY <1>1, CatAssociative
<1>4. Cat(a, Cat(Sep, b)) = Cat(Cat(a, Sep), b)
  BY <1>1, CatAssociative
<1>5. QED
  BY <1>2, <1>3, <1>4 DEF Seg, Join

\* A segment after a string joins the two.
LEMMA LastSegment ==
    ASSUME NEW h \in String, NEW t \in String, NEW a \in String
    PROVE  Cat(Cat(h, t), Seg(a)) = Cat(h, Join(t, a))
<1>1. Sep \in String /\ Cat(Sep, a) \in String
  BY SepType, CatType
<1>2. Cat(Cat(h, t), Cat(Sep, a)) = Cat(h, Cat(t, Cat(Sep, a)))
  BY <1>1, CatAssociative
<1>3. Cat(t, Cat(Sep, a)) = Cat(Cat(t, Sep), a)
  BY <1>1, CatAssociative
<1>4. QED
  BY <1>2, <1>3 DEF Seg, Join

\* create_spiffe_extension puts the scheme before the path.
LEMMA SpiffeShape ==
    ASSUME NEW trust \in String, NEW op \in [domain: String, role: String], NEW p \in Policies
    PROVE  /\ create_spiffe_extension(trust, op, p) = Cat(SCHEME, Path(trust, op, p))
           /\ Path(trust, op, p) \in String
<1> DEFINE pd == p.publisher_domain
           pr == p.publisher_role
           wn == p.workload_name
           h0 == Cat(SCHEME, trust)
           h1 == Cat(h0, Seg(OPERATOR))
           h2 == Cat(h1, Seg(op.domain))
           h3 == Cat(h2, Seg(op.role))
           h4 == Cat(h3, Seg(PUBLISHER))
           h5 == Cat(h4, Seg(pd))
           h6 == Cat(h5, Seg(pr))
           p6 == Join(WORKLOAD, wn)
           p5 == Join(pr, p6)
           p4 == Join(pd, p5)
           p3 == Join(PUBLISHER, p4)
           p2 == Join(op.role, p3)
           p1 == Join(op.domain, p2)
           p0 == Join(OPERATOR, p1)
<1>1. /\ OPERATOR \in String /\ PUBLISHER \in String /\ WORKLOAD \in String
      /\ op.domain \in String /\ op.role \in String
  BY WordsAssumption DEF String, Chars
<1>2. pd \in String /\ pr \in String /\ wn \in String
  BY InputsAssumption
<1> HIDE DEF pd, pr, wn
<1>3. h0 \in String
  BY SchemeType, CatType
<1> HIDE DEF h0
<1>4. h1 \in String
  BY <1>1, <1>3, JoinType, CatType
<1> HIDE DEF h1
<1>5. h2 \in String
  BY <1>1, <1>4, JoinType, CatType
<1> HIDE DEF h2
<1>6. h3 \in String
  BY <1>1, <1>5, JoinType, CatType
<1> HIDE DEF h3
<1>7. h4 \in String
  BY <1>1, <1>6, JoinType, CatType
<1> HIDE DEF h4
<1>8. h5 \in String
  BY <1>2, <1>7, JoinType, CatType
<1> HIDE DEF h5
<1>9. h6 \in String /\ p6 \in String
  BY <1>1, <1>2, <1>8, JoinType, CatType, Zenon
<1> HIDE DEF h6
<1>10. Cat(Cat(h6, Seg(WORKLOAD)), Seg(wn)) = Cat(h6, Seg(p6))
  BY <1>1, <1>2, <1>9, FoldSegment
<1> HIDE DEF p6
<1>11. p5 \in String /\ Cat(h6, Seg(p6)) = Cat(h5, Seg(p5))
  BY <1>2, <1>8, <1>9, JoinType, FoldSegment DEF h6
<1> HIDE DEF p5
<1>12. p4 \in String /\ Cat(h5, Seg(p5)) = Cat(h4, Seg(p4))
  BY <1>2, <1>7, <1>11, JoinType, FoldSegment DEF h5
<1> HIDE DEF p4
<1>13. p3 \in String /\ Cat(h4, Seg(p4)) = Cat(h3, Seg(p3))
  BY <1>1, <1>6, <1>12, JoinType, FoldSegment DEF h4
<1> HIDE DEF p3
<1>14. p2 \in String /\ Cat(h3, Seg(p3)) = Cat(h2, Seg(p2))
  BY <1>1, <1>5, <1>13, JoinType, FoldSegment DEF h3
<1> HIDE DEF p2
<1>15. p1 \in String /\ Cat(h2, Seg(p2)) = Cat(h1, Seg(p1))
  BY <1>1, <1>4, <1>14, JoinType, FoldSegment DEF h2
<1> HIDE DEF p1
<1>16. p0 \in String /\ Cat(h1, Seg(p1)) = Cat(h0, Seg(p0))
  BY <1>1, <1>3, <1>15, JoinType, FoldSegment DEF h1
<1> HIDE DEF p0
<1>17. Join(trust, p0) \in String /\ Cat(h0, Seg(p0)) = Cat(SCHEME, Join(trust, p0))
  BY <1>16, SchemeType, JoinType, LastSegment DEF h0
<1>18. Path(trust, op, p) = Join(trust, p0)
  BY DEF Path, WorkloadPath, p0, p1, p2, p3, p4, p5, p6, pd, pr, wn
<1>19. create_spiffe_extension(trust, op, p) = Cat(Cat(h6, Seg(WORKLOAD)), Seg(wn))
  BY DEF create_spiffe_extension, Segment, Cat, Seg, Sep, h0, h1, h2, h3, h4, h5, h6, pd, pr, wn
<1>20. QED
  BY <1>10, <1>11, <1>12, <1>13, <1>14, <1>15, <1>16, <1>17, <1>18, <1>19

\* A string without '/' is one that has it nowhere.
LEMMA SlashFreeIs ==
    ASSUME NEW a \in SlashFree
    PROVE  a \in String /\ \A i \in DOMAIN a : a[i] # Slash
BY DEF SlashFree, String

\* A common beginning, and a common end, can be cancelled.
LEMMA CatCancels ==
    ASSUME NEW a \in String, NEW b \in String, NEW c \in String
    PROVE  /\ Cat(a, b) = Cat(a, c) => b = c
           /\ Cat(b, a) = Cat(c, a) => b = c
<1> DEFINE ab == a \o b
           ac == a \o c
           ba == b \o a
           ca == c \o a
<1>1. /\ Len(ab) = Len(a) + Len(b) /\ \A i \in 1..Len(b) : ab[Len(a) + i] = b[i]
  BY CatParts
<1>2. /\ Len(ac) = Len(a) + Len(c) /\ \A i \in 1..Len(c) : ac[Len(a) + i] = c[i]
  BY CatParts
<1>3. /\ Len(ba) = Len(b) + Len(a) /\ \A i \in 1..Len(b) : ba[i] = b[i]
  BY CatParts
<1>4. /\ Len(ca) = Len(c) + Len(a) /\ \A i \in 1..Len(c) : ca[i] = c[i]
  BY CatParts
<1> HIDE DEF ab, ac, ba, ca
<1>5. Len(a) \in Nat /\ Len(b) \in Nat /\ Len(c) \in Nat
  BY DEF String
<1>6. ASSUME ab = ac PROVE b = c
  <2>1. Len(b) = Len(c)
    BY <1>1, <1>2, <1>5, <1>6
  <2>2. \A i \in 1..Len(b) : b[i] = c[i]
    BY <1>1, <1>2, <1>6, <2>1
  <2>3. QED
    BY <2>1, <2>2, SameString
<1>7. ASSUME ba = ca PROVE b = c
  <2>1. Len(b) = Len(c)
    BY <1>3, <1>4, <1>5, <1>7
  <2>2. \A i \in 1..Len(b) : b[i] = c[i]
    BY <1>3, <1>4, <1>7, <2>1
  <2>3. QED
    BY <2>1, <2>2, SameString
<1>8. QED
  BY <1>6, <1>7, Zenon DEF Cat, ab, ac, ba, ca

\* A string without the separator is determined by what is before it.
LEMMA SeparatorSplits ==
    ASSUME NEW one \in String, Len(one) = 1,
           NEW a \in String, NEW b \in String, NEW u \in String, NEW v \in String,
           \A i \in DOMAIN a : a[i] # one[1],
           \A i \in DOMAIN b : b[i] # one[1],
           Cat(Cat(a, one), u) = Cat(Cat(b, one), v)
    PROVE  a = b /\ u = v
<1> DEFINE m == a \o one
           n == b \o one
           s == m \o u
           t == n \o v
<1>1. /\ Len(a) \in Nat /\ DOMAIN a = 1..Len(a) /\ Len(b) \in Nat /\ DOMAIN b = 1..Len(b)
      /\ Len(u) \in Nat /\ Len(v) \in Nat
  BY DEF String
<1>2. /\ m \in String /\ Len(m) = Len(a) + 1
      /\ \A i \in 1..Len(a) : m[i] = a[i]
      /\ m[Len(a) + 1] = one[1]
  <2>1. /\ m \in String /\ Len(m) = Len(a) + Len(one)
        /\ \A i \in 1..Len(a) : m[i] = a[i]
        /\ \A i \in 1..Len(one) : m[Len(a) + i] = one[i]
    BY CatParts, Zenon
  <2>2. QED
    BY <2>1
<1>3. /\ n \in String /\ Len(n) = Len(b) + 1
      /\ \A i \in 1..Len(b) : n[i] = b[i]
      /\ n[Len(b) + 1] = one[1]
  <2>1. /\ n \in String /\ Len(n) = Len(b) + Len(one)
        /\ \A i \in 1..Len(b) : n[i] = b[i]
        /\ \A i \in 1..Len(one) : n[Len(b) + i] = one[i]
    BY CatParts, Zenon
  <2>2. QED
    BY <2>1
<1>4. s = t
  BY DEF Cat
<1> HIDE DEF m, n
<1>5. /\ Len(s) = Len(m) + Len(u)
      /\ \A i \in 1..Len(m) : s[i] = m[i]
      /\ \A i \in 1..Len(u) : s[Len(m) + i] = u[i]
  <2>1. m \in String
    BY <1>2
  <2>2. QED
    BY <2>1, CatParts, Zenon
<1>6. /\ Len(t) = Len(n) + Len(v)
      /\ \A i \in 1..Len(n) : t[i] = n[i]
      /\ \A i \in 1..Len(v) : t[Len(n) + i] = v[i]
  <2>1. n \in String
    BY <1>3
  <2>2. QED
    BY <2>1, CatParts, Zenon
<1> HIDE DEF s, t
<1>7. /\ \A i \in 1..Len(a) : s[i] = a[i]
      /\ s[Len(a) + 1] = one[1]
      /\ \A i \in 1..Len(u) : s[Len(a) + 1 + i] = u[i]
  BY <1>1, <1>2, <1>5
<1>8. /\ \A i \in 1..Len(b) : t[i] = b[i]
      /\ t[Len(b) + 1] = one[1]
      /\ \A i \in 1..Len(v) : t[Len(b) + 1 + i] = v[i]
  BY <1>1, <1>3, <1>6
<1>9. Len(a) = Len(b)
  <2>1. ~(Len(a) < Len(b))
    <3> SUFFICES ASSUME Len(a) < Len(b)
                 PROVE  FALSE
      OBVIOUS
    <3>1. Len(a) + 1 \in 1..Len(b)
      BY <1>1
    <3>2. t[Len(a) + 1] = b[Len(a) + 1] /\ b[Len(a) + 1] # one[1]
      BY <1>1, <1>8, <3>1
    <3>3. QED
      BY <1>4, <1>7, <3>2
  <2>2. ~(Len(b) < Len(a))
    <3> SUFFICES ASSUME Len(b) < Len(a)
                 PROVE  FALSE
      OBVIOUS
    <3>1. Len(b) + 1 \in 1..Len(a)
      BY <1>1
    <3>2. s[Len(b) + 1] = a[Len(b) + 1] /\ a[Len(b) + 1] # one[1]
      BY <1>1, <1>7, <3>1
    <3>3. QED
      BY <1>4, <1>8, <3>2
  <2>3. \A x, y \in Nat : ~(x < y) /\ ~(y < x) => x = y
    OBVIOUS
  <2>4. QED
    BY <1>1, <2>1, <2>2, <2>3, Zenon
<1>10. Len(u) = Len(v)
  BY <1>1, <1>2, <1>3, <1>4, <1>5, <1>6, <1>9
<1>11. a = b
  <2>1. \A i \in 1..Len(a) : a[i] = b[i]
    BY <1>4, <1>7, <1>8, <1>9
  <2>2. QED
    BY <1>9, <2>1, SameString
<1>12. u = v
  <2>1. \A i \in 1..Len(u) : u[i] = v[i]
    BY <1>4, <1>7, <1>8, <1>9, <1>10
  <2>2. QED
    BY <1>10, <2>1, SameString
<1>13. QED
  BY <1>11, <1>12

\* What a '/' joins can be told apart.
LEMMA JoinSplits ==
    ASSUME NEW a \in SlashFree, NEW b \in SlashFree, NEW u \in String, NEW v \in String,
           Join(a, u) = Join(b, v)
    PROVE  a = b /\ u = v
<1>1. a \in String /\ b \in String /\ Sep \in String /\ Len(Sep) = 1 /\ Sep[1] = Slash
  BY SlashFreeIs, SepType DEF Sep
<1>2. (\A i \in DOMAIN a : a[i] # Slash) /\ (\A i \in DOMAIN b : b[i] # Slash)
  BY SlashFreeIs
<1>3. QED
  BY <1>1, <1>2, SeparatorSplits DEF Join

\* The names of an admitted operator hold no '/', and its role no '.'.
LEMMA ValidOperatorSlashFree ==
    ASSUME NEW op \in ValidOperators
    PROVE  /\ op \in [domain: String, role: String]
           /\ op.domain \in SlashFree /\ op.role \in SlashFree
           /\ \A i \in DOMAIN op.role : op.role[i] # Dot
<1>1. op \in [domain: String, role: String] /\ validate_domain(op.domain) /\ validate_role(op.role)
  BY InputsAssumption DEF ValidOperators, ValidOperator
<1> DEFINE d == op.domain
           r == op.role
<1>2. d \in String /\ r \in String /\ DomainName(d) /\ RoleName(r)
  BY <1>1, ValidDomainIsName, ValidRoleIsName
<1> HIDE DEF d, r
<1>3. Slash \notin Letters \cup {Dash, Dot}
  BY LettersAssumption DEF Slash, Dash, Dot
<1>4. \A s \in String : HostName(s) => s \in SlashFree
  <2> SUFFICES ASSUME NEW s \in String, HostName(s)
               PROVE  s \in SlashFree
    OBVIOUS
  <2>1. \A i \in DOMAIN s : s[i] \in Chars /\ s[i] # Slash
    BY <1>3 DEF HostName, String
  <2>2. QED
    BY <2>1 DEF String, SlashFree
<1>5. d \in SlashFree /\ r \in SlashFree /\ \A i \in DOMAIN r : r[i] # Dot
  BY <1>2, <1>4 DEF DomainName, RoleName
<1>6. QED
  BY <1>1, <1>5 DEF d, r

\* A SPIFFE ID determines its parts.
LEMMA SpiffeIdentifies ==
    ASSUME NEW t1 \in SlashFree, NEW t2 \in SlashFree,
           NEW op1 \in ValidOperators, NEW op2 \in ValidOperators,
           NEW p1 \in Policies, NEW p2 \in Policies,
           create_spiffe_extension(t1, op1, p1) = create_spiffe_extension(t2, op2, p2)
    PROVE  t1 = t2 /\ op1 = op2 /\ Workload(p1) = Workload(p2)
<1> DEFINE d1 == op1.domain
           d2 == op2.domain
           r1 == op1.role
           r2 == op2.role
           pd1 == p1.publisher_domain
           pd2 == p2.publisher_domain
           pr1 == p1.publisher_role
           pr2 == p2.publisher_role
           wn1 == p1.workload_name
           wn2 == p2.workload_name
<1>1. /\ op1 \in [domain: String, role: String] /\ op2 \in [domain: String, role: String]
      /\ d1 \in SlashFree /\ d2 \in SlashFree /\ r1 \in SlashFree /\ r2 \in SlashFree
  BY ValidOperatorSlashFree
<1>2. pd1 \in SlashFree /\ pd2 \in SlashFree /\ pr1 \in SlashFree /\ pr2 \in SlashFree
  BY PublishersAssumption DEF SlashFree
<1>3. wn1 \in String /\ wn2 \in String
  BY InputsAssumption
<1>4. OPERATOR \in SlashFree /\ PUBLISHER \in SlashFree /\ WORKLOAD \in SlashFree
  BY WordsAssumption, LettersAssumption DEF SlashFree, Chars
<1>5. \A a \in SlashFree : a \in String
  BY SlashFreeIs
<1>6. Path(t1, op1, p1) = Path(t2, op2, p2)
  BY <1>1, <1>5, SpiffeShape, SchemeType, CatCancels
<1> DEFINE w1 == Join(WORKLOAD, wn1)
           w2 == Join(WORKLOAD, wn2)
           q1 == Join(pr1, w1)
           q2 == Join(pr2, w2)
           s1 == Join(pd1, q1)
           s2 == Join(pd2, q2)
           u1 == Join(PUBLISHER, s1)
           u2 == Join(PUBLISHER, s2)
           x1 == Join(r1, u1)
           x2 == Join(r2, u2)
           y1 == Join(d1, x1)
           y2 == Join(d2, x2)
           z1 == Join(OPERATOR, y1)
           z2 == Join(OPERATOR, y2)
<1>7. Join(t1, z1) = Join(t2, z2)
  BY <1>6 DEF Path, WorkloadPath
<1> HIDE DEF d1, d2, r1, r2, pd1, pd2, pr1, pr2, wn1, wn2
<1>8. w1 \in String /\ w2 \in String
  BY <1>3, <1>4, <1>5, JoinType, Zenon
<1> HIDE DEF w1, w2
<1>9. q1 \in String /\ q2 \in String
  BY <1>2, <1>5, <1>8, JoinType, Zenon
<1> HIDE DEF q1, q2
<1>10. s1 \in String /\ s2 \in String
  BY <1>2, <1>5, <1>9, JoinType, Zenon
<1> HIDE DEF s1, s2
<1>11. u1 \in String /\ u2 \in String
  BY <1>4, <1>5, <1>10, JoinType
<1> HIDE DEF u1, u2
<1>12. x1 \in String /\ x2 \in String
  BY <1>1, <1>5, <1>11, JoinType
<1> HIDE DEF x1, x2
<1>13. y1 \in String /\ y2 \in String
  BY <1>1, <1>5, <1>12, JoinType, Zenon
<1> HIDE DEF y1, y2
<1>14. z1 \in String /\ z2 \in String
  BY <1>4, <1>5, <1>13, JoinType
<1> HIDE DEF z1, z2
<1>15. t1 = t2 /\ z1 = z2
  BY <1>7, <1>14, JoinSplits
<1>16. y1 = y2
  BY <1>4, <1>13, <1>15, JoinSplits DEF z1, z2
<1>17. d1 = d2 /\ x1 = x2
  BY <1>1, <1>12, <1>16, JoinSplits DEF y1, y2
<1>18. r1 = r2 /\ u1 = u2
  BY <1>1, <1>11, <1>17, JoinSplits DEF x1, x2
<1>19. s1 = s2
  BY <1>4, <1>10, <1>18, JoinSplits DEF u1, u2
<1>20. pd1 = pd2 /\ q1 = q2
  BY <1>2, <1>9, <1>19, JoinSplits DEF s1, s2
<1>21. pr1 = pr2 /\ w1 = w2
  BY <1>2, <1>8, <1>20, JoinSplits DEF q1, q2
<1>22. wn1 = wn2
  BY <1>3, <1>4, <1>21, JoinSplits DEF w1, w2
<1>23. op1 = op2
  BY <1>1, <1>17, <1>18 DEF d1, d2, r1, r2
<1>24. QED
  BY <1>15, <1>20, <1>21, <1>22, <1>23 DEF Workload, pd1, pd2, pr1, pr2, wn1, wn2

\* A DNS name determines its operator, within a trust domain.
LEMMA DnsIdentifies ==
    ASSUME NEW t \in String, NEW op1 \in ValidOperators, NEW op2 \in ValidOperators,
           create_dns_extension(t, op1) = create_dns_extension(t, op2)
    PROVE  op1 = op2
<1> DEFINE d1 == op1.domain
           d2 == op2.domain
           r1 == op1.role
           r2 == op2.role
           point == <<Dot>>
<1>1. /\ op1 \in [domain: String, role: String] /\ op2 \in [domain: String, role: String]
      /\ d1 \in String /\ d2 \in String /\ r1 \in String /\ r2 \in String
      /\ \A i \in DOMAIN r1 : r1[i] # Dot
      /\ \A i \in DOMAIN r2 : r2[i] # Dot
  BY ValidOperatorSlashFree
<1>2. point \in String /\ Len(point) = 1 /\ point[1] = Dot
  BY DEF String, Chars
<1> DEFINE host1 == Cat(Cat(r1, point), d1)
           host2 == Cat(Cat(r2, point), d2)
<1>3. Cat(Cat(host1, point), t) = Cat(Cat(host2, point), t)
  BY Zenon DEF create_dns_extension, Cat
<1> HIDE DEF d1, d2, r1, r2, point
<1>4. host1 \in String /\ host2 \in String
  BY <1>1, <1>2, CatType
<1> HIDE DEF host1, host2
<1>5. Cat(host1, point) \in String /\ Cat(host2, point) \in String
  BY <1>2, <1>4, CatType
<1>6. Cat(host1, point) = Cat(host2, point)
  BY <1>3, <1>5, CatCancels
<1>7. host1 = host2
  BY <1>2, <1>4, <1>6, CatCancels
<1>8. r1 = r2 /\ d1 = d2
  BY <1>1, <1>2, <1>7, SeparatorSplits DEF host1, host2
<1>9. QED
  BY <1>1, <1>8 DEF d1, d2, r1, r2

-----------------------------------------------------------------------------
(* The encoding of names.                                                  *)

\* The extension of a leaf with one name: the name behind two other bytes.
Encoded(name) == <<Tag, Length>> \o name

\* The tag is no printable character, and the length may be a letter.
LEMMA HeaderIs == Tag \in NonGraphic /\ Length \in Letters
<1>1. Letters # {}
  BY WordsAssumption
<1>2. QED
  BY <1>1, LettersAssumption, Zenon DEF Tag, Length

\* The bytes of the extension.
LEMMA EncodedIs ==
    ASSUME NEW name \in String
    PROVE  /\ Encoded(name) \in String /\ Len(Encoded(name)) = Len(name) + 2
           /\ Encoded(name)[1] = Tag /\ Encoded(name)[2] = Length
           /\ \A i \in 1..Len(name) : Encoded(name)[i + 2] = name[i]
<1> DEFINE h == <<Tag, Length>>
<1>1. h \in String /\ Len(h) = 2 /\ h[1] = Tag /\ h[2] = Length /\ Len(name) \in Nat
  BY HeaderIs DEF String, Chars
<1>2. Encoded(name) = h \o name
  BY DEF Encoded
<1> HIDE DEF h
<1>3. /\ h \o name \in String /\ Len(h \o name) = Len(h) + Len(name)
      /\ \A i \in 1..Len(h) : (h \o name)[i] = h[i]
      /\ \A i \in 1..Len(name) : (h \o name)[Len(h) + i] = name[i]
  BY <1>1, CatParts, Zenon
<1> DEFINE b == h \o name
<1>4. /\ Encoded(name) = b /\ b \in String /\ Len(b) = Len(h) + Len(name)
      /\ \A i \in 1..Len(h) : b[i] = h[i]
      /\ \A i \in 1..Len(name) : b[Len(h) + i] = name[i]
  BY <1>2, <1>3, Zenon
<1> HIDE DEF b
<1>5. QED
  BY <1>1, <1>4

DerRec(names, f) ==
    [n \in 0..Len(names) |-> IF n = 0 THEN <<>> ELSE f[n - 1] \o <<Tag, Length>> \o names[n]]

\* The encodings of the first names.
Upto(names) == CHOOSE f : f = DerRec(names, f)

\* f encodes the first n names.
EncodesTo(names, n, f) ==
    /\ f \in [0..n -> String] /\ f[0] = <<>>
    /\ \A i \in 1..n : f[i] = f[i - 1] \o <<Tag, Length>> \o names[i]

\* One more name.
LEMMA EncodeOne ==
    ASSUME NEW s \in String, NEW name \in String
    PROVE  s \o <<Tag, Length>> \o name \in String /\ s \o <<Tag, Length>> \o name = s \o Encoded(name)
<1> DEFINE h == <<Tag, Length>>
<1>1. h \in String
  BY HeaderIs DEF String, Chars
<1>2. (s \o h) \o name = s \o (h \o name)
  <2> HIDE DEF h
  <2>1. Cat(Cat(s, h), name) = Cat(s, Cat(h, name))
    BY <1>1, CatAssociative
  <2>2. QED
    BY <2>1, Zenon DEF Cat
<1>3. (s \o h) \o name \in String
  <2> HIDE DEF h
  <2>1. s \o h \in String
    BY <1>1, CatParts, Zenon
  <2>2. QED
    BY <2>1, CatParts, Zenon
<1>4. QED
  BY <1>2, <1>3, Zenon DEF Encoded

\* The first n names have an encoding, for every n.
LEMMA EncodingExists ==
    ASSUME NEW names \in Seq(String), NEW m \in 0..Len(names)
    PROVE  \E f : EncodesTo(names, m, f)
<1> DEFINE S == {n \in 0..Len(names) : ~ \E f : EncodesTo(names, n, f)}
<1>1. Len(names) \in Nat /\ \A i \in 1..Len(names) : names[i] \in String
  OBVIOUS
<1> SUFFICES ASSUME S # {} PROVE FALSE
  BY Zenon
<1>2. PICK n \in S : \A y \in S : n <= y
  <2>1. S \in SUBSET Nat
    BY <1>1
  <2>2. QED
    BY <2>1, LeastExists, Zenon
<1>3. n \in 0..Len(names) /\ ~ \E f : EncodesTo(names, n, f)
  BY <1>2, Zenon
<1>4. n # 0
  <2> DEFINE f == [i \in 0..0 |-> <<>>]
  <2>1. f \in [0..0 -> String] /\ f[0] = <<>>
    BY DEF String
  <2>2. \A i \in 1..0 : FALSE
    OBVIOUS
  <2>3. EncodesTo(names, 0, f)
    <3> HIDE DEF f
    <3>1. QED
      BY <2>1, <2>2, Zenon DEF EncodesTo
  <2>4. QED
    BY <1>3, <2>3, Zenon
<1>5. n - 1 \in 0..Len(names) /\ n - 1 \in Nat /\ n \in 1..Len(names) /\ ~(n <= n - 1)
  BY <1>1, <1>3, <1>4
<1>6. n - 1 \notin S
  BY <1>2, <1>5, Zenon
<1>7. PICK f : EncodesTo(names, n - 1, f)
  BY <1>5, <1>6, Zenon
<1> DEFINE e == f[n - 1] \o <<Tag, Length>> \o names[n]
           g == [i \in 0..n |-> IF i = n THEN e ELSE f[i]]
<1>8. /\ f \in [0..(n - 1) -> String] /\ f[0] = <<>>
      /\ \A i \in 1..(n - 1) : f[i] = f[i - 1] \o <<Tag, Length>> \o names[i]
  BY <1>7, Zenon DEF EncodesTo
<1>9. e \in String
  <2>1. f[n - 1] \in String
    BY <1>5, <1>8
  <2>2. QED
    BY <1>1, <1>5, <2>1, EncodeOne, Zenon
<1> HIDE DEF e
<1>10. g[n] = e
  <2>1. n \in 0..n
    BY <1>5
  <2>2. QED
    BY <2>1, Zenon
<1>11. ASSUME NEW i \in 0..(n - 1) PROVE g[i] = f[i]
  <2>1. i \in 0..n /\ i # n
    BY <1>5
  <2>2. QED
    BY <2>1, Zenon
<1>12. g \in [0..n -> String]
  <2>1. ASSUME NEW i \in 0..n, i # n PROVE f[i] \in String
    <3>1. i \in 0..(n - 1)
      BY <1>5, <2>1
    <3>2. QED
      BY <1>8, <3>1, Zenon
  <2>2. QED
    BY <1>9, <2>1
<1> HIDE DEF g
<1>13. g[0] = <<>>
  <2>1. 0 \in 0..(n - 1)
    BY <1>5
  <2>2. QED
    BY <1>8, <1>11, <2>1, Zenon
<1>14. ASSUME NEW i \in 1..n PROVE g[i] = g[i - 1] \o <<Tag, Length>> \o names[i]
  <2>1. CASE i = n
    <3>1. n - 1 \in 0..(n - 1)
      BY <1>5
    <3>2. g[n - 1] = f[n - 1]
      BY <1>11, <3>1, Zenon
    <3>3. QED
      BY <1>10, <2>1, <3>2, Zenon DEF e
  <2>2. CASE i # n
    <3>1. i \in 1..(n - 1) /\ i \in 0..(n - 1) /\ i - 1 \in 0..(n - 1)
      BY <1>5, <2>2
    <3>2. g[i] = f[i] /\ g[i - 1] = f[i - 1]
      BY <1>11, <3>1, Zenon
    <3>3. QED
      BY <1>8, <3>1, <3>2, Zenon
  <2>3. QED
    BY <2>1, <2>2, Zenon
<1>15. EncodesTo(names, n, g)
  BY <1>12, <1>13, <1>14, Zenon DEF EncodesTo
<1>16. QED
  BY <1>3, <1>15, Zenon

\* What the recursion of Der computes.
LEMMA UptoIs ==
    ASSUME NEW names \in Seq(String)
    PROVE  /\ Der(names) = Upto(names)[Len(names)]
           /\ EncodesTo(names, Len(names), Upto(names))
<1> DEFINE D == 0..Len(names)
           f == Upto(names)
<1>1. Len(names) \in Nat
  OBVIOUS
<1>2. Der(names) = f[Len(names)]
  BY Zenon DEF Der, Upto, DerRec
<1>3. PICK g : EncodesTo(names, Len(names), g)
  <2>1. Len(names) \in 0..Len(names)
    BY <1>1
  <2>2. QED
    BY <2>1, EncodingExists, Zenon
<1>4. /\ g \in [D -> String] /\ g[0] = <<>>
      /\ \A i \in 1..Len(names) : g[i] = g[i - 1] \o <<Tag, Length>> \o names[i]
  BY <1>3, Zenon DEF EncodesTo
<1>5. \A i \in D : i # 0 => i \in 1..Len(names)
  BY <1>1
<1>6. g = DerRec(names, g)
  <2>1. g = [i \in D |-> g[i]]
    BY <1>4, Zenon
  <2>2. ASSUME NEW i \in D
        PROVE  g[i] = IF i = 0 THEN <<>> ELSE g[i - 1] \o <<Tag, Length>> \o names[i]
    BY <1>4, <1>5, Zenon
  <2>3. QED
    BY <2>1, <2>2, Zenon DEF DerRec
<1>7. f = DerRec(names, f)
  BY <1>6, Zenon DEF Upto
<1> HIDE DEF f
<1>8. /\ DOMAIN f = D
      /\ \A i \in D : f[i] = IF i = 0 THEN <<>> ELSE f[i - 1] \o <<Tag, Length>> \o names[i]
  <2> DEFINE h == DerRec(names, f)
  <2>1. /\ DOMAIN h = D /\ h = [i \in D |-> h[i]]
        /\ \A i \in D : h[i] = IF i = 0 THEN <<>> ELSE f[i - 1] \o <<Tag, Length>> \o names[i]
    BY Zenon DEF DerRec
  <2> HIDE DEF h
  <2>2. f = h
    BY <1>7, Zenon DEF h
  <2>3. QED
    BY <2>1, <2>2, Zenon
<1>9. f = [i \in D |-> f[i]]
  BY <1>7, Zenon DEF DerRec
<1>10. 0 \in D /\ \A i \in 1..Len(names) : i \in D /\ i # 0
  BY <1>1
<1>11. f[0] = <<>> /\ \A i \in 1..Len(names) : f[i] = f[i - 1] \o <<Tag, Length>> \o names[i]
  BY <1>8, <1>10, Zenon
<1>12. \A i \in D : f[i] \in String
  <2> DEFINE S == {i \in D : f[i] \notin String}
  <2> SUFFICES ASSUME S # {} PROVE FALSE
    BY Zenon
  <2>1. S \in SUBSET Nat
    BY <1>1
  <2>2. PICK i \in S : \A j \in S : i <= j
    BY <2>1, LeastExists, Zenon
  <2>3. i \in D /\ f[i] \notin String
    BY <2>2, Zenon
  <2>4. <<>> \in String
    BY DEF String
  <2>5. i # 0
    BY <1>11, <2>3, <2>4, Zenon
  <2>6. i \in 1..Len(names) /\ i - 1 \in D /\ ~(i <= i - 1)
    BY <1>1, <2>3, <2>5
  <2>7. f[i - 1] \in String
    BY <2>2, <2>6, Zenon
  <2>8. names[i] \in String
    BY <2>6
  <2>9. QED
    BY <1>11, <2>3, <2>6, <2>7, <2>8, EncodeOne, Zenon
<1>13. f \in [D -> String]
  BY <1>9, <1>12, Zenon
<1>14. EncodesTo(names, Len(names), f)
  BY <1>11, <1>13, Zenon DEF EncodesTo
<1>15. QED
  BY <1>2, <1>14 DEF f

\* The encoding of one name.
LEMMA DerOne ==
    ASSUME NEW name \in String
    PROVE  Der(<<name>>) = Encoded(name)
<1> DEFINE names == <<name>>
           f == Upto(names)
<1>1. names \in Seq(String) /\ Len(names) = 1 /\ names[1] = name
  OBVIOUS
<1> HIDE DEF names
<1>2. Der(names) = f[1] /\ EncodesTo(names, 1, f)
  BY <1>1, UptoIs, Zenon
<1> HIDE DEF f
<1>3. 1 \in 1..1 /\ 1 - 1 = 0
  OBVIOUS
<1>4. f[1] = <<>> \o <<Tag, Length>> \o name
  BY <1>1, <1>2, <1>3, Zenon DEF EncodesTo
<1>5. <<>> \o <<Tag, Length>> = <<Tag, Length>>
  OBVIOUS
<1>6. QED
  BY <1>2, <1>4, <1>5, Zenon DEF names, Encoded

\* A certificate encoded: b has, behind off[i - 1] bytes, the name i with its
\* two bytes before it.
Laid(names, b, off) ==
    /\ b \in String /\ off \in [0..Len(names) -> Nat]
    /\ off[0] = 0 /\ off[Len(names)] = Len(b)
    /\ \A i \in 1..Len(names) : off[i] = off[i - 1] + 2 + Len(names[i])
    /\ \A i \in 1..Len(names) : \A j \in 1..(2 + Len(names[i])) :
         b[off[i - 1] + j] = Encoded(names[i])[j]
    /\ \A i, j \in 0..Len(names) : i < j => off[i] < off[j]

\* Longer encodings begin with shorter ones.
LEMMA UptoGrows ==
    ASSUME NEW names \in Seq(String), NEW f, EncodesTo(names, Len(names), f),
           NEW i \in 0..Len(names), NEW m \in 0..Len(names), i <= m
    PROVE  /\ Begins(f[i], f[m]) /\ Len(f[i]) <= Len(f[m])
           /\ i < m => Len(f[i]) < Len(f[m])
<1> DEFINE N == Len(names)
           Grown(n) == /\ Begins(f[i], f[n]) /\ Len(f[i]) <= Len(f[n])
                       /\ i < n => Len(f[i]) < Len(f[n])
           S == {n \in 0..N : i <= n /\ ~Grown(n)}
<1>1. N \in Nat /\ \A n \in 1..N : names[n] \in String
  OBVIOUS
<1>2. (\A n \in 0..N : f[n] \in String)
      /\ \A n \in 1..N : f[n] = f[n - 1] \o <<Tag, Length>> \o names[n]
  BY DEF EncodesTo
<1> SUFFICES ASSUME S # {} PROVE FALSE
  BY Zenon
<1>3. PICK n \in S : \A y \in S : n <= y
  <2>1. S \in SUBSET Nat
    BY <1>1
  <2>2. QED
    BY <2>1, LeastExists, Zenon
<1>4. n \in 0..N /\ i <= n /\ ~Grown(n)
  BY <1>3, Zenon
<1>5. n # i
  <2>1. Grown(i)
    BY <1>1, <1>2 DEF Begins, String
  <2>2. QED
    BY <1>4, <2>1, Zenon
<1>6. n \in 1..N /\ n - 1 \in 0..N /\ i <= n - 1 /\ ~(n <= n - 1)
  BY <1>1, <1>4, <1>5
<1>7. Grown(n - 1)
  BY <1>3, <1>6, Zenon
<1> DEFINE s == f[i]
           t == f[n - 1]
           c == Encoded(names[n])
           u == f[n]
<1>8. s \in String /\ t \in String /\ c \in String /\ Len(c) = Len(names[n]) + 2 /\ Len(names[n]) \in Nat
  <2>1. names[n] \in String
    BY <1>1, <1>6
  <2>2. c \in String /\ Len(c) = Len(names[n]) + 2
    BY <2>1, EncodedIs, Zenon
  <2>3. Len(names[n]) \in Nat
    BY <2>1 DEF String
  <2>4. QED
    BY <1>2, <1>6, <2>2, <2>3, Zenon
<1>9. u = t \o c
  <2>1. names[n] \in String
    BY <1>1, <1>6
  <2>2. QED
    BY <1>2, <1>6, <1>8, <2>1, EncodeOne, Zenon
<1>10. Begins(s, t) /\ Len(s) <= Len(t)
  BY <1>7, Zenon
<1>11. ~(Begins(s, u) /\ Len(s) <= Len(u) /\ (i < n => Len(s) < Len(u)))
  BY <1>4, Zenon
<1> HIDE DEF s, t, c, u, Grown
<1>12. Len(u) = Len(t) + Len(c) /\ \A j \in 1..Len(t) : u[j] = t[j]
  BY <1>8, <1>9, CatParts
<1>13. Len(s) \in Nat /\ Len(t) \in Nat
  BY <1>8 DEF String
<1>14. Begins(s, u)
  <2>1. ASSUME NEW j \in 1..Len(s) PROVE s[j] = u[j]
    <3>1. j \in 1..Len(t)
      BY <1>10, <1>13
    <3>2. QED
      BY <1>10, <1>12, <3>1, Zenon DEF Begins
  <2>2. QED
    BY <2>1, Zenon DEF Begins
<1>15. QED
  BY <1>8, <1>10, <1>11, <1>12, <1>13, <1>14

\* So is the encoding of a certificate's names.
LEMMA DerLaid ==
    ASSUME NEW names \in Seq(String)
    PROVE  \E off : Laid(names, Der(names), off)
<1> DEFINE N == Len(names)
           f == Upto(names)
           b == Der(names)
           off == [i \in 0..N |-> Len(f[i])]
<1>1. N \in Nat /\ \A i \in 1..N : names[i] \in String /\ Len(names[i]) \in Nat
  BY DEF String
<1>2. b = f[N] /\ EncodesTo(names, N, f)
  BY UptoIs, Zenon
<1> HIDE DEF f, b
<1>3. /\ \A i \in 0..N : f[i] \in String /\ Len(f[i]) \in Nat
      /\ f[0] = <<>>
      /\ \A i \in 1..N : f[i] = f[i - 1] \o <<Tag, Length>> \o names[i]
  <2>1. /\ f \in [0..N -> String] /\ f[0] = <<>>
        /\ \A i \in 1..N : f[i] = f[i - 1] \o <<Tag, Length>> \o names[i]
    BY <1>2, Zenon DEF EncodesTo
  <2>2. \A s \in String : Len(s) \in Nat
    BY DEF String
  <2>3. \A i \in 0..N : f[i] \in String
    BY <2>1, Zenon
  <2>4. QED
    BY <2>1, <2>2, <2>3, Zenon
<1>4. 0 \in 0..N /\ N \in 0..N
  BY <1>1
<1>5. b \in String
  BY <1>2, <1>3, <1>4, Zenon
<1>6. off \in [0..N -> Nat] /\ \A i \in 0..N : off[i] = Len(f[i])
  BY <1>3, Zenon
<1> HIDE DEF off
<1>7. off[0] = 0 /\ off[N] = Len(b)
  <2>1. Len(f[0]) = 0
    BY <1>3
  <2>2. QED
    BY <1>2, <1>4, <1>6, <2>1, Zenon
<1>8. ASSUME NEW i \in 1..N
      PROVE  /\ off[i] = off[i - 1] + 2 + Len(names[i])
             /\ \A j \in 1..(2 + Len(names[i])) : b[off[i - 1] + j] = Encoded(names[i])[j]
  <2> DEFINE t == f[i - 1]
             c == Encoded(names[i])
             u == f[i]
  <2>1. i - 1 \in 0..N /\ i \in 0..N /\ i <= N
    BY <1>1
  <2>2. t \in String /\ u \in String /\ names[i] \in String /\ Len(names[i]) \in Nat
    BY <1>1, <1>3, <2>1, Zenon
  <2>3. c \in String /\ Len(c) = Len(names[i]) + 2
    BY <2>2, EncodedIs, Zenon
  <2>4. u = t \o c
    BY <1>3, <2>2, EncodeOne, Zenon
  <2>5. Begins(u, b) /\ Len(u) <= Len(b)
    BY <1>2, <1>4, <2>1, UptoGrows, Zenon
  <2>6. off[i] = Len(u) /\ off[i - 1] = Len(t)
    BY <1>6, <2>1, Zenon
  <2> HIDE DEF t, u, c
  <2>7. /\ Len(u) = Len(t) + Len(c)
        /\ \A j \in 1..Len(c) : u[Len(t) + j] = c[j]
    <3>1. /\ Len(t \o c) = Len(t) + Len(c)
          /\ \A j \in 1..Len(c) : (t \o c)[Len(t) + j] = c[j]
      BY <2>2, <2>3, CatParts, Zenon
    <3>2. QED
      BY <2>4, <3>1, Zenon
  <2>8. Len(t) \in Nat
    BY <2>2 DEF String
  <2>9. ASSUME NEW j \in 1..(2 + Len(names[i])) PROVE b[off[i - 1] + j] = c[j]
    <3>1. j \in 1..Len(c) /\ Len(t) + j \in 1..Len(u)
      BY <2>2, <2>3, <2>7, <2>8
    <3>2. QED
      BY <2>5, <2>6, <2>7, <3>1, Zenon DEF Begins
  <2>10. off[i] = off[i - 1] + 2 + Len(names[i])
    <3>1. Len(u) = Len(t) + 2 + Len(names[i])
      <4>1. Len(u) = Len(t) + Len(c)
        BY <2>7, Zenon
      <4> DEFINE l == Len(names[i])
      <4>2. Len(c) = l + 2 /\ l \in Nat
        BY <2>2, <2>3, Zenon
      <4> HIDE DEF l
      <4>3. Len(u) = Len(t) + 2 + l
        BY <2>8, <4>1, <4>2
      <4>4. QED
        BY <4>3, Zenon DEF l
    <3>2. QED
      BY <2>6, <3>1, Zenon
  <2>11. QED
    BY <2>9, <2>10, Zenon DEF c
<1>9. ASSUME NEW i \in 0..N, NEW j \in 0..N, i < j PROVE off[i] < off[j]
  <2>1. i <= j
    BY <1>1, <1>9
  <2>2. Len(f[i]) < Len(f[j])
    BY <1>2, <1>9, <2>1, UptoGrows, Zenon
  <2>3. QED
    BY <1>6, <2>2, Zenon
<1>10. Laid(names, b, off)
  BY <1>5, <1>6, <1>7, <1>8, <1>9, Zenon DEF Laid
<1>11. QED
  BY <1>10, Zenon DEF b

\* An encoded extension is a string.
LEMMA DerType ==
    ASSUME NEW names \in Seq(String)
    PROVE  Der(names) \in String
BY DerLaid, Zenon DEF Laid

\* Such is the trust domain of every authority.
LEMMA TrustDomainsType == TrustDomains \subseteq TrustName
<1>1. SELF_SIGNED_TRUST_DOMAIN \in TrustName
  BY TrustDomainAssumption, LettersAssumption DEF TrustName, Chars, Dash, Dot, Slash
<1>2. \A names \in TcaSans : extract_spiffe_trust_domain(Der(names)) \in TrustName
  BY SansAssumption, DerType, ExtractType
<1>3. QED
  BY <1>1, <1>2 DEF TrustDomains

-----------------------------------------------------------------------------
(* The scan for the scheme.                                                *)

\* The scheme is its word and "://".
LEMMA SchemeIs ==
    /\ SPIFFE \in Seq(Letters) /\ Len(SPIFFE) \in Nat
    /\ SCHEME \in String /\ Len(SCHEME) = Len(SPIFFE) + 3
    /\ \A i \in 1..Len(SPIFFE) : SCHEME[i] \in Letters
    /\ SCHEME[Len(SPIFFE) + 1] = Colon
    /\ SCHEME[Len(SPIFFE) + 2] = Slash /\ SCHEME[Len(SPIFFE) + 3] = Slash
<1>1. SPIFFE \in Seq(Letters) /\ Len(SPIFFE) \in Nat
  BY WordsAssumption
<1>2. SCHEME \in String
  BY SchemeType
<1>3. QED
  BY <1>1, <1>2 DEF SCHEME

\* Its characters by kind.
LEMMA KindsDiffer ==
    /\ Colon # Slash /\ Colon \notin Letters /\ Slash \notin Letters
    /\ Colon \notin NonGraphic /\ Slash \notin NonGraphic
    /\ \A c \in Letters : c \notin NonGraphic
BY LettersAssumption DEF Colon, Slash

\* Nor does the scheme have a byte of the encoding in it.
LEMMA SchemeGraphic == \A j \in 1..(Len(SPIFFE) + 3) : SCHEME[j] \notin NonGraphic
<1> DEFINE k == Len(SPIFFE)
<1>1. /\ k \in Nat /\ \A i \in 1..k : SCHEME[i] \in Letters
      /\ SCHEME[k + 1] = Colon /\ SCHEME[k + 2] = Slash /\ SCHEME[k + 3] = Slash
  BY SchemeIs
<1> HIDE DEF k
<1>2. ASSUME NEW j \in 1..(k + 3) PROVE SCHEME[j] \notin NonGraphic
  <2>1. j \in 1..k \/ j = k + 1 \/ j = k + 2 \/ j = k + 3
    BY <1>1
  <2>2. QED
    BY <1>1, <2>1, KindsDiffer, Zenon
<1>3. QED
  BY <1>2 DEF k

\* Where the scheme occurs, character by character.
Occurs(b, p) ==
    /\ p \in Nat /\ 1 <= p /\ p + Len(SPIFFE) + 2 <= Len(b)
    /\ \A j \in 1..(Len(SPIFFE) + 3) : b[p + j - 1] = SCHEME[j]

\* The scan compares slices; it finds the places where the characters agree.
LEMMA MatchesAre ==
    ASSUME NEW b \in String
    PROVE  \A p : p \in Matches(b) <=> Occurs(b, p)
<1> DEFINE k == Len(SPIFFE)
<1>1. k \in Nat /\ SCHEME \in String /\ Len(SCHEME) = k + 3 /\ Len(b) \in Nat
  BY SchemeIs DEF String
<1>2. \A p : p \in Matches(b) <=> p \in 1..(Len(b) + 1 - Len(SCHEME)) /\ SubSeq(b, p, p + Len(SCHEME) - 1) = SCHEME
  BY Zenon DEF Matches
<1> HIDE DEF k
<1>3. ASSUME NEW p
      PROVE  p \in 1..(Len(b) + 1 - Len(SCHEME)) <=> p \in Nat /\ 1 <= p /\ p + k + 2 <= Len(b)
  BY <1>1
<1>4. ASSUME NEW p \in Nat, 1 <= p, p + k + 2 <= Len(b)
      PROVE  SubSeq(b, p, p + Len(SCHEME) - 1) = SCHEME <=> \A j \in 1..(k + 3) : b[p + j - 1] = SCHEME[j]
  <2> DEFINE s == SubSeq(b, p, p + Len(SCHEME) - 1)
  <2>1. s \in String /\ Len(s) = k + 3 /\ \A j \in 1..(k + 3) : s[j] = b[p + j - 1]
    BY <1>1, <1>4 DEF String
  <2> HIDE DEF s
  <2>2. ASSUME s = SCHEME, NEW j \in 1..(k + 3) PROVE b[p + j - 1] = SCHEME[j]
    BY <2>1, <2>2, Zenon
  <2>3. ASSUME \A j \in 1..(k + 3) : b[p + j - 1] = SCHEME[j] PROVE s = SCHEME
    <3>1. \A j \in 1..Len(s) : s[j] = SCHEME[j]
      BY <2>1, <2>3, Zenon
    <3>2. QED
      BY <1>1, <2>1, <3>1, SameString, Zenon
  <2>4. QED
    BY <2>2, <2>3, Zenon DEF s
<1>5. QED
  BY <1>2, <1>3, <1>4, Zenon DEF Occurs, k

\* The prefix in front of the first character of stop is the only one.
LEMMA BeforeUnique ==
    ASSUME NEW s \in String, NEW stop, NEW r \in String,
           Begins(r, s), Len(r) <= Len(s), \A i \in 1..Len(r) : r[i] \notin stop,
           Len(r) < Len(s) => s[Len(r) + 1] \in stop
    PROVE  Before(s, stop) = r
<1> DEFINE q == Before(s, stop)
<1>1. Len(r) \in Nat /\ Len(s) \in Nat
  BY DEF String
<1>2. /\ q \in Seq(Chars \ stop) /\ Len(q) \in 0..Len(s) /\ Begins(q, s)
      /\ Len(q) < Len(s) => s[Len(q) + 1] \in stop
  <2>1. s \in Seq(Chars)
    BY Zenon DEF String
  <2>2. QED
    BY <2>1, BeforeIs, Zenon
<1> HIDE DEF q
<1>3. q \in String /\ Len(q) \in Nat /\ \A i \in 1..Len(q) : q[i] \notin stop
  BY <1>2 DEF String
<1>4. ASSUME Len(q) < Len(r) PROVE FALSE
  <2>1. Len(q) + 1 \in 1..Len(r) /\ Len(q) < Len(s)
    BY <1>1, <1>3, <1>4
  <2>2. QED
    BY <1>2, <2>1, Zenon DEF Begins
<1>5. ASSUME Len(r) < Len(q) PROVE FALSE
  <2>1. Len(r) + 1 \in 1..Len(q) /\ Len(r) < Len(s)
    BY <1>1, <1>2, <1>3, <1>5
  <2>2. QED
    BY <1>2, <1>3, <2>1, Zenon DEF Begins
<1>6. Len(q) = Len(r)
  BY <1>1, <1>3, <1>4, <1>5
<1>7. \A i \in 1..Len(q) : q[i] = r[i]
  BY <1>2, <1>6, Zenon DEF Begins
<1>8. q = r
  BY <1>3, <1>6, <1>7, SameString, Zenon
<1>9. QED
  BY <1>8, Zenon DEF q

-----------------------------------------------------------------------------
(* A SPIFFE ID read back.                                                  *)

ColonFree == Seq(Chars \ {Colon})

\* Where a SPIFFE ID of trust domain t has what extract_spiffe_trust_domain
\* looks for.
SpiffeLike(name, t) ==
    LET k == Len(SPIFFE)
        e == k + 3 + Len(t) IN
    /\ name \in String /\ e + 2 <= Len(name)
    /\ \A i \in 1..k : name[i] \in Letters
    /\ \A i \in 1..(k + 3) : name[i] = SCHEME[i]
    /\ \A j \in 1..Len(t) : name[k + 3 + j] = t[j]
    /\ name[e + 1] = Slash /\ name[e + 2] \in Letters
    /\ \A i \in (e + 1)..Len(name) : name[i] # Colon

\* A joined string has the characters of its parts.
LEMMA JoinParts ==
    ASSUME NEW a \in String, NEW b \in String
    PROVE  /\ Join(a, b) \in String /\ Len(Join(a, b)) = Len(a) + 1 + Len(b)
           /\ \A i \in 1..Len(a) : Join(a, b)[i] = a[i]
           /\ Join(a, b)[Len(a) + 1] = Slash
           /\ \A i \in 1..Len(b) : Join(a, b)[Len(a) + 1 + i] = b[i]
<1> DEFINE s == a \o Sep
<1>1. Sep \in String /\ Len(Sep) = 1 /\ Sep[1] = Slash /\ Len(a) \in Nat /\ Len(b) \in Nat
  BY SepType DEF Sep, String
<1>2. /\ s \in String /\ Len(s) = Len(a) + 1
      /\ \A i \in 1..Len(a) : s[i] = a[i]
      /\ s[Len(a) + 1] = Slash
  <2>1. /\ s \in String /\ Len(s) = Len(a) + Len(Sep)
        /\ \A i \in 1..Len(a) : s[i] = a[i]
        /\ \A i \in 1..Len(Sep) : s[Len(a) + i] = Sep[i]
    BY <1>1, CatParts, Zenon
  <2> HIDE DEF s
  <2>2. 1 \in 1..Len(Sep)
    BY <1>1
  <2>3. QED
    BY <1>1, <2>1, <2>2, Zenon
<1>3. Join(a, b) = s \o b
  BY DEF Join, Cat
<1> HIDE DEF s
<1>4. /\ s \o b \in String /\ Len(s \o b) = Len(s) + Len(b)
      /\ \A i \in 1..Len(s) : (s \o b)[i] = s[i]
      /\ \A i \in 1..Len(b) : (s \o b)[Len(s) + i] = b[i]
  BY <1>2, CatParts, Zenon
<1> DEFINE j == s \o b
<1>5. /\ Join(a, b) = j /\ j \in String /\ Len(j) = Len(s) + Len(b)
      /\ \A i \in 1..Len(s) : j[i] = s[i]
      /\ \A i \in 1..Len(b) : j[Len(s) + i] = b[i]
  BY <1>3, <1>4
<1> HIDE DEF j
<1>6. QED
  BY <1>1, <1>2, <1>5

\* Joining strings without ':' makes none.
LEMMA ColonFreeJoin ==
    ASSUME NEW a \in ColonFree, NEW b \in ColonFree
    PROVE  Join(a, b) \in ColonFree
<1> DEFINE j == Join(a, b)
<1>1. a \in String /\ b \in String /\ Len(a) \in Nat /\ Len(b) \in Nat
  BY DEF ColonFree, String
<1>2. /\ j \in String /\ Len(j) = Len(a) + 1 + Len(b)
      /\ \A i \in 1..Len(a) : j[i] = a[i]
      /\ j[Len(a) + 1] = Slash
      /\ \A i \in 1..Len(b) : j[Len(a) + 1 + i] = b[i]
  BY <1>1, JoinParts, Zenon
<1> HIDE DEF j
<1>3. (\A i \in 1..Len(a) : a[i] # Colon) /\ (\A i \in 1..Len(b) : b[i] # Colon)
  BY DEF ColonFree
<1>4. ASSUME NEW i \in 1..Len(j) PROVE j[i] # Colon
  <2>1. CASE i <= Len(a)
    BY <1>1, <1>2, <1>3, <2>1
  <2>2. CASE i = Len(a) + 1
    BY <1>2, <2>2 DEF Slash, Colon
  <2>3. CASE i > Len(a) + 1
    <3>1. i - Len(a) - 1 \in 1..Len(b) /\ Len(a) + 1 + (i - Len(a) - 1) = i
      BY <1>1, <1>2, <2>3
    <3>2. QED
      BY <1>2, <1>3, <3>1, Zenon
  <2>4. QED
    BY <1>1, <2>1, <2>2, <2>3
<1>5. j \in ColonFree
  BY <1>2, <1>4 DEF ColonFree, String
<1>6. QED
  BY <1>5 DEF j

\* What create_spiffe_extension writes looks so, if the path has no ':'.
LEMMA SpiffeLooks ==
    ASSUME NEW t \in String, NEW tail \in ColonFree, tail # <<>>, tail[1] \in Letters
    PROVE  SpiffeLike(Cat(SCHEME, Join(t, tail)), t)
<1> DEFINE k == Len(SPIFFE)
           m == Len(t)
           w == Join(t, tail)
           name == SCHEME \o w
<1>1. tail \in String /\ Len(tail) \in Nat /\ Len(tail) >= 1 /\ m \in Nat
      /\ \A i \in 1..Len(tail) : tail[i] # Colon
  BY DEF ColonFree, String
<1>2. /\ k \in Nat /\ SCHEME \in String /\ Len(SCHEME) = k + 3
      /\ \A i \in 1..k : SCHEME[i] \in Letters
  BY SchemeIs
<1>3. /\ w \in String /\ Len(w) = m + 1 + Len(tail)
      /\ \A i \in 1..m : w[i] = t[i]
      /\ w[m + 1] = Slash
      /\ \A i \in 1..Len(tail) : w[m + 1 + i] = tail[i]
  BY <1>1, JoinParts, Zenon
<1> HIDE DEF w
<1>4. /\ name \in String /\ Len(name) = Len(SCHEME) + Len(w)
      /\ \A i \in 1..Len(SCHEME) : name[i] = SCHEME[i]
      /\ \A i \in 1..Len(w) : name[Len(SCHEME) + i] = w[i]
  BY <1>2, <1>3, CatParts, Zenon
<1>5. Cat(SCHEME, w) = name
  BY DEF Cat
<1> HIDE DEF name, k, m
<1>6. Len(name) = k + m + 4 + Len(tail) /\ \A i \in 1..(k + 3) : name[i] = SCHEME[i]
  BY <1>1, <1>2, <1>3, <1>4
<1>7. ASSUME NEW i \in 1..(m + 1 + Len(tail)) PROVE name[k + 3 + i] = w[i]
  <2>1. i \in 1..Len(w)
    BY <1>3
  <2>2. QED
    BY <1>2, <1>4, <2>1
<1>8. ASSUME NEW j \in 1..m PROVE name[k + 3 + j] = t[j]
  <2>1. j \in 1..(m + 1 + Len(tail))
    BY <1>1
  <2>2. QED
    BY <1>3, <1>7, <2>1, Zenon
<1>9. name[k + 3 + m + 1] = Slash
  <2>1. m + 1 \in 1..(m + 1 + Len(tail)) /\ k + 3 + (m + 1) = k + 3 + m + 1
    BY <1>1, <1>2
  <2>2. name[k + 3 + (m + 1)] = w[m + 1]
    BY <1>7, <2>1, Zenon
  <2>3. QED
    BY <1>3, <2>1, <2>2, Zenon
<1>10. ASSUME NEW i \in 1..Len(tail) PROVE name[k + 3 + m + 1 + i] = tail[i]
  <2>1. m + 1 + i \in 1..(m + 1 + Len(tail)) /\ k + 3 + (m + 1 + i) = k + 3 + m + 1 + i
    BY <1>1, <1>2
  <2>2. name[k + 3 + (m + 1 + i)] = w[m + 1 + i]
    BY <1>7, <2>1, Zenon
  <2>3. QED
    BY <1>3, <2>1, <2>2, Zenon
<1>11. name[k + 3 + m + 2] \in Letters
  <2>1. 1 \in 1..Len(tail) /\ k + 3 + m + 1 + 1 = k + 3 + m + 2
    BY <1>1, <1>2
  <2>2. QED
    BY <1>10, <2>1, Zenon
<1>12. ASSUME NEW i \in (k + 3 + m + 1)..Len(name) PROVE name[i] # Colon
  <2>1. CASE i = k + 3 + m + 1
    BY <1>9, <2>1 DEF Slash, Colon
  <2>2. CASE i # k + 3 + m + 1
    <3>1. i - (k + 3 + m + 1) \in 1..Len(tail) /\ k + 3 + m + 1 + (i - (k + 3 + m + 1)) = i
      BY <1>1, <1>2, <1>6, <2>2
    <3>2. QED
      BY <1>1, <1>10, <3>1, Zenon
  <2>3. QED
    BY <2>1, <2>2
<1>13. \A i \in 1..k : name[i] \in Letters
  BY <1>2, <1>6
<1>14. k + 3 + m + 2 <= Len(name)
  BY <1>1, <1>2, <1>6
<1>15. SpiffeLike(name, t)
  BY <1>4, <1>6, <1>8, <1>9, <1>11, <1>12, <1>13, <1>14 DEF SpiffeLike, k, m
<1>16. QED
  BY <1>5, <1>15 DEF w

\* What follows a match, in the name itself.
LEMMA MatchIs ==
    ASSUME NEW name \in String, NEW i \in Matches(Encoded(name))
    PROVE  /\ i \in Nat /\ i + Len(SPIFFE) <= Len(name)
           /\ i + Len(SPIFFE) > 2
           /\ name[i + Len(SPIFFE) - 2] = Colon
           /\ name[i + Len(SPIFFE) - 1] = Slash /\ name[i + Len(SPIFFE)] = Slash
<1> DEFINE b == Encoded(name)
           k == Len(SPIFFE)
           s == SubSeq(b, i, i + Len(SCHEME) - 1)
<1>1. /\ b \in String /\ Len(b) = Len(name) + 2 /\ Len(name) \in Nat
      /\ b[1] = Tag /\ b[2] = Length
      /\ \A j \in 1..Len(name) : b[j + 2] = name[j]
  BY EncodedIs DEF String
<1>2. /\ k \in Nat /\ Len(SCHEME) = k + 3
      /\ SCHEME[k + 1] = Colon /\ SCHEME[k + 2] = Slash /\ SCHEME[k + 3] = Slash
  BY SchemeIs
<1>3. i \in 1..(Len(b) + 1 - Len(SCHEME)) /\ s = SCHEME
  BY DEF Matches
<1>4. i \in Nat /\ 1 <= i /\ i + k <= Len(name)
  BY <1>1, <1>2, <1>3
<1> HIDE DEF b, k
<1>5. \A j \in 1..(k + 3) : s[j] = b[i + j - 1]
  BY <1>1, <1>2, <1>4 DEF String
<1>6. /\ b[i + (k + 1) - 1] = Colon /\ b[i + (k + 2) - 1] = Slash /\ b[i + (k + 3) - 1] = Slash
  <2>1. k + 1 \in 1..(k + 3) /\ k + 2 \in 1..(k + 3) /\ k + 3 \in 1..(k + 3)
    BY <1>2
  <2>2. s[k + 1] = Colon /\ s[k + 2] = Slash /\ s[k + 3] = Slash
    BY <1>2, <1>3, Zenon
  <2> HIDE DEF s
  <2>3. QED
    BY <1>5, <2>1, <2>2, Zenon
<1>7. b[i + k] = Colon /\ b[i + k + 1] = Slash /\ b[i + k + 2] = Slash
  <2>1. i + (k + 1) - 1 = i + k /\ i + (k + 2) - 1 = i + k + 1 /\ i + (k + 3) - 1 = i + k + 2
    BY <1>2, <1>4
  <2>2. QED
    BY <1>6, <2>1, Zenon
<1>8. i + k > 2
  <2>1. b[1] # Colon /\ b[2] # Colon
    BY <1>1, HeaderIs, KindsDiffer
  <2>2. i + k # 1 /\ i + k # 2
    BY <1>7, <2>1
  <2>3. QED
    BY <1>2, <1>4, <2>2
<1>9. /\ i + k - 2 \in 1..Len(name) /\ (i + k - 2) + 2 = i + k
      /\ i + k - 1 \in 1..Len(name) /\ (i + k - 1) + 2 = i + k + 1
      /\ i + k \in 1..Len(name)
  BY <1>1, <1>2, <1>4, <1>8
<1>10. name[i + k - 2] = Colon /\ name[i + k - 1] = Slash /\ name[i + k] = Slash
  BY <1>1, <1>7, <1>9, Zenon
<1>11. QED
  BY <1>4, <1>8, <1>10 DEF k

\* The scheme occurs once in a leaf's extension, where the name begins.
LEMMA OneMatch ==
    ASSUME NEW t \in TrustName, NEW name, SpiffeLike(name, t)
    PROVE  Matches(Encoded(name)) = {3}
<1> DEFINE b == Encoded(name)
           k == Len(SPIFFE)
           m == Len(t)
<1>1. /\ name \in String /\ k + m + 5 <= Len(name)
      /\ \A i \in 1..k : name[i] \in Letters
      /\ \A i \in 1..(k + 3) : name[i] = SCHEME[i]
      /\ \A j \in 1..m : name[k + 3 + j] = t[j]
      /\ name[k + m + 4] = Slash /\ name[k + m + 5] \in Letters
      /\ \A i \in (k + m + 4)..Len(name) : name[i] # Colon
      /\ k \in Nat /\ m \in Nat /\ Len(name) \in Nat
  <2>1. k \in Nat /\ m \in Nat
    BY SchemeIs DEF TrustName
  <2>2. k + 3 + m + 2 = k + m + 5 /\ k + 3 + m + 1 = k + m + 4
    BY <2>1
  <2>3. QED
    BY <2>1, <2>2 DEF SpiffeLike, String
<1>2. /\ Len(SCHEME) = k + 3 /\ SCHEME \in String
      /\ SCHEME[k + 1] = Colon /\ SCHEME[k + 2] = Slash /\ SCHEME[k + 3] = Slash
  BY SchemeIs
<1>3. name[k + 2] = Slash /\ name[k + 3] = Slash
  BY <1>1, <1>2
<1>4. \A j \in 1..m : t[j] # Slash
  BY DEF TrustName
<1>5. ASSUME NEW i \in Matches(b) PROVE i = 3
  <2> DEFINE q == i + k - 2
  <2>1. i \in Nat /\ i + k <= Len(name) /\ i + k > 2
    BY <1>1, MatchIs
  <2>2. name[i + k - 2] = Colon /\ name[i + k - 1] = Slash /\ name[i + k] = Slash
    BY <1>1, MatchIs
  <2>3. q \in 1..Len(name) /\ name[q] = Colon /\ name[q + 1] = Slash /\ name[q + 2] = Slash
    <3>1. q \in 1..Len(name) /\ q + 1 = i + k - 1 /\ q + 2 = i + k
      BY <1>1, <2>1
    <3>2. QED
      BY <2>2, <3>1
  <2>4. i = q + 2 - k
    BY <1>1, <2>1
  <2> HIDE DEF q
  <2>5. ~(q \in 1..k)
    BY <1>1, <2>3, KindsDiffer
  <2>6. q # k + 2 /\ q # k + 3
    BY <1>3, <2>3, KindsDiffer
  <2>7. ~(q \in (k + m + 4)..Len(name))
    BY <1>1, <2>3
  <2>8. ~(q \in (k + 4)..(k + 3 + m))
    <3> SUFFICES ASSUME q \in (k + 4)..(k + 3 + m) PROVE FALSE
      OBVIOUS
    <3>1. CASE q = k + 3 + m
      <4>1. q + 2 = k + m + 5
        BY <1>1, <3>1
      <4>2. name[q + 2] \in Letters
        BY <1>1, <4>1, Zenon
      <4>3. QED
        BY <2>3, <4>2, KindsDiffer, Zenon
    <3>2. CASE q # k + 3 + m
      <4>1. q - k - 2 \in 1..m /\ k + 3 + (q - k - 2) = q + 1
        BY <1>1, <3>2
      <4>2. name[q + 1] = t[q - k - 2]
        BY <1>1, <4>1
      <4>3. QED
        BY <1>4, <2>3, <4>1, <4>2, Zenon
    <3>3. QED
      BY <3>1, <3>2
  <2>9. q = k + 1
    <3>1. k \in Nat /\ m \in Nat /\ Len(name) \in Nat /\ q \in 1..Len(name)
      BY <1>1, <2>3, Zenon
    <3> HIDE DEF k, m
    <3>2. QED
      BY <2>5, <2>6, <2>7, <2>8, <3>1
  <2>10. q + 2 - k = 3
    BY <1>1, <2>9
  <2>11. QED
    BY <2>4, <2>10
<1>6. 3 \in Matches(b)
  <2> DEFINE s == SubSeq(b, 3, 3 + Len(SCHEME) - 1)
  <2>1. /\ b \in String /\ Len(b) = Len(name) + 2
        /\ \A j \in 1..Len(name) : b[j + 2] = name[j]
    BY <1>1, EncodedIs
  <2> HIDE DEF b
  <2>2. s \in String /\ Len(s) = k + 3 /\ \A j \in 1..(k + 3) : s[j] = b[j + 2]
    BY <1>1, <1>2, <2>1 DEF String
  <2> HIDE DEF s
  <2>3. ASSUME NEW j \in 1..(k + 3) PROVE s[j] = SCHEME[j]
    <3>1. j \in 1..Len(name)
      BY <1>1
    <3>2. QED
      BY <1>1, <2>1, <2>2, <3>1, Zenon
  <2>4. s = SCHEME
    BY <1>2, <2>2, <2>3, SameString
  <2>5. 3 \in 1..(Len(b) + 1 - Len(SCHEME))
    BY <1>1, <1>2, <2>1
  <2>6. QED
    BY <2>4, <2>5, Zenon DEF Matches, s
<1>7. QED
  BY <1>5, <1>6

\* Read back, a SPIFFE ID gives its trust domain.
LEMMA ReadBack ==
    ASSUME NEW t \in TrustName, NEW name, SpiffeLike(name, t)
    PROVE  extract_spiffe_trust_domain(Encoded(name)) = t
<1> DEFINE b == Encoded(name)
           k == Len(SPIFFE)
           m == Len(t)
           raw == SubSeq(b, 3, Len(b))
           uri == Before(name, NonGraphic)
           u == Len(uri)
           rest == SubSeq(uri, k + 4, u)
           r == Before(rest, {Slash})
           l == Len(r)
<1>1. /\ name \in String /\ k + m + 5 <= Len(name)
      /\ \A i \in 1..k : name[i] \in Letters
      /\ \A i \in 1..(k + 3) : name[i] = SCHEME[i]
      /\ \A j \in 1..m : name[k + 3 + j] = t[j]
      /\ name[k + m + 4] = Slash
      /\ k \in Nat /\ m \in Nat /\ Len(name) \in Nat
  <2>1. k \in Nat /\ m \in Nat
    BY SchemeIs DEF TrustName
  <2>2. k + 3 + m + 2 = k + m + 5 /\ k + 3 + m + 1 = k + m + 4
    BY <2>1
  <2>3. QED
    BY <2>1, <2>2 DEF SpiffeLike, String
<1>2. /\ Len(SCHEME) = k + 3 /\ SCHEME[k + 1] = Colon /\ SCHEME[k + 2] = Slash /\ SCHEME[k + 3] = Slash
  BY SchemeIs
<1>3. t \in String /\ \A j \in 1..m : t[j] # Slash /\ t[j] \notin NonGraphic
  BY DEF TrustName, String
<1>4. raw = name
  <2>1. /\ b \in String /\ Len(b) = Len(name) + 2
        /\ \A j \in 1..Len(name) : b[j + 2] = name[j]
    BY <1>1, EncodedIs
  <2> HIDE DEF b
  <2>2. raw \in String /\ Len(raw) = Len(name) /\ \A j \in 1..Len(name) : raw[j] = b[j + 2]
    BY <1>1, <2>1 DEF String
  <2> HIDE DEF raw
  <2>3. QED
    BY <1>1, <2>1, <2>2, SameString
<1>5. extract_spiffe_trust_domain(b) = r
  <2>1. Matches(b) = {3}
    BY OneMatch
  <2> HIDE DEF b
  <2>2. (CHOOSE i \in Matches(b) : TRUE) = 3
    BY <2>1
  <2>3. ~(\A i \in Matches(b) : Matches(b) # {i})
    BY <2>1
  <2>4. Len(SCHEME) + 1 = k + 4
    BY <1>1, <1>2
  <2> HIDE DEF k
  <2>5. QED
    BY <1>4, <2>2, <2>3, <2>4, Zenon DEF extract_spiffe_trust_domain
<1> HIDE DEF b, raw, k, m
<1>6. /\ uri \in Seq(Chars \ NonGraphic) /\ u \in 0..Len(name)
      /\ \A i \in 1..u : uri[i] = name[i]
      /\ u < Len(name) => name[u + 1] \in NonGraphic
  <2>1. name \in Seq(Chars)
    BY <1>1, Zenon DEF String
  <2>2. /\ uri \in Seq(Chars \ NonGraphic) /\ u \in 0..Len(name)
        /\ Begins(uri, name)
        /\ u < Len(name) => name[u + 1] \in NonGraphic
    BY <2>1, BeforeIs, Zenon
  <2> HIDE DEF uri
  <2>3. QED
    BY <2>2, Zenon DEF Begins
<1> HIDE DEF uri
<1>7. ASSUME NEW i \in 1..(k + m + 4) PROVE name[i] \notin NonGraphic
  <2>1. CASE i \in 1..k
    BY <1>1, <2>1, KindsDiffer, Zenon
  <2>2. CASE i \in {k + 1, k + 2, k + 3}
    <3>1. k + 1 \in 1..(k + 3) /\ k + 2 \in 1..(k + 3) /\ k + 3 \in 1..(k + 3)
      BY <1>1
    <3>2. QED
      BY <1>1, <1>2, <2>2, <3>1, KindsDiffer
  <2>3. CASE i \in (k + 4)..(k + 3 + m)
    <3>1. i - k - 3 \in 1..m /\ k + 3 + (i - k - 3) = i
      BY <1>1, <2>3
    <3>2. QED
      BY <1>1, <1>3, <3>1, Zenon
  <2>4. CASE i = k + m + 4
    BY <1>1, <2>4, KindsDiffer
  <2>5. QED
    BY <1>1, <2>1, <2>2, <2>3, <2>4
<1>8. u \in Nat /\ u >= k + m + 4
  <2>1. ASSUME u < k + m + 4 PROVE FALSE
    <3>1. u < Len(name) /\ u + 1 \in 1..(k + m + 4)
      BY <1>1, <1>6, <2>1
    <3>2. QED
      BY <1>6, <1>7, <3>1, Zenon
  <2>2. QED
    BY <1>1, <1>6, <2>1
<1>9. /\ rest \in Seq(Chars \ NonGraphic) /\ Len(rest) = u - k - 3
      /\ \A j \in 1..(u - k - 3) : rest[j] = uri[k + 3 + j]
  BY <1>1, <1>6, <1>8
<1> HIDE DEF rest, u
<1>10. ASSUME NEW j \in 1..m PROVE rest[j] = t[j]
  <2>1. j \in 1..(u - k - 3) /\ k + 3 + j \in 1..u
    BY <1>1, <1>8
  <2>2. QED
    BY <1>1, <1>6, <1>9, <2>1, Zenon
<1>11. rest[m + 1] = Slash /\ m + 1 <= Len(rest)
  <2>1. m + 1 \in 1..(u - k - 3) /\ k + 3 + (m + 1) = k + m + 4 /\ k + m + 4 \in 1..u
    BY <1>1, <1>8
  <2>2. rest[m + 1] = uri[k + 3 + (m + 1)]
    BY <1>9, <2>1, Zenon
  <2>3. uri[k + m + 4] = name[k + m + 4]
    BY <1>6, <2>1, Zenon
  <2>4. rest[m + 1] = Slash
    BY <1>1, <2>1, <2>2, <2>3, Zenon
  <2>5. QED
    BY <1>1, <1>8, <1>9, <2>4
<1>12. /\ r \in Seq((Chars \ NonGraphic) \ {Slash}) /\ l \in 0..Len(rest)
       /\ \A i \in 1..l : r[i] = rest[i]
       /\ l < Len(rest) => rest[l + 1] \in {Slash}
  <2>1. rest \in Seq(Chars \ NonGraphic)
    BY <1>9, Zenon
  <2>2. /\ r \in Seq((Chars \ NonGraphic) \ {Slash}) /\ l \in 0..Len(rest)
        /\ Begins(r, rest)
        /\ l < Len(rest) => rest[l + 1] \in {Slash}
    BY <2>1, BeforeIs, Zenon
  <2> HIDE DEF r
  <2>3. QED
    BY <2>2, Zenon DEF Begins
<1> HIDE DEF r
<1>13. r \in String /\ \A i \in 1..l : r[i] # Slash
  BY <1>12 DEF String
<1> HIDE DEF l
<1>14. Len(rest) \in Nat
  BY <1>9
<1>15. l = m
  <2>1. ASSUME l < m PROVE FALSE
    <3>1. l + 1 \in 1..m /\ l < Len(rest)
      BY <1>1, <1>11, <1>12, <1>14, <2>1
    <3>2. QED
      BY <1>3, <1>10, <1>12, <3>1, Zenon
  <2>2. ASSUME l > m PROVE FALSE
    <3>1. m + 1 \in 1..l
      BY <1>1, <1>12, <1>14, <2>2
    <3>2. QED
      BY <1>11, <1>12, <1>13, <3>1, Zenon
  <2>3. QED
    BY <1>1, <1>12, <1>14, <2>1, <2>2
<1>16. r = t
  <2>1. ASSUME NEW i \in 1..l PROVE r[i] = t[i]
    BY <1>10, <1>12, <1>15, Zenon
  <2>2. QED
    BY <1>3, <1>13, <1>15, <2>1, SameString, Zenon DEF l, m
<1>17. QED
  BY <1>5, <1>16, Zenon DEF b

\* The names of an admitted operator hold no ':' either.
LEMMA ValidOperatorColonFree ==
    ASSUME NEW op \in ValidOperators
    PROVE  op.domain \in ColonFree /\ op.role \in ColonFree
<1>1. op \in [domain: String, role: String] /\ validate_domain(op.domain) /\ validate_role(op.role)
  BY InputsAssumption DEF ValidOperators, ValidOperator
<1> DEFINE d == op.domain
           r == op.role
<1>2. d \in String /\ r \in String /\ DomainName(d) /\ RoleName(r)
  BY <1>1, ValidDomainIsName, ValidRoleIsName
<1> HIDE DEF d, r
<1>3. Colon \notin Letters \cup {Dash, Dot}
  BY LettersAssumption DEF Colon, Dash, Dot
<1>4. \A s \in String : HostName(s) => s \in ColonFree
  <2> SUFFICES ASSUME NEW s \in String, HostName(s)
               PROVE  s \in ColonFree
    OBVIOUS
  <2>1. \A i \in DOMAIN s : s[i] \in Chars /\ s[i] # Colon
    BY <1>3 DEF HostName, String
  <2>2. QED
    BY <2>1 DEF String, ColonFree
<1>5. d \in ColonFree /\ r \in ColonFree
  BY <1>2, <1>4 DEF DomainName, RoleName
<1>6. QED
  BY <1>5 DEF d, r

\* The identities that policies give hold no ':'.
PolicyNamesColonFree ==
    \A p \in Policies :
      {p.publisher_domain, p.publisher_role, p.workload_name} \subseteq Seq(Chars \ {Colon})

\* The SPIFFE ID of a leaf, read back, gives the trust domain it was made with.
LEMMA SpiffeReadBack ==
    ASSUME PolicyNamesColonFree,
           NEW t \in TrustName, NEW op \in ValidOperators, NEW p \in Policies
    PROVE  extract_spiffe_trust_domain(Der(<<create_spiffe_extension(t, op, p)>>)) = t
<1> DEFINE d == op.domain
           r == op.role
           pd == p.publisher_domain
           pr == p.publisher_role
           wn == p.workload_name
           w == Join(WORKLOAD, wn)
           q == Join(pr, w)
           s == Join(pd, q)
           u == Join(PUBLISHER, s)
           x == Join(r, u)
           y == Join(d, x)
           z == Join(OPERATOR, y)
           name == Cat(SCHEME, Join(t, z))
<1>1. t \in String /\ op \in [domain: String, role: String]
  BY TrustNameIs, SlashFreeIs, ValidOperatorSlashFree
<1>2. create_spiffe_extension(t, op, p) = name
  BY <1>1, SpiffeShape DEF Path, WorkloadPath
<1>3. d \in ColonFree /\ r \in ColonFree
  BY ValidOperatorColonFree
<1>4. pd \in ColonFree /\ pr \in ColonFree /\ wn \in ColonFree
  BY DEF PolicyNamesColonFree, ColonFree
<1>5. OPERATOR \in ColonFree /\ PUBLISHER \in ColonFree /\ WORKLOAD \in ColonFree
  BY WordsAssumption, LettersAssumption DEF ColonFree, Chars
<1> HIDE DEF d, r, pd, pr, wn
<1>6. w \in ColonFree
  BY <1>4, <1>5, ColonFreeJoin, Zenon
<1> HIDE DEF w
<1>7. q \in ColonFree
  BY <1>4, <1>6, ColonFreeJoin, Zenon
<1> HIDE DEF q
<1>8. s \in ColonFree
  BY <1>4, <1>7, ColonFreeJoin, Zenon
<1> HIDE DEF s
<1>9. u \in ColonFree
  BY <1>5, <1>8, ColonFreeJoin, Zenon
<1> HIDE DEF u
<1>10. x \in ColonFree
  BY <1>3, <1>9, ColonFreeJoin, Zenon
<1> HIDE DEF x
<1>11. y \in ColonFree
  BY <1>3, <1>10, ColonFreeJoin, Zenon
<1> HIDE DEF y
<1>12. z \in ColonFree
  BY <1>5, <1>11, ColonFreeJoin, Zenon
<1>13. z # <<>> /\ z[1] \in Letters
  <2>1. OPERATOR \in String /\ y \in String
    BY <1>5, <1>11 DEF ColonFree, String
  <2>2. Len(z) = Len(OPERATOR) + 1 + Len(y) /\ \A i \in 1..Len(OPERATOR) : z[i] = OPERATOR[i]
    BY <2>1, JoinParts, Zenon
  <2> HIDE DEF z
  <2>3. Len(OPERATOR) \in Nat /\ Len(OPERATOR) >= 1 /\ OPERATOR[1] \in Letters
    BY WordsAssumption
  <2>4. Len(y) \in Nat
    BY <2>1 DEF String
  <2>5. Len(z) # 0 /\ z[1] = OPERATOR[1]
    BY <2>2, <2>3, <2>4
  <2>6. QED
    BY <2>3, <2>5
<1> HIDE DEF z
<1>14. SpiffeLike(name, t)
  BY <1>1, <1>12, <1>13, SpiffeLooks, Zenon
<1> HIDE DEF name
<1>15. name \in String
  BY <1>14, Zenon DEF SpiffeLike
<1>16. extract_spiffe_trust_domain(Der(<<name>>)) = t
  BY <1>14, <1>15, DerOne, ReadBack, Zenon
<1>17. QED
  BY <1>2, <1>16, Zenon

-----------------------------------------------------------------------------
(* The trust domain of a certificate.                                      *)

\* A name with its two bytes has the scheme behind them iff it is a SPIFFE ID.
LEMMA SpiffeOccurs ==
    ASSUME NEW name \in String
    PROVE  IsSpiffe(name) <=> Occurs(Encoded(name), 3)
<1> DEFINE k == Len(SPIFFE)
           b == Encoded(name)
           s == SubSeq(name, 1, Len(SCHEME))
<1>1. k \in Nat /\ SCHEME \in String /\ Len(SCHEME) = k + 3 /\ Len(name) \in Nat
  BY SchemeIs DEF String
<1>2. /\ Len(b) = Len(name) + 2
      /\ \A i \in 1..Len(name) : b[i + 2] = name[i]
  BY EncodedIs, Zenon
<1>3. IsSpiffe(name) <=> k + 3 <= Len(name) /\ s = SCHEME
  BY <1>1 DEF IsSpiffe
<1>4. Occurs(b, 3) <=> 3 + k + 2 <= Len(b) /\ \A j \in 1..(k + 3) : b[3 + j - 1] = SCHEME[j]
  BY DEF Occurs
<1> HIDE DEF k, b
<1>5. k + 3 <= Len(name) <=> 3 + k + 2 <= Len(b)
  BY <1>1, <1>2
<1>6. ASSUME k + 3 <= Len(name)
      PROVE  s = SCHEME <=> \A j \in 1..(k + 3) : b[3 + j - 1] = SCHEME[j]
  <2>1. s \in String /\ Len(s) = k + 3 /\ \A j \in 1..(k + 3) : s[j] = name[j]
    BY <1>1, <1>6 DEF String
  <2> HIDE DEF s
  <2>2. ASSUME NEW j \in 1..(k + 3) PROVE b[3 + j - 1] = s[j]
    <3>1. j \in 1..Len(name) /\ 3 + j - 1 = j + 2
      BY <1>1, <1>6
    <3>2. QED
      BY <1>2, <2>1, <3>1, Zenon
  <2>3. ASSUME s = SCHEME, NEW j \in 1..(k + 3) PROVE b[3 + j - 1] = SCHEME[j]
    BY <2>2, <2>3, Zenon
  <2>4. ASSUME \A j \in 1..(k + 3) : b[3 + j - 1] = SCHEME[j] PROVE s = SCHEME
    <3>1. \A j \in 1..Len(s) : s[j] = SCHEME[j]
      BY <2>1, <2>2, <2>4, Zenon
    <3>2. QED
      BY <1>1, <2>1, <3>1, SameString, Zenon
  <2>5. QED
    BY <2>3, <2>4, Zenon
<1>7. QED
  BY <1>3, <1>4, <1>5, <1>6, Zenon DEF b

\* Every byte belongs to one of the names.
LEMMA InSomeName ==
    ASSUME NEW names \in Seq(String), NEW b, NEW off, Laid(names, b, off), NEW p \in 1..Len(b)
    PROVE  \E i \in 1..Len(names) : off[i - 1] < p /\ p <= off[i]
<1> DEFINE N == Len(names)
           S == {i \in 0..N : p <= off[i]}
<1>1. N \in Nat /\ Len(b) \in Nat
  BY DEF Laid, String
<1>2. off \in [0..N -> Nat] /\ off[0] = 0 /\ off[N] = Len(b)
  BY Zenon DEF Laid
<1>3. S \in SUBSET Nat
  BY <1>1
<1>4. N \in S
  BY <1>1, <1>2
<1>5. PICK i \in S : \A j \in S : i <= j
  BY <1>3, <1>4, LeastExists, Zenon
<1>6. i \in 0..N /\ p <= off[i]
  BY <1>5, Zenon
<1>7. i # 0
  BY <1>2, <1>6
<1>8. i \in 1..N /\ i - 1 \in 0..N /\ ~(i <= i - 1)
  BY <1>1, <1>6, <1>7
<1>9. ~(p <= off[i - 1])
  BY <1>5, <1>8, Zenon
<1>10. off[i - 1] \in Nat /\ p \in Nat
  BY <1>1, <1>2, <1>8
<1>11. off[i - 1] < p
  BY <1>9, <1>10
<1>12. QED
  BY <1>6, <1>8, <1>11, Zenon

\* The scheme does not reach from one name into the next: a tag would be in it.
LEMMA OccursInName ==
    ASSUME NEW names \in Seq(String), NEW b, NEW off, Laid(names, b, off), NEW p, Occurs(b, p)
    PROVE  \E i \in 1..Len(names) :
             off[i - 1] < p /\ Occurs(Encoded(names[i]), p - off[i - 1])
<1> DEFINE N == Len(names)
           k == Len(SPIFFE)
<1>1. k \in Nat /\ N \in Nat /\ Len(b) \in Nat
  BY SchemeIs DEF Laid, String
<1>2. p \in Nat /\ 1 <= p /\ p + k + 2 <= Len(b) /\ \A j \in 1..(k + 3) : b[p + j - 1] = SCHEME[j]
  BY Zenon DEF Occurs
<1>3. PICK i \in 1..N : off[i - 1] < p /\ p <= off[i]
  <2>1. p \in 1..Len(b)
    BY <1>1, <1>2
  <2>2. QED
    BY <2>1, InSomeName, Zenon
<1> DEFINE name == names[i]
           c == Encoded(name)
           o == off[i - 1]
           l == Len(name)
<1>4. name \in String /\ l \in Nat
  BY DEF String
<1>5. c \in String /\ Len(c) = l + 2 /\ c[1] = Tag
  BY <1>4, EncodedIs, Zenon
<1>6. /\ off \in [0..N -> Nat] /\ off[N] = Len(b)
      /\ off[i] = o + 2 + l
      /\ \A j \in 1..(2 + l) : b[o + j] = c[j]
  BY Zenon DEF Laid
<1>7. i \in 0..N /\ i - 1 \in 0..N
  BY <1>1
<1>8. o \in Nat
  BY <1>6, <1>7
<1> HIDE DEF k, c, l, o, name
<1>9. ASSUME NEW q \in p..(p + k + 2) PROVE b[q] # Tag
  <2>1. q - p + 1 \in 1..(k + 3) /\ p + (q - p + 1) - 1 = q
    BY <1>1, <1>2
  <2>2. b[q] = SCHEME[q - p + 1]
    BY <1>2, <2>1
  <2>3. SCHEME[q - p + 1] \notin NonGraphic
    BY <2>1, SchemeGraphic, Zenon DEF k
  <2>4. QED
    BY <2>2, <2>3, HeaderIs, Zenon
<1>10. p + k + 2 <= o + 2 + l
  <2> SUFFICES ASSUME o + 2 + l < p + k + 2 PROVE FALSE
    BY <1>1, <1>2, <1>4, <1>8
  <2>1. i # N
    <3>1. ASSUME i = N PROVE off[i] = Len(b)
      BY <1>6, <3>1, Zenon
    <3>2. QED
      BY <1>1, <1>2, <1>4, <1>6, <1>8, <3>1
  <2>2. i + 1 \in 1..N /\ (i + 1) - 1 = i
    BY <1>1, <2>1
  <2>3. /\ names[i + 1] \in String /\ Len(names[i + 1]) \in Nat
    BY <2>2 DEF String
  <2>4. 1 \in 1..(2 + Len(names[i + 1]))
    BY <2>3
  <2>5. b[off[(i + 1) - 1] + 1] = Encoded(names[i + 1])[1]
    BY <2>2, <2>4, Zenon DEF Laid
  <2>6. b[off[i] + 1] = Tag
    BY <2>2, <2>3, <2>5, EncodedIs, Zenon
  <2>7. off[i] + 1 \in p..(p + k + 2)
    <3>1. off[i] \in Nat
      BY <1>6, <1>7
    <3>2. off[i] < p + k + 2
      BY <1>6
    <3>3. QED
      BY <1>1, <1>2, <1>3, <3>1, <3>2
  <2>8. QED
    BY <1>9, <2>6, <2>7, Zenon
<1>11. p - o \in Nat /\ 1 <= p - o /\ (p - o) + k + 2 <= Len(c)
  <2>1. o < p
    BY <1>3, Zenon DEF o
  <2>2. QED
    BY <1>1, <1>2, <1>4, <1>5, <1>8, <1>10, <2>1
<1>12. ASSUME NEW j \in 1..(k + 3) PROVE c[(p - o) + j - 1] = SCHEME[j]
  <2>1. (p - o) + j - 1 \in 1..(2 + l) /\ o + ((p - o) + j - 1) = p + j - 1
    BY <1>1, <1>2, <1>4, <1>5, <1>8, <1>11
  <2>2. b[o + ((p - o) + j - 1)] = c[(p - o) + j - 1]
    BY <1>6, <2>1, Zenon
  <2>3. b[p + j - 1] = SCHEME[j]
    BY <1>2, Zenon
  <2>4. QED
    BY <2>1, <2>2, <2>3, Zenon
<1>13. Occurs(c, p - o)
  BY <1>11, <1>12, Zenon DEF Occurs, k
<1>14. QED
  BY <1>3, <1>13, Zenon DEF c, o, name

\* And it occurs in the extension wherever it occurs in a name.
LEMMA NameOccurs ==
    ASSUME NEW names \in Seq(String), NEW b, NEW off, Laid(names, b, off),
           NEW i \in 1..Len(names), Occurs(Encoded(names[i]), 3)
    PROVE  Occurs(b, off[i - 1] + 3)
<1> DEFINE N == Len(names)
           k == Len(SPIFFE)
           name == names[i]
           c == Encoded(name)
           o == off[i - 1]
           l == Len(name)
<1>1. k \in Nat /\ N \in Nat /\ Len(b) \in Nat
  <2>1. b \in String
    BY Zenon DEF Laid
  <2>2. k \in Nat
    BY SchemeIs, Zenon
  <2> HIDE DEF k
  <2>3. QED
    BY <2>1, <2>2 DEF String
<1>2. name \in String /\ l \in Nat
  <2>1. names[i] \in String
    OBVIOUS
  <2> HIDE DEF name
  <2>2. name \in String
    BY <2>1, Zenon DEF name
  <2>3. QED
    BY <2>2 DEF String
<1>3. Len(c) = l + 2
  BY <1>2, EncodedIs, Zenon
<1>4. 3 + k + 2 <= Len(c) /\ \A j \in 1..(k + 3) : c[3 + j - 1] = SCHEME[j]
  BY Zenon DEF Occurs
<1>5. /\ off \in [0..N -> Nat] /\ off[N] = Len(b)
      /\ off[i] = o + 2 + l
      /\ \A j \in 1..(2 + l) : b[o + j] = c[j]
      /\ \A m, n \in 0..N : m < n => off[m] < off[n]
  BY Zenon DEF Laid
<1>6. i \in 0..N /\ i - 1 \in 0..N /\ N \in 0..N /\ (i < N \/ i = N)
  BY <1>1
<1>7. o \in Nat /\ off[i] \in Nat
  BY <1>5, <1>6
<1>8. off[i] <= Len(b)
  <2>1. off[i] < off[N] \/ off[i] = off[N]
    BY <1>5, <1>6, Zenon
  <2>2. off[N] = Len(b)
    BY <1>5, Zenon
  <2>3. QED
    BY <1>1, <1>7, <2>1, <2>2
<1> HIDE DEF k, c, l, o, name
<1>9. o + 3 \in Nat /\ 1 <= o + 3 /\ (o + 3) + k + 2 <= Len(b)
  <2>1. off[i] = o + 2 + l
    BY <1>5, Zenon
  <2>2. QED
    BY <1>1, <1>2, <1>3, <1>4, <1>7, <1>8, <2>1
<1>10. ASSUME NEW j \in 1..(k + 3) PROVE b[(o + 3) + j - 1] = SCHEME[j]
  <2>1. 3 + j - 1 \in 1..(2 + l) /\ o + (3 + j - 1) = (o + 3) + j - 1
    BY <1>1, <1>2, <1>3, <1>4, <1>7
  <2>2. b[o + (3 + j - 1)] = c[3 + j - 1]
    BY <1>5, <2>1, Zenon
  <2>3. QED
    BY <1>4, <2>1, <2>2, Zenon
<1>11. Occurs(b, o + 3)
  BY <1>9, <1>10, Zenon DEF Occurs, k
<1>12. QED
  BY <1>11, Zenon DEF o

\* A name as certificates have them: printable, and with the scheme nowhere
\* but at its start, its length byte included.
PlainName(name) == name \in Seq(Chars \ NonGraphic) /\ Matches(Encoded(name)) \subseteq {3}

PlainNames(names) == \A i \in DOMAIN names : PlainName(names[i])

SpiffeIds(names) == {i \in DOMAIN names : IsSpiffe(names[i])}

\* Where the SPIFFE IDs begin.
Starts(names, off) == {off[i - 1] + 3 : i \in SpiffeIds(names)}

\* The scan finds the SPIFFE IDs among the names.
LEMMA ScanFinds ==
    ASSUME NEW names \in Seq(String), PlainNames(names),
           NEW b, NEW off, Laid(names, b, off)
    PROVE  Matches(b) = Starts(names, off)
<1> DEFINE N == Len(names)
<1>1. DOMAIN names = 1..N /\ N \in Nat /\ \A i \in 1..N : names[i] \in String
  OBVIOUS
<1>2. b \in String /\ off \in [0..N -> Nat]
  BY Zenon DEF Laid
<1>3. ASSUME NEW p \in Matches(b) PROVE \E i \in SpiffeIds(names) : p = off[i - 1] + 3
  <2>1. Occurs(b, p)
    BY <1>2, MatchesAre, Zenon
  <2>2. PICK i \in 1..N : off[i - 1] < p /\ Occurs(Encoded(names[i]), p - off[i - 1])
    BY <2>1, OccursInName, Zenon
  <2>3. names[i] \in String /\ Encoded(names[i]) \in String
    BY <1>1, EncodedIs, Zenon
  <2>4. p - off[i - 1] \in Matches(Encoded(names[i]))
    BY <2>2, <2>3, MatchesAre, Zenon
  <2>5. Matches(Encoded(names[i])) \subseteq {3}
    BY <1>1, Zenon DEF PlainNames, PlainName
  <2>6. p - off[i - 1] = 3
    BY <2>4, <2>5, Zenon
  <2>7. IsSpiffe(names[i])
    BY <2>2, <2>3, <2>6, SpiffeOccurs, Zenon
  <2>8. off[i - 1] \in Nat /\ p \in Nat
    <3>1. i - 1 \in 0..N
      BY <1>1
    <3>2. p \in Nat
      BY <2>1, Zenon DEF Occurs
    <3>3. QED
      BY <1>2, <3>1, <3>2
  <2>9. p = off[i - 1] + 3
    BY <2>6, <2>8
  <2>10. QED
    BY <1>1, <2>7, <2>9, Zenon DEF SpiffeIds
<1>4. ASSUME NEW i \in SpiffeIds(names) PROVE off[i - 1] + 3 \in Matches(b)
  <2>1. i \in 1..N /\ IsSpiffe(names[i])
    BY <1>1, Zenon DEF SpiffeIds
  <2>2. Occurs(Encoded(names[i]), 3)
    BY <1>1, <2>1, SpiffeOccurs, Zenon
  <2>3. Occurs(b, off[i - 1] + 3)
    BY <2>1, <2>2, NameOccurs, Zenon
  <2>4. QED
    BY <1>2, <2>3, MatchesAre, Zenon
<1>5. QED
  BY <1>3, <1>4, Zenon DEF Starts

\* From the start of a name the scan takes the whole name.
LEMMA ScanTakesName ==
    ASSUME NEW names \in Seq(String), NEW b, NEW off, Laid(names, b, off),
           NEW i \in 1..Len(names), PlainName(names[i])
    PROVE  Before(SubSeq(b, off[i - 1] + 3, Len(b)), NonGraphic) = names[i]
<1> DEFINE N == Len(names)
           name == names[i]
           o == off[i - 1]
           l == Len(name)
           raw == SubSeq(b, o + 3, Len(b))
<1>1. N \in Nat /\ name \in String /\ l \in Nat /\ \A j \in 1..l : name[j] \notin NonGraphic
  BY DEF PlainName, String
<1>2. /\ b \in String /\ off \in [0..N -> Nat] /\ off[N] = Len(b)
      /\ off[i] = o + 2 + l
      /\ \A j \in 1..(2 + l) : b[o + j] = Encoded(name)[j]
      /\ \A m, n \in 0..N : m < n => off[m] < off[n]
  BY Zenon DEF Laid
<1>3. i \in 0..N /\ i - 1 \in 0..N /\ N \in 0..N /\ (i < N \/ i = N)
  BY <1>1
<1>4. o \in Nat /\ off[i] \in Nat /\ Len(b) \in Nat
  BY <1>2, <1>3 DEF String
<1>5. o + 2 + l <= Len(b)
  <2>1. off[i] < off[N] \/ off[i] = off[N]
    BY <1>2, <1>3, Zenon
  <2>2. QED
    BY <1>2, <1>4, <2>1
<1>6. \A j \in 1..l : Encoded(name)[j + 2] = name[j]
  BY <1>1, EncodedIs, Zenon
<1> HIDE DEF o, l, name
<1>7. raw \in String /\ Len(raw) = Len(b) - o - 2 /\ \A j \in 1..(Len(b) - o - 2) : raw[j] = b[o + 2 + j]
  BY <1>1, <1>2, <1>4, <1>5 DEF String
<1> HIDE DEF raw
<1>8. l <= Len(raw)
  BY <1>1, <1>4, <1>5, <1>7
<1>9. ASSUME NEW j \in 1..l PROVE name[j] = raw[j]
  <2>1. j \in 1..(Len(b) - o - 2) /\ j + 2 \in 1..(2 + l) /\ o + (j + 2) = o + 2 + j
    BY <1>1, <1>4, <1>5
  <2>2. raw[j] = b[o + 2 + j]
    BY <1>7, <2>1, Zenon
  <2>3. b[o + (j + 2)] = Encoded(name)[j + 2]
    BY <1>2, <2>1, Zenon
  <2>4. QED
    BY <1>6, <2>1, <2>2, <2>3, Zenon
<1>10. ASSUME l < Len(raw) PROVE raw[l + 1] \in NonGraphic
  <2>1. i # N
    <3>1. ASSUME i = N PROVE Len(b) = o + 2 + l
      BY <1>2, <3>1, Zenon
    <3>2. QED
      BY <1>1, <1>4, <1>7, <1>10, <3>1
  <2>2. i + 1 \in 1..N /\ (i + 1) - 1 = i
    BY <1>1, <2>1
  <2>3. names[i + 1] \in String /\ Len(names[i + 1]) \in Nat
    BY <2>2 DEF String
  <2>4. 1 \in 1..(2 + Len(names[i + 1]))
    BY <2>3
  <2>5. b[off[(i + 1) - 1] + 1] = Encoded(names[i + 1])[1]
    BY <2>2, <2>4, Zenon DEF Laid
  <2>6. b[off[i] + 1] = Tag
    BY <2>2, <2>3, <2>5, EncodedIs, Zenon
  <2>7. off[i] + 1 = o + 2 + (l + 1) /\ l + 1 \in 1..(Len(b) - o - 2)
    <3>1. off[i] = o + 2 + l
      BY <1>2, Zenon
    <3>2. QED
      BY <1>1, <1>4, <1>7, <1>10, <3>1
  <2>8. raw[l + 1] = b[o + 2 + (l + 1)]
    BY <1>7, <2>7, Zenon
  <2>9. QED
    BY <2>6, <2>7, <2>8, HeaderIs, Zenon
<1>11. Before(raw, NonGraphic) = name
  <2>1. Begins(name, raw)
    BY <1>9, Zenon DEF Begins, l
  <2>2. QED
    BY <1>1, <1>7, <1>8, <1>10, <2>1, BeforeUnique, Zenon DEF l
<1>12. QED
  BY <1>11, Zenon DEF raw, o, name

\* What the scan takes from a SPIFFE ID is its trust domain, if it has one.
LEMMA TrustDomainTaken ==
    ASSUME NEW name \in String, IsSpiffe(name)
    PROVE  LET t == Before(SubSeq(name, Len(SCHEME) + 1, Len(name)), {Slash})
           IN  IF HasTrustDomain(name) THEN IsTrustDomainOf(t, name) ELSE t = <<>>
<1> DEFINE k == Len(SCHEME)
           rest == SubSeq(name, k + 1, Len(name))
           t == Before(rest, {Slash})
           m == Len(t)
<1>1. k \in Nat /\ Len(name) \in Nat /\ k <= Len(name)
  BY SchemeIs DEF String, IsSpiffe
<1> HIDE DEF k
<1>2. /\ rest \in Seq(Chars) /\ Len(rest) = Len(name) - k
      /\ \A j \in 1..(Len(name) - k) : rest[j] = name[k + j]
  BY <1>1 DEF String
<1> HIDE DEF rest
<1>3. /\ t \in Seq(Chars \ {Slash}) /\ m \in 0..Len(rest) /\ Begins(t, rest)
      /\ m < Len(rest) => rest[m + 1] \in {Slash}
  <2>1. rest \in Seq(Chars)
    BY <1>2, Zenon
  <2>2. QED
    BY <2>1, BeforeIs, Zenon
<1> HIDE DEF t
<1>4. /\ t \in String /\ m \in Nat /\ m <= Len(rest) /\ DOMAIN t = 1..m
      /\ \A j \in 1..m : t[j] # Slash
      /\ m = 0 <=> t = <<>>
  BY <1>1, <1>2, <1>3 DEF String
<1> HIDE DEF m
<1>5. ASSUME NEW j \in 1..m PROVE t[j] = name[k + j]
  <2>1. j \in 1..(Len(name) - k)
    BY <1>1, <1>2, <1>4
  <2>2. QED
    BY <1>2, <1>3, <2>1, Zenon DEF Begins, m
<1>6. ASSUME m < Len(rest) PROVE name[k + (m + 1)] = Slash
  <2>1. m + 1 \in 1..(Len(name) - k)
    BY <1>1, <1>2, <1>4, <1>6
  <2>2. rest[m + 1] = name[k + (m + 1)]
    BY <1>2, <2>1, Zenon
  <2>3. QED
    BY <1>3, <1>6, <2>2, Zenon
<1>7. HasTrustDomain(name) <=> Len(name) > k /\ name[k + 1] # Slash
  BY Zenon DEF HasTrustDomain, k
<1>8. CASE HasTrustDomain(name)
  <2>1. m # 0
    <3>1. ASSUME m = 0 PROVE FALSE
      <4>1. m < Len(rest) /\ k + (m + 1) = k + 1
        BY <1>1, <1>2, <1>7, <1>8, <3>1
      <4>2. QED
        BY <1>6, <1>7, <1>8, <4>1, Zenon
    <3>2. QED
      BY <3>1, Zenon
  <2> DEFINE s == SubSeq(name, k + 1, k + m)
  <2>2. s \in String /\ Len(s) = m /\ \A j \in 1..m : s[j] = name[k + j]
    BY <1>1, <1>2, <1>4 DEF String
  <2> HIDE DEF s
  <2>3. s = t
    <3>1. \A j \in 1..Len(s) : s[j] = t[j]
      BY <1>5, <2>2, Zenon
    <3>2. Len(s) = Len(t)
      BY <2>2, Zenon DEF m
    <3>3. QED
      BY <1>4, <2>2, <3>1, <3>2, SameString, Zenon
  <2>4. k + m <= Len(name)
    BY <1>1, <1>2, <1>4
  <2>5. ASSUME Len(name) > k + m PROVE name[k + m + 1] = Slash
    <3>1. m < Len(rest) /\ k + (m + 1) = k + m + 1
      BY <1>1, <1>2, <1>4, <2>5
    <3>2. QED
      BY <1>6, <3>1, Zenon
  <2>6. t # <<>> /\ \A j \in DOMAIN t : t[j] # Slash
    BY <1>4, <2>1, Zenon
  <2>7. IsTrustDomainOf(t, name)
    BY <2>3, <2>4, <2>5, <2>6, Zenon DEF IsTrustDomainOf, s, k, m
  <2>8. QED
    BY <1>8, <2>7, Zenon DEF t, rest, k
<1>9. CASE ~HasTrustDomain(name)
  <2>1. m = 0
    <3> SUFFICES ASSUME m # 0 PROVE FALSE
      BY Zenon
    <3>1. 1 \in 1..m /\ Len(name) > k
      BY <1>1, <1>2, <1>4
    <3>2. QED
      BY <1>4, <1>5, <1>7, <1>9, <3>1, Zenon
  <2>2. t = <<>>
    BY <1>4, <2>1, Zenon
  <2>3. QED
    BY <1>9, <2>2, Zenon DEF t, rest, k
<1>10. QED
  BY <1>8, <1>9, Zenon

\* The trust domain is read exactly.
LEMMA ExtractExact ==
    ASSUME NEW names \in Seq(String), PlainNames(names)
    PROVE  LET trust == extract_spiffe_trust_domain(Der(names)) IN
           IF \E i \in SpiffeIds(names) : SpiffeIds(names) = {i} /\ HasTrustDomain(names[i])
           THEN trust # <<>> /\ \A i \in SpiffeIds(names) : IsTrustDomainOf(trust, names[i])
           ELSE trust = <<>>
<1> DEFINE N == Len(names)
           b == Der(names)
           ids == SpiffeIds(names)
           trust == extract_spiffe_trust_domain(b)
<1>1. PICK off : Laid(names, b, off)
  BY DerLaid, Zenon
<1> HIDE DEF b
<1>2. /\ N \in Nat /\ DOMAIN names = 1..N
      /\ \A i \in ids : i \in 1..N /\ names[i] \in String /\ IsSpiffe(names[i]) /\ PlainName(names[i])
  <2>1. N \in Nat /\ DOMAIN names = 1..N /\ \A i \in 1..N : names[i] \in String
    OBVIOUS
  <2>2. QED
    BY <2>1, Zenon DEF SpiffeIds, PlainNames
<1>3. \A p : p \in Matches(b) <=> \E i \in ids : p = off[i - 1] + 3
  <2>1. Matches(b) = Starts(names, off)
    BY <1>1, ScanFinds, Zenon
  <2>2. QED
    BY <2>1, Zenon DEF Starts
<1>4. off \in [0..N -> Nat] /\ \A m, n \in 0..N : m < n => off[m] < off[n]
  BY <1>1, Zenon DEF Laid
<1> HIDE DEF ids, trust
<1>5. ASSUME NEW i \in ids, NEW j \in ids, off[i - 1] + 3 = off[j - 1] + 3
      PROVE  i = j
  <2>1. i \in 1..N /\ j \in 1..N
    BY <1>2, Zenon
  <2>2. i - 1 \in 0..N /\ j - 1 \in 0..N
    BY <1>2, <2>1
  <2>3. off[i - 1] \in Nat /\ off[j - 1] \in Nat
    BY <1>4, <2>2
  <2>4. ~(i - 1 < j - 1) /\ ~(j - 1 < i - 1)
    BY <1>4, <1>5, <2>2, <2>3
  <2>5. QED
    BY <1>2, <2>1, <2>4
<1>6. CASE \A i \in ids : ids # {i}
  <2>1. \A p \in Matches(b) : Matches(b) # {p}
    <3> SUFFICES ASSUME NEW p, Matches(b) = {p} PROVE FALSE
      BY Zenon
    <3>1. PICK i \in ids : p = off[i - 1] + 3
      BY <1>3, Zenon
    <3>2. ASSUME NEW j \in ids PROVE j = i
      <4>1. off[j - 1] + 3 \in Matches(b)
        BY <1>3, Zenon
      <4>2. off[j - 1] + 3 = p
        BY <4>1, Zenon
      <4>3. QED
        BY <1>5, <3>1, <4>2, Zenon
    <3>3. ids = {i}
      BY <3>2, Zenon
    <3>4. QED
      BY <1>6, <3>3, Zenon
  <2>2. trust = <<>>
    BY <2>1, Zenon DEF trust, extract_spiffe_trust_domain
  <2>3. QED
    BY <1>6, <2>2, Zenon DEF trust, ids, b
<1>7. CASE ~ \A i \in ids : ids # {i}
  <2>1. PICK i \in ids : ids = {i}
    BY <1>7, Zenon
  <2> DEFINE p == off[i - 1] + 3
             name == names[i]
  <2>2. Matches(b) = {p}
    <3>1. \A x : x \in Matches(b) <=> x = p
      BY <1>3, <2>1, Zenon
    <3> HIDE DEF p
    <3>2. QED
      BY <3>1, Zenon
  <2>3. Before(SubSeq(b, p, Len(b)), NonGraphic) = name
    BY <1>1, <1>2, <2>1, ScanTakesName, Zenon
  <2>4. trust = Before(SubSeq(name, Len(SCHEME) + 1, Len(name)), {Slash})
    <3> HIDE DEF p, name
    <3>1. (CHOOSE x \in Matches(b) : TRUE) = p
      BY <2>2, Zenon
    <3>2. ~(\A x \in Matches(b) : Matches(b) # {x})
      BY <2>2, Zenon
    <3>3. QED
      BY <2>3, <3>1, <3>2, Zenon DEF trust, extract_spiffe_trust_domain
  <2>5. name \in String /\ IsSpiffe(name)
    BY <1>2, <2>1, Zenon
  <2>6. IF HasTrustDomain(name) THEN IsTrustDomainOf(trust, name) ELSE trust = <<>>
    BY <2>4, <2>5, TrustDomainTaken, Zenon
  <2>7. IsTrustDomainOf(trust, name) => trust # <<>>
    BY Zenon DEF IsTrustDomainOf
  <2>8. \A j \in ids : j = i
    BY <2>1, Zenon
  <2>9. CASE HasTrustDomain(name)
    BY <2>1, <2>6, <2>7, <2>8, <2>9, Zenon DEF trust, ids, b
  <2>10. CASE ~HasTrustDomain(name)
    BY <2>1, <2>6, <2>8, <2>10, Zenon DEF trust, ids, b
  <2>11. QED
    BY <2>9, <2>10, Zenon
<1>8. QED
  BY <1>6, <1>7, Zenon

-----------------------------------------------------------------------------
(* The service.                                                            *)

\* What a certification answers, in terms of what it was asked.
Explained(ans) ==
    /\ ans.op \in Operators /\ ans.issuer \in TrustName
    /\ ans.code # "InvalidArgument" <=> ValidOperator(ans.op)
    /\ ans.code = "Ok" =>
         \E p \in Policies :
           /\ ans.workload = Workload(p)
           /\ ans.san = create_san_extension(ans.issuer, ans.op, p, ans.profile)

NamesInv ==
    /\ slot \in TrustName /\ session \in TrustName
    /\ answer.kind = "certified" => Explained(answer)

\* Every answer is explained by its request and the authority that signs it.
LEMMA AnswerExplained ==
    ASSUME NEW trust \in TrustName, NEW op \in Operators, NEW p \in Policies, NEW profile
    PROVE  Explained(Answer(trust, op, p, profile))
<1> DEFINE ans == Answer(trust, op, p, profile)
<1>1. /\ ans.op = op /\ ans.issuer = trust /\ ans.workload = Workload(p) /\ ans.profile = profile
      /\ ans.code = IF ~ValidOperator(op) THEN "InvalidArgument"
                    ELSE IF op \notin p.rules THEN "FailedPrecondition" ELSE "Ok"
      /\ ans.san = IF ValidOperator(op) /\ op \in p.rules
                   THEN create_san_extension(trust, op, p, profile) ELSE <<>>
  BY DEF Answer
<1> HIDE DEF ans
<1>2. ans.code # "InvalidArgument" <=> ValidOperator(ans.op)
  BY <1>1
<1>3. ans.code = "Ok" => ans.san = create_san_extension(ans.issuer, ans.op, p, ans.profile)
  BY <1>1
<1>4. QED
  BY <1>1, <1>2, <1>3 DEF Explained, ans

\* Trust domains keep their form and answers stay explained, through rotations
\* and the sessions that outlive them.
LEMMA NamesInvariant == Spec => []NamesInv
<1>1. <<>> \in TrustName
  BY DEF TrustName
<1>2. Init => NamesInv
  BY <1>1 DEF Init, NamesInv, NoAnswer
<1>3. NamesInv /\ [Next]_vars => NamesInv'
  <2> SUFFICES ASSUME NamesInv, [Next]_vars
               PROVE  NamesInv'
    OBVIOUS
  <2>1. slot \in TrustName /\ session \in TrustName
    BY DEF NamesInv
  <2>2. CASE RotateSelfSigned
    <3>1. SELF_SIGNED_TRUST_DOMAIN \in TrustName
      BY TrustDomainAssumption, LettersAssumption DEF TrustName, Chars, Dash, Dot, Slash
    <3>2. QED
      BY <2>1, <2>2, <3>1 DEF RotateSelfSigned, NamesInv, NoAnswer
  <2>3. ASSUME NEW names \in TcaSans, RotateIntermediate(names)
        PROVE  NamesInv'
    <3>1. extract_spiffe_trust_domain(Der(names)) \in TrustName
      BY SansAssumption, DerType, ExtractType
    <3>2. slot' \in TrustName /\ session' \in TrustName /\ answer'.kind = "rotated"
      BY <2>1, <2>3, <3>1 DEF RotateIntermediate
    <3>3. QED
      BY <3>2 DEF NamesInv
  <2>4. CASE Open
    BY <2>1, <2>4 DEF Open, NamesInv, NoAnswer
  <2>5. CASE Abandon
    BY <1>1, <2>1, <2>5 DEF Abandon, NamesInv, NoAnswer
  <2>6. CASE CertifyUnary
    <3>1. PICK op \in Operators, p \in Policies, profile \in Profiles :
             answer' = Answer(slot, op, p, profile)
      BY <2>6 DEF CertifyUnary
    <3>2. Explained(answer')
      BY <2>1, <3>1, AnswerExplained
    <3>3. slot' = slot /\ session' = session
      BY <2>6 DEF CertifyUnary
    <3>4. Explained(answer)' <=> Explained(answer')
      BY DEF Explained
    <3>5. QED
      BY <2>1, <3>2, <3>3, <3>4 DEF NamesInv
  <2>7. CASE CertifySession
    <3>1. PICK op \in Operators, p \in Policies, profile \in Profiles :
             answer' = Answer(session, op, p, profile)
      BY <2>7 DEF CertifySession
    <3>2. Explained(answer')
      BY <2>1, <3>1, AnswerExplained
    <3>3. slot' = slot /\ session' = <<>>
      BY <2>7 DEF CertifySession
    <3>4. Explained(answer)' <=> Explained(answer')
      BY DEF Explained
    <3>5. QED
      BY <1>1, <2>1, <3>2, <3>3, <3>4 DEF NamesInv
  <2>8. CASE Read
    BY <2>1, <2>8 DEF Read, NamesInv, NoAnswer
  <2>9. CASE UNCHANGED vars
    BY <2>9 DEF vars, NamesInv, Explained
  <2>10. QED
    BY <2>2, <2>3, <2>4, <2>5, <2>6, <2>7, <2>8, <2>9 DEF Next
<1>4. QED
  BY <1>2, <1>3, PTL DEF Spec

\* For operators of any length: a request is refused as an invalid argument
\* exactly when its operator's domain is no host name within the limits or
\* its role no single label (validate_domain, validate_role).
THEOREM OperatorsExact == Spec => []AdmitsHostNames
<1>1. NamesInv => AdmitsHostNames
  <2> SUFFICES ASSUME NamesInv, answer.kind = "certified"
               PROVE  answer.code # "InvalidArgument"
                        <=> DomainName(answer.op.domain) /\ RoleName(answer.op.role)
    BY DEF AdmitsHostNames
  <2>1. answer.op \in Operators /\ (answer.code # "InvalidArgument" <=> ValidOperator(answer.op))
    BY DEF NamesInv, Explained
  <2>2. answer.op.domain \in String /\ answer.op.role \in String
    BY <2>1, InputsAssumption
  <2>3. /\ validate_domain(answer.op.domain) <=> DomainName(answer.op.domain)
        /\ validate_role(answer.op.role) <=> RoleName(answer.op.role)
    BY <2>2, ValidDomainIsName, NameIsValidDomain, ValidRoleIsName
  <2>4. QED
    BY <2>1, <2>3 DEF ValidOperator
<1>2. QED
  BY <1>1, NamesInvariant, PTL

\* For names of any length: the SPIFFE ID of a leaf (create_spiffe_extension)
\* determines trust domain, operator and workload, and its DNS name
\* (create_dns_extension) the operator within the trust domain, whatever
\* authorities, operators and policies there are.
THEOREM NamesIdentify == Spec => []NameIdentifies
<1>1. NamesInv => NameIdentifies
  <2> SUFFICES ASSUME NamesInv, answer.kind = "certified", answer.code = "Ok",
                      NEW trust \in TrustDomains, NEW op \in ValidOperators, NEW p \in Policies,
                      create_san_extension(trust, op, p, answer.profile) = answer.san
               PROVE  IF answer.profile = "Tls"
                      THEN trust = answer.issuer => op = answer.op
                      ELSE trust = answer.issuer /\ op = answer.op /\ Workload(p) = answer.workload
    BY DEF NameIdentifies
  <2>1. /\ answer.op \in ValidOperators /\ answer.issuer \in SlashFree /\ trust \in SlashFree
    BY TrustDomainsType, TrustNameIs DEF NamesInv, Explained, ValidOperators
  <2>2. PICK q \in Policies :
           /\ answer.workload = Workload(q)
           /\ answer.san = create_san_extension(answer.issuer, answer.op, q, answer.profile)
    BY DEF NamesInv, Explained
  <2>3. CASE answer.profile = "Tls"
    <3>1. create_dns_extension(trust, op) = create_dns_extension(answer.issuer, answer.op)
      BY <2>2, <2>3 DEF create_san_extension
    <3>2. answer.issuer \in String
      BY <2>1, SlashFreeIs
    <3>3. trust = answer.issuer => op = answer.op
      BY <2>1, <3>1, <3>2, DnsIdentifies
    <3>4. QED
      BY <2>3, <3>3
  <2>4. CASE answer.profile # "Tls"
    <3>1. create_spiffe_extension(trust, op, p) = create_spiffe_extension(answer.issuer, answer.op, q)
      BY <2>2, <2>4 DEF create_san_extension
    <3>2. trust = answer.issuer /\ op = answer.op /\ Workload(p) = Workload(q)
      BY <2>1, <3>1, SpiffeIdentifies
    <3>3. QED
      BY <2>2, <2>4, <3>2
  <2>5. QED
    BY <2>3, <2>4
<1>2. QED
  BY <1>1, NamesInvariant, PTL

\* For names of any length, as long as the policies give identities without
\* ':': a leaf is named under the trust domain of the authority that signs it
\* (create_san_extension), and a SPIFFE leaf read back the way the server
\* reads a TCA certificate (extract_spiffe_trust_domain) gives exactly that
\* trust domain: the scheme occurs once among its bytes.
THEOREM NamedByIssuer ==
    ASSUME PolicyNamesColonFree
    PROVE  Spec => []NamedByItsIssuer
<1>1. NamesInv => NamedByItsIssuer
  <2> SUFFICES ASSUME NamesInv, answer.kind = "certified", answer.code = "Ok"
               PROVE  NamedByItsIssuer
    BY Zenon DEF NamedByItsIssuer
  <2>1. answer.op \in ValidOperators /\ answer.issuer \in TrustName
    BY DEF NamesInv, Explained, ValidOperators
  <2>2. PICK p \in Policies : answer.san = create_san_extension(answer.issuer, answer.op, p, answer.profile)
    BY DEF NamesInv, Explained
  <2>3. CASE answer.profile = "Tls"
    <3>1. answer.san = create_dns_extension(answer.issuer, answer.op)
      BY <2>2, <2>3, Zenon DEF create_san_extension
    <3>2. LET host == answer.op.role \o <<Dot>> \o answer.op.domain
          IN  answer.san = host \o <<Dot>> \o answer.issuer
      BY <3>1, Zenon DEF create_dns_extension
    <3>3. QED
      BY <2>3, <3>2, Zenon DEF NamedByItsIssuer
  <2>4. CASE answer.profile # "Tls"
    <3>1. answer.san = create_spiffe_extension(answer.issuer, answer.op, p)
      BY <2>2, <2>4, Zenon DEF create_san_extension
    <3>2. extract_spiffe_trust_domain(Der(<<create_spiffe_extension(answer.issuer, answer.op, p)>>))
            = answer.issuer
      BY <2>1, SpiffeReadBack, Zenon
    <3>3. QED
      BY <2>4, <3>1, <3>2, Zenon DEF NamedByItsIssuer
  <2>5. QED
    BY <2>3, <2>4
<1>2. QED
  BY <1>1, NamesInvariant, PTL

\* After a rotation: what was read from the certificate, and is installed
\* unless nothing was.
RotatedInv ==
    answer.kind = "rotated" =>
      /\ answer.names \in TcaSans
      /\ answer.trust = extract_spiffe_trust_domain(Der(answer.names))
      /\ answer.trust # <<>> => slot = answer.trust

\* An answer to a rotation stays true until it is read.
LEMMA RotatedInvariant == Spec => []RotatedInv
<1>1. Init => RotatedInv
  BY DEF Init, RotatedInv, NoAnswer
<1>2. RotatedInv /\ [Next]_vars => RotatedInv'
  <2> SUFFICES ASSUME RotatedInv, [Next]_vars
               PROVE  RotatedInv'
    OBVIOUS
  <2>1. CASE RotateSelfSigned \/ Open \/ Abandon
    BY <2>1 DEF RotateSelfSigned, Open, Abandon, RotatedInv, NoAnswer
  <2>2. ASSUME NEW names \in TcaSans, RotateIntermediate(names)
        PROVE  RotatedInv'
    <3> DEFINE trust == extract_spiffe_trust_domain(Der(names))
    <3>1. /\ slot' = IF trust = <<>> THEN slot ELSE trust
          /\ answer' = [kind |-> "rotated", names |-> names, trust |-> trust]
      BY <2>2, Zenon DEF RotateIntermediate
    <3>2. answer'.names = names /\ answer'.trust = trust
      <4> HIDE DEF trust
      <4>1. QED
        BY <3>1
    <3>3. QED
      BY <3>1, <3>2, Zenon DEF RotatedInv
  <2>3. CASE CertifyUnary
    <3>1. PICK op, p, profile : answer' = Answer(slot, op, p, profile)
      BY <2>3 DEF CertifyUnary
    <3>2. answer'.kind = "certified"
      BY <3>1 DEF Answer
    <3>3. QED
      BY <3>2 DEF RotatedInv
  <2>4. CASE CertifySession
    <3>1. PICK op, p, profile : answer' = Answer(session, op, p, profile)
      BY <2>4 DEF CertifySession
    <3>2. answer'.kind = "certified"
      BY <3>1 DEF Answer
    <3>3. QED
      BY <3>2 DEF RotatedInv
  <2>5. CASE Read
    BY <2>5 DEF Read, RotatedInv, NoAnswer
  <2>6. CASE UNCHANGED vars
    BY <2>6 DEF vars, RotatedInv
  <2>7. QED
    BY <2>1, <2>2, <2>3, <2>4, <2>5, <2>6 DEF Next
<1>3. QED
  BY <1>1, <1>2, PTL DEF Spec

\* The names of the certificates that the TCA issues are plain.
TcaNamesPlain == \A names \in TcaSans : PlainNames(names)

\* For certificates with any number of names of any length, as long as each
\* is printable and has "spiffe://" at its start or not at all: an authority
\* gets a trust domain exactly when one name only is a SPIFFE ID and has one,
\* and it gets that one's (extract_spiffe_trust_domain), whatever the tags and
\* lengths between the names spell.
THEOREM TrustDomainRead ==
    ASSUME TcaNamesPlain
    PROVE  Spec => []TrustDomainExact
<1>1. RotatedInv => TrustDomainExact
  <2> SUFFICES ASSUME RotatedInv, answer.kind = "rotated"
               PROVE  TrustDomainExact
    BY DEF TrustDomainExact
  <2> DEFINE names == answer.names
             ids == SpiffeIds(names)
  <2>1. /\ names \in TcaSans /\ answer.trust = extract_spiffe_trust_domain(Der(names))
        /\ answer.trust # <<>> => slot = answer.trust
    BY DEF RotatedInv
  <2>2. names \in Seq(String) /\ PlainNames(names)
    BY <2>1, SansAssumption, Zenon DEF TcaNamesPlain
  <2>3. IF \E i \in ids : ids = {i} /\ HasTrustDomain(names[i])
        THEN answer.trust # <<>> /\ \A i \in ids : IsTrustDomainOf(answer.trust, names[i])
        ELSE answer.trust = <<>>
    BY <2>1, <2>2, ExtractExact, Zenon
  <2>4. CASE \E i \in ids : ids = {i} /\ HasTrustDomain(names[i])
    <3>1. slot = answer.trust /\ \A i \in ids : IsTrustDomainOf(slot, names[i])
      BY <2>1, <2>3, <2>4, Zenon
    <3>2. QED
      BY <2>4, <3>1, Zenon DEF TrustDomainExact, SpiffeIds
  <2>5. CASE ~ \E i \in ids : ids = {i} /\ HasTrustDomain(names[i])
    <3>1. answer.trust = <<>>
      BY <2>3, <2>5, Zenon
    <3>2. QED
      BY <2>5, <3>1, Zenon DEF TrustDomainExact, SpiffeIds
  <2>6. QED
    BY <2>4, <2>5, Zenon
<1>2. QED
  BY <1>1, RotatedInvariant, PTL
=============================================================================
