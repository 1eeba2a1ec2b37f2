--------------------- MODULE CertificateAuthorityProofs ---------------------
(***************************************************************************)
(* No call of ca.rs uses, frees or leaks an object it should not, for any  *)
(* number of certifications, sessions and rotations, and no two of them    *)
(* use the same key or name at once.  The invariant says of every thread   *)
(* exactly which objects it owns and which mutexes it holds, from the      *)
(* outlines of the programs that CertificateProgramProofs provides.        *)
(***************************************************************************)
EXTENDS CertificateAuthority, CertificateProgramProofs

Traces(p, post, live, locked) ==
    /\ Outline(p, {}, live, locked)
    /\ live[1] = {} /\ locked[1] = {} /\ live[Len(p) + 1] = post

\* What a certification, and the creation of an authority, own before each
\* step; the mutexes a certification holds then.
CertifyOutline ==
    CHOOSE x \in Sets(Certify) \X Sets(Certify) : Traces(Certify, {}, x[1], x[2])
CertifyLive == CertifyOutline[1]
CertifyLocked == CertifyOutline[2]
CreateLive ==
    CHOOSE live \in Sets(Create) : \E locked \in Sets(Create) : Traces(Create, Guarded, live, locked)

LockedAt(n) == IF n \in 1..Len(Certify) THEN CertifyLocked[n] ELSE {}

\* A session that sends its answer, and a rotation whose authority is or was
\* in the slot.
Answering == Len(Certify) + 1
Installed == Len(Create) + 2

\* The objects of thread t at step n, with s in the slot and the authorities
\* refs in use: those of an authority live as long as something refers to it.
Expected(t, n, s, refs) ==
    IF n = 0 THEN {}
    ELSE IF t \in Workers THEN CertifyLive[n]
    ELSE IF n # Installed THEN CreateLive[n]
    ELSE IF s = t \/ (\E w \in Workers : refs[w] = t) THEN Guarded ELSE {}

Types ==
    /\ pc \in [Threads -> Nat]
    /\ \A w \in Workers : pc[w] <= Answering
    /\ \A r \in Rotations : pc[r] <= Installed
    /\ ref \in [Workers -> Rotations \cup {NoCA}]
    /\ held \in [Workers -> SUBSET Names]
    /\ slot \in Rotations \cup {NoCA}

\* The heap holds what the programs say and nothing else.
HeapExact ==
    \A t \in Threads, o \in Names : <<t, o>> \in heap <=> o \in Expected(t, pc[t], slot, ref)

\* What the slot and the workers refer to was installed; a worker under way
\* refers to something, a unary call at rest to nothing.
RefsInstalled ==
    /\ slot # NoCA => pc[slot] = Installed
    /\ \A w \in Workers : ref[w] # NoCA => pc[ref[w]] = Installed
    /\ \A w \in Workers : pc[w] # 0 => ref[w] # NoCA
    /\ \A u \in Unary : pc[u] = 0 => ref[u] = NoCA

\* A worker holds the mutexes its program has taken, the name's before any
\* other, and no two workers the same one.
LocksExclusive ==
    /\ \A w \in Workers : held[w] = LockedAt(pc[w])
    /\ \A w \in Workers : held[w] # {} => "issuer_name" \in held[w]
    /\ \A v, w \in Workers : v # w /\ ref[v] = ref[w] => held[v] \cap held[w] = {}

CAInv == Types /\ HeapExact /\ RefsInstalled /\ LocksExclusive

\* The outline of a certification.
LEMMA CertifyFacts ==
    /\ Certify \in Seq(StepRecord) /\ Len(Certify) \in Nat /\ Len(Certify) >= 1
    /\ DOMAIN Certify = 1..Len(Certify)
    /\ CertifyLive \in Sets(Certify) /\ CertifyLocked \in Sets(Certify)
    /\ Traces(Certify, {}, CertifyLive, CertifyLocked)
<1>1. Certify \in Seq(StepRecord) /\ Len(Certify) >= 1
  BY CertifyBalanced DEF Balanced
<1>2. PICK live \in Sets(Certify), locked \in Sets(Certify) : Traces(Certify, {}, live, locked)
  BY CertifyBalanced DEF Balanced, Traces
<1>3. \E x \in Sets(Certify) \X Sets(Certify) : Traces(Certify, {}, x[1], x[2])
  <2>1. <<live, locked>> \in Sets(Certify) \X Sets(Certify)
    OBVIOUS
  <2>2. Traces(Certify, {}, <<live, locked>>[1], <<live, locked>>[2])
    BY <1>2
  <2>3. QED
    BY <2>1, <2>2, Zenon
<1>4. /\ CertifyOutline \in Sets(Certify) \X Sets(Certify)
      /\ Traces(Certify, {}, CertifyOutline[1], CertifyOutline[2])
  BY <1>3, Zenon DEF CertifyOutline
<1>5. CertifyLive \in Sets(Certify) /\ CertifyLocked \in Sets(Certify)
  BY <1>4 DEF CertifyLive, CertifyLocked
<1>6. QED
  BY <1>1, <1>4, <1>5 DEF CertifyLive, CertifyLocked

\* The outline of a creation.
LEMMA CreateFacts ==
    /\ Create \in Seq(StepRecord) /\ Len(Create) \in Nat /\ Len(Create) >= 1
    /\ DOMAIN Create = 1..Len(Create)
    /\ CreateLive \in Sets(Create)
    /\ \E locked \in Sets(Create) : Traces(Create, Guarded, CreateLive, locked)
<1>1. Create \in Seq(StepRecord) /\ Len(Create) >= 1
  BY CreateBalanced DEF Balanced
<1>2. \E live \in Sets(Create) : \E locked \in Sets(Create) : Traces(Create, Guarded, live, locked)
  BY CreateBalanced DEF Balanced, Traces
<1>3. CreateLive \in Sets(Create) /\ \E locked \in Sets(Create) : Traces(Create, Guarded, CreateLive, locked)
  BY <1>2, Zenon DEF CreateLive
<1>4. QED
  BY <1>1, <1>3

\* A certification at step n, with the objects and the mutexes of its outline.
LEMMA CertifyStep ==
    ASSUME NEW n \in 1..Len(Certify)
    PROVE  /\ Certify[n] \in StepRecord
           /\ Sound(Certify[n], {}, CertifyLive[n], CertifyLocked[n])
           /\ CertifyLive[n + 1] = After(Certify[n], CertifyLive[n])
           /\ CertifyLocked[n + 1] = CertifyLocked[n] \cup Certify[n].lock
           /\ CertifyLive[n] \subseteq Names /\ CertifyLocked[n] \subseteq Names
           /\ n = 1 => CertifyLive[n] = {} /\ CertifyLocked[n] = {}
           /\ n = Len(Certify) => CertifyLive[n + 1] = {}
<1>1. Certify[n] \in StepRecord
  BY CertifyFacts
<1>2. CertifyLive[n] \subseteq Names /\ CertifyLocked[n] \subseteq Names
  BY CertifyFacts DEF Sets
<1>3. QED
  BY <1>1, <1>2, CertifyFacts, Zenon DEF Traces, Outline, Follows

\* A creation at step n.
LEMMA CreateStep ==
    ASSUME NEW n \in 1..Len(Create)
    PROVE  /\ Create[n] \in StepRecord
           /\ \E locked : Sound(Create[n], {}, CreateLive[n], locked)
           /\ CreateLive[n + 1] = After(Create[n], CreateLive[n])
           /\ CreateLive[n] \subseteq Names
           /\ n = 1 => CreateLive[n] = {}
           /\ n = Len(Create) => CreateLive[n + 1] = Guarded
<1>1. Create[n] \in StepRecord
  BY CreateFacts
<1>2. CreateLive[n] \subseteq Names
  BY CreateFacts DEF Sets
<1>3. PICK locked \in Sets(Create) : Traces(Create, Guarded, CreateLive, locked)
  BY CreateFacts
<1>4. QED
  BY <1>1, <1>2, <1>3, Zenon DEF Traces, Outline, Follows

\* The step a thread is at, as the invariant sees it.
LEMMA ThreadStep ==
    ASSUME NEW t \in Threads, NEW n \in DOMAIN Program(t), NEW s, NEW refs
    PROVE  /\ n \in Nat /\ n >= 1 /\ n <= Len(Program(t)) /\ Len(Program(t)) \in Nat
           /\ Program(t)[n] \in StepRecord
           /\ Program(t)[n].uses \subseteq Expected(t, n, s, refs)
           /\ Program(t)[n].frees \subseteq Expected(t, n, s, refs)
           /\ Program(t)[n].undo \subseteq Expected(t, n, s, refs)
           /\ Expected(t, n, s, refs) \subseteq Names
           /\ Program(t)[n].fails => Expected(t, n, s, refs) \subseteq Program(t)[n].undo
           /\ t \in Workers /\ n = Len(Program(t)) =>
                After(Program(t)[n], Expected(t, n, s, refs)) = {}
           /\ t \in Rotations \/ n # Len(Program(t)) =>
                Expected(t, n + 1, s, refs) = After(Program(t)[n], Expected(t, n, s, refs))
<1>1. CASE t \in Rotations
  <2>1. Program(t) = Create /\ t \notin Workers
    BY <1>1, ThreadsAssumption DEF Program
  <2>2. n \in 1..Len(Create) /\ Len(Create) \in Nat
    BY <2>1, CreateFacts
  <2>3. n # 0 /\ n + 1 # 0 /\ n # Installed /\ n + 1 # Installed
    BY <2>2 DEF Installed
  <2>4. Expected(t, n, s, refs) = CreateLive[n] /\ Expected(t, n + 1, s, refs) = CreateLive[n + 1]
    BY <2>1, <2>3 DEF Expected
  <2>5. QED
    BY <2>1, <2>2, <2>4, CreateStep DEF Sound
<1>2. CASE t \notin Rotations
  <2>1. Program(t) = Certify /\ t \in Workers
    BY <1>2 DEF Program, Threads
  <2>2. n \in 1..Len(Certify) /\ Len(Certify) \in Nat
    BY <2>1, CertifyFacts
  <2>3. n # 0 /\ n + 1 # 0
    BY <2>2
  <2>4. Expected(t, n, s, refs) = CertifyLive[n] /\ Expected(t, n + 1, s, refs) = CertifyLive[n + 1]
    BY <2>1, <2>3 DEF Expected
  <2>5. QED
    BY <1>2, <2>1, <2>2, <2>4, CertifyStep DEF Sound
<1>3. QED
  BY <1>1, <1>2

\* Own, by element.
LEMMA OwnPair ==
    ASSUME NEW t, NEW u, NEW o, NEW S
    PROVE  <<u, o>> \in Own(t, S) <=> u = t /\ o \in S
BY DEF Own

\* Every thread is a worker or a rotation, and not both.
LEMMA ThreadKinds ==
    ASSUME NEW t \in Threads
    PROVE  /\ t \in Workers <=> t \notin Rotations
           /\ t # NoCA
           /\ t \in Workers => Program(t) = Certify
           /\ t \in Rotations => Program(t) = Create
BY ThreadsAssumption DEF Threads, Program

\* What an authority owns depends only on whether something refers to it.
LEMMA SameExpected ==
    ASSUME NEW t, NEW n, NEW s, NEW refs, NEW s2, NEW refs2,
           t \in Rotations => ((s = t \/ \E w \in Workers : refs[w] = t)
                               <=> (s2 = t \/ \E w \in Workers : refs2[w] = t)),
           t \in Threads
    PROVE  Expected(t, n, s, refs) = Expected(t, n, s2, refs2)
BY ThreadKinds DEF Expected

\* A step that touches no worker leaves the mutexes as they were.
LEMMA SameLocks ==
    ASSUME LocksExclusive, ref' = ref, held' = held, \A v \in Workers : pc'[v] = pc[v]
    PROVE  LocksExclusive'
<1>1. \A v \in Workers : held'[v] = LockedAt(pc'[v]) /\ (held'[v] # {} => "issuer_name" \in held'[v])
  BY DEF LocksExclusive
<1>2. \A v, w \in Workers : v # w /\ ref'[v] = ref'[w] => held'[v] \cap held'[w] = {}
  BY DEF LocksExclusive
<1>3. QED
  BY <1>1, <1>2, Zenon DEF LocksExclusive

\* Nothing is live, referred to or locked at first.
LEMMA InitCA == Init => CAInv
<1> SUFFICES ASSUME Init PROVE CAInv
  OBVIOUS
<1>1. Types
  BY CertifyFacts, CreateFacts DEF Init, Types, Installed, Answering, Threads
<1>2. HeapExact
  BY DEF Init, HeapExact, Expected
<1>3. RefsInstalled /\ LocksExclusive
  BY DEF Init, RefsInstalled, LocksExclusive, LockedAt, Threads, Workers
<1>4. QED
  BY <1>1, <1>2, <1>3 DEF CAInv

\* A worker comes to refer to the slot's authority and stands at step n.
Refer(w, n) ==
    /\ pc' = [pc EXCEPT ![w] = n] /\ ref' = [ref EXCEPT ![w] = slot]
    /\ heap' = heap /\ held' = held /\ slot' = slot

\* So it does when a unary call begins or a session opens, and owns and holds
\* nothing yet.
LEMMA ReferCA ==
    ASSUME CAInv, NEW w \in Workers, NEW n \in {0, 1}, pc[w] = 0, ref[w] = NoCA, slot # NoCA,
           w \in Unary => n = 1, Refer(w, n)
    PROVE  CAInv'
<1> Types /\ HeapExact /\ RefsInstalled /\ LocksExclusive
  BY DEF CAInv
<1>0. w \in Threads /\ w \notin Rotations /\ slot \in Rotations /\ n \in Nat /\ n <= Answering
  BY ThreadKinds, CertifyFacts DEF Types, Threads, Answering
<1>1. Expected(w, n, slot, ref') = {} /\ LockedAt(n) = {} /\ LockedAt(0) = {}
  BY CertifyFacts DEF Traces, Expected, LockedAt
<1>2. /\ \A t \in Threads : pc'[t] = IF t = w THEN n ELSE pc[t]
      /\ \A v \in Workers : ref'[v] = IF v = w THEN slot ELSE ref[v]
      /\ heap' = heap /\ held' = held /\ slot' = slot
  BY DEF Types, Refer
<1>3. Types'
  BY <1>0, ThreadKinds DEF Types, Refer
<1>4. HeapExact'
  <2> SUFFICES ASSUME NEW t \in Threads
               PROVE  Expected(t, pc'[t], slot, ref') = Expected(t, pc[t], slot, ref)
    BY <1>2, Zenon DEF HeapExact
  <2>1. CASE t = w
    BY <1>0, <1>1, <1>2, <2>1 DEF Expected
  <2>2. CASE t # w
    <3>1. pc'[t] = pc[t]
      BY <1>2, <2>2
    <3>2. (slot = t \/ \E v \in Workers : ref[v] = t) <=> (slot = t \/ \E v \in Workers : ref'[v] = t)
      BY <1>0, <1>2, ThreadKinds
    <3>3. Expected(t, pc[t], slot, ref') = Expected(t, pc[t], slot, ref)
      BY <3>2, SameExpected
    <3>4. QED
      BY <3>1, <3>3, Zenon
  <2>3. QED
    BY <2>1, <2>2
<1>5. RefsInstalled'
  BY <1>0, <1>2, ThreadKinds DEF RefsInstalled, Threads, Workers, Types
<1>6. LocksExclusive'
  <2>1. held[w] = {}
    BY <1>1 DEF LocksExclusive
  <2>2. \A v \in Workers : held'[v] = LockedAt(pc'[v]) /\ (held'[v] # {} => "issuer_name" \in held'[v])
    BY <1>0, <1>1, <1>2, <2>1 DEF LocksExclusive, Threads
  <2>3. \A u, v \in Workers : u # v /\ ref'[u] = ref'[v] => held'[u] \cap held'[v] = {}
    BY <1>2, <2>1 DEF LocksExclusive
  <2>4. QED
    BY <2>2, <2>3, Zenon DEF LocksExclusive
<1>7. QED
  BY <1>3, <1>4, <1>5, <1>6 DEF CAInv

\* A unary call reads the slot.
LEMMA BeginCA ==
    ASSUME CAInv, NEW u \in Unary, Begin(u)
    PROVE  CAInv'
<1>1. u \in Workers /\ ref[u] = NoCA
  BY DEF Begin, CAInv, RefsInstalled, Workers
<1>2. QED
  BY <1>1, ReferCA DEF Begin, Refer

\* A session clones the Arc in the slot.
LEMMA OpenCA ==
    ASSUME CAInv, NEW s \in Streams, Open(s)
    PROVE  CAInv'
<1>1. s \in Workers /\ s \notin Unary /\ pc[s] = 0
  BY ThreadsAssumption DEF Open, CAInv, RefsInstalled, Workers
<1>2. pc' = [pc EXCEPT ![s] = 0]
  BY <1>1 DEF Open, CAInv, Types
<1>3. QED
  BY <1>1, <1>2, ReferCA DEF Open, Refer

\* The certify request of a session arrives.
LEMMA StartCA ==
    ASSUME CAInv, NEW s \in Streams, Start(s)
    PROVE  CAInv'
<1> Types /\ HeapExact /\ RefsInstalled /\ LocksExclusive
  BY DEF CAInv
<1>0. /\ s \in Workers /\ s \in Threads /\ s \notin Rotations /\ s \notin Unary
      /\ pc[s] = 0 /\ ref[s] # NoCA /\ 1 <= Answering
  BY ThreadKinds, ThreadsAssumption, CertifyFacts DEF Start, Threads, Workers, Answering
<1>1. pc' = [pc EXCEPT ![s] = 1] /\ heap' = heap /\ ref' = ref /\ held' = held /\ slot' = slot
  BY DEF Start
<1>2. \A t \in Threads : pc'[t] = IF t = s THEN 1 ELSE pc[t]
  BY <1>1 DEF Types
<1>3. Expected(s, 1, slot, ref) = {} /\ Expected(s, 0, slot, ref) = {} /\ LockedAt(1) = LockedAt(0)
  BY <1>0, CertifyFacts DEF Traces, Expected, LockedAt
<1>4. Types'
  BY <1>0, <1>1, ThreadKinds DEF Types
<1>5. HeapExact'
  <2>1. \A t \in Threads : Expected(t, pc'[t], slot, ref) = Expected(t, pc[t], slot, ref)
    BY <1>0, <1>2, <1>3
  <2>2. QED
    BY <1>1, <2>1, Zenon DEF HeapExact
<1>6. RefsInstalled'
  <2>1. \A r \in Rotations : pc'[r] = pc[r]
    BY <1>0, <1>2 DEF Threads
  <2>2. QED
    BY <1>0, <1>1, <1>2, <2>1 DEF RefsInstalled, Threads, Workers, Types
<1>7. LocksExclusive'
  <2>1. \A v \in Workers : held'[v] = LockedAt(pc'[v]) /\ (held'[v] # {} => "issuer_name" \in held'[v])
    BY <1>0, <1>1, <1>2, <1>3 DEF LocksExclusive, Threads
  <2>2. QED
    BY <1>1, <2>1 DEF LocksExclusive
<1>8. QED
  BY <1>4, <1>5, <1>6, <1>7 DEF CAInv

\* A rotation starts to create its authority.
LEMMA RotateCallCA ==
    ASSUME CAInv, NEW r \in Rotations, RotateCall(r)
    PROVE  CAInv'
<1> Types /\ HeapExact /\ RefsInstalled /\ LocksExclusive
  BY DEF CAInv
<1>0. r \in Threads /\ r \notin Workers /\ r # NoCA /\ pc[r] = 0 /\ 0 # Installed /\ 1 # Installed
  BY ThreadKinds, CreateFacts DEF RotateCall, Threads, Installed
<1>1. pc' = [pc EXCEPT ![r] = 1] /\ heap' = heap /\ ref' = ref /\ held' = held /\ slot' = slot
  BY DEF RotateCall
<1>2. \A t \in Threads : pc'[t] = IF t = r THEN 1 ELSE pc[t]
  BY <1>1 DEF Types
<1>3. Types'
  BY <1>0, <1>1, CreateFacts, ThreadKinds DEF Types, Installed
<1>4. HeapExact'
  <2>1. CreateLive[1] = {}
    BY CreateFacts DEF Traces
  <2>2. \A t \in Threads : Expected(t, pc'[t], slot, ref) = Expected(t, pc[t], slot, ref)
    BY <1>0, <1>2, <2>1 DEF Expected
  <2>3. QED
    BY <1>1, <2>2, Zenon DEF HeapExact
<1>5. RefsInstalled'
  BY <1>0, <1>1, <1>2 DEF RefsInstalled, Threads, Types
<1>6. LocksExclusive'
  BY <1>0, <1>1, <1>2, SameLocks DEF Threads
<1>7. QED
  BY <1>3, <1>4, <1>5, <1>6 DEF CAInv

\* A worker returns, its own objects gone: only the authority it used may go
\* with it, and only if nothing else refers to that one.
LEMMA ReturnCA ==
    ASSUME CAInv, NEW w \in Workers, ref[w] # NoCA, NEW live, Return(w, live), UNCHANGED slot,
           \A t \in Threads, o \in Names :
             <<t, o>> \in live <=> t # w /\ o \in Expected(t, pc[t], slot, ref)
    PROVE  CAInv'
<1> Types /\ HeapExact /\ RefsInstalled /\ LocksExclusive
  BY DEF CAInv
<1> DEFINE a == ref[w]
<1>0. /\ w \in Threads /\ w \notin Rotations /\ a \in Rotations /\ a \in Threads /\ a # w
      /\ a # NoCA /\ pc[a] = Installed
  BY ThreadKinds DEF Types, RefsInstalled, Threads
<1>1. /\ pc' = [pc EXCEPT ![w] = 0] /\ ref' = [ref EXCEPT ![w] = NoCA]
      /\ held' = [held EXCEPT ![w] = {}] /\ heap' = live \ Dropped(a, slot, ref') /\ slot' = slot
  BY DEF Return
<1>2. /\ \A t \in Threads : pc'[t] = IF t = w THEN 0 ELSE pc[t]
      /\ \A v \in Workers : ref'[v] = IF v = w THEN NoCA ELSE ref[v]
      /\ \A v \in Workers : held'[v] = IF v = w THEN {} ELSE held[v]
  BY <1>1 DEF Types
<1>3. Types'
  BY <1>0, <1>1, CertifyFacts, ThreadKinds DEF Types, Answering
<1>4. HeapExact'
  <2> DEFINE kept == slot = a \/ \E v \in Workers : ref'[v] = a
  <2>0. /\ kept => Dropped(a, slot, ref') = {}
        /\ ~kept => Dropped(a, slot, ref') = Own(a, Guarded)
    BY <1>0 DEF Dropped, Drop, Guarded
  <2> HIDE DEF kept
  <2> SUFFICES ASSUME NEW t \in Threads, NEW o \in Names
               PROVE  <<t, o>> \in heap' <=> o \in Expected(t, pc'[t], slot, ref')
    BY <1>1, Zenon DEF HeapExact
  <2>1. CASE t = w
    <3>1. pc'[t] = 0
      BY <1>2, <2>1
    <3>2. QED
      BY <1>1, <2>1, <3>1 DEF Expected
  <2>2. CASE t = a
    <3>0. Installed # 0
      BY CreateFacts DEF Installed
    <3>1. pc'[t] = Installed /\ pc[t] = Installed /\ Installed # 0 /\ t \notin Workers
      BY <1>0, <1>2, <2>2, <3>0, ThreadKinds
    <3>2. Expected(t, pc[t], slot, ref) = Guarded
      BY <2>2, <3>1 DEF Expected
    <3>3. Expected(t, pc'[t], slot, ref') = IF kept THEN Guarded ELSE {}
      BY <2>2, <3>1 DEF Expected, kept
    <3>4. <<t, o>> \in live <=> o \in Guarded
      BY <1>0, <2>2, <3>2
    <3>5. <<t, o>> \in Own(a, Guarded) <=> o \in Guarded
      BY <2>2, OwnPair
    <3>6. CASE kept
      BY <1>1, <2>0, <3>3, <3>4, <3>6, Zenon
    <3>7. CASE ~kept
      <4>1. heap' = live \ Own(a, Guarded) /\ Expected(t, pc'[t], slot, ref') = {}
        BY <1>1, <2>0, <3>3, <3>7, Zenon
      <4>2. QED
        BY <3>4, <3>5, <4>1
    <3>8. QED
      BY <3>6, <3>7
  <2>3. CASE t # w /\ t # a
    <3>1. pc'[t] = pc[t] /\ <<t, o>> \notin Dropped(a, slot, ref')
      BY <1>2, <2>0, <2>3, OwnPair
    <3>2. (slot = t \/ \E v \in Workers : ref[v] = t) <=> (slot = t \/ \E v \in Workers : ref'[v] = t)
      BY <1>0, <1>2, <2>3, ThreadKinds
    <3>3. Expected(t, pc'[t], slot, ref') = Expected(t, pc[t], slot, ref)
      BY <3>1, <3>2, SameExpected
    <3>4. QED
      BY <1>1, <2>3, <3>1, <3>3
  <2>4. QED
    BY <2>1, <2>2, <2>3
<1>5. RefsInstalled'
  BY <1>0, <1>1, <1>2, ThreadKinds DEF RefsInstalled, Threads, Workers, Types
<1>6. LocksExclusive'
  <2>0. LockedAt(0) = {}
    BY DEF LockedAt
  <2>1. \A v \in Workers : held'[v] = LockedAt(pc'[v]) /\ (held'[v] # {} => "issuer_name" \in held'[v])
    BY <1>0, <1>2, <2>0 DEF LocksExclusive, Threads
  <2>2. \A u, v \in Workers : u # v /\ ref'[u] = ref'[v] => held'[u] \cap held'[v] = {}
    BY <1>2 DEF LocksExclusive
  <2>3. QED
    BY <2>1, <2>2, Zenon DEF LocksExclusive
<1>7. QED
  BY <1>3, <1>4, <1>5, <1>6 DEF CAInv

\* The certification of a session is over, its own objects gone; it keeps its
\* authority.
LEMMA AnswerCA ==
    ASSUME CAInv, NEW s \in Streams, ref[s] # NoCA, NEW live, Answer(s, live), UNCHANGED slot,
           \A t \in Threads, o \in Names :
             <<t, o>> \in live <=> t # s /\ o \in Expected(t, pc[t], slot, ref)
    PROVE  CAInv'
<1> Types /\ HeapExact /\ RefsInstalled /\ LocksExclusive
  BY DEF CAInv
<1>0. /\ s \in Workers /\ s \in Threads /\ s \notin Rotations /\ s \notin Unary
      /\ Answering \in Nat /\ Answering # 0 /\ Program(s) = Certify
  BY ThreadKinds, ThreadsAssumption, CertifyFacts DEF Threads, Workers, Answering
<1>1. /\ pc' = [pc EXCEPT ![s] = Answering] /\ held' = [held EXCEPT ![s] = {}] /\ heap' = live
      /\ ref' = ref /\ slot' = slot
  BY <1>0 DEF Answer, Answering
<1>2. /\ \A t \in Threads : pc'[t] = IF t = s THEN Answering ELSE pc[t]
      /\ \A v \in Workers : held'[v] = IF v = s THEN {} ELSE held[v]
  BY <1>1 DEF Types
<1>3. Expected(s, Answering, slot, ref) = {} /\ LockedAt(Answering) = {}
  BY <1>0, CertifyFacts DEF Traces, Expected, LockedAt, Answering
<1>4. Types'
  BY <1>0, <1>1, ThreadKinds DEF Types
<1>5. HeapExact'
  BY <1>1, <1>2, <1>3, Zenon DEF HeapExact
<1>6. RefsInstalled'
  <2>1. \A r \in Rotations : pc'[r] = pc[r]
    BY <1>0, <1>2 DEF Threads
  <2>2. QED
    BY <1>0, <1>1, <1>2, <2>1 DEF RefsInstalled, Threads, Workers, Types
<1>7. LocksExclusive'
  <2>1. \A v \in Workers : held'[v] = LockedAt(pc'[v]) /\ (held'[v] # {} => "issuer_name" \in held'[v])
    BY <1>2, <1>3 DEF LocksExclusive, Threads
  <2>2. \A u, v \in Workers : u # v /\ ref'[u] = ref'[v] => held'[u] \cap held'[v] = {}
    BY <1>1, <1>2 DEF LocksExclusive
  <2>3. QED
    BY <2>1, <2>2, Zenon DEF LocksExclusive
<1>8. QED
  BY <1>4, <1>5, <1>6, <1>7 DEF CAInv

\* A certification ends, with the objects of its worker gone.
LEMMA FinishCA ==
    ASSUME CAInv, NEW w \in Workers, pc[w] # 0, NEW live, Finish(w, live), UNCHANGED slot,
           \A t \in Threads, o \in Names :
             <<t, o>> \in live <=> t # w /\ o \in Expected(t, pc[t], slot, ref)
    PROVE  CAInv'
<1>1. ref[w] # NoCA
  BY DEF CAInv, RefsInstalled
<1>2. CASE w \in Unary
  <2>1. Return(w, live)
    BY <1>2 DEF Finish
  <2>2. QED
    BY <1>1, <2>1, ReturnCA
<1>3. CASE w \notin Unary
  <2>1. w \in Streams /\ Answer(w, live)
    BY <1>3 DEF Finish, Workers
  <2>2. QED
    BY <1>1, <2>1, AnswerCA
<1>4. QED
  BY <1>2, <1>3

\* A session ends before or after its certification.
LEMMA CloseCA ==
    ASSUME CAInv, NEW s \in Streams, Close(s)
    PROVE  CAInv'
<1>1. s \in Workers /\ s \in Threads /\ ref[s] # NoCA /\ Return(s, heap) /\ UNCHANGED slot
  BY DEF Close, Workers, Threads
<1>2. pc[s] = 0 \/ pc[s] = Answering
  <2>1. pc[s] \in Nat /\ pc[s] <= Answering /\ pc[s] \notin 1..Len(Certify)
    BY <1>1, ThreadKinds, CertifyFacts DEF Close, Running, CAInv, Types
  <2>2. QED
    BY <2>1, CertifyFacts DEF Answering
<1>3. Expected(s, pc[s], slot, ref) = {}
  BY <1>1, <1>2, CertifyFacts DEF Traces, Expected, Answering
<1>4. \A t \in Threads, o \in Names :
        <<t, o>> \in heap <=> t # s /\ o \in Expected(t, pc[t], slot, ref)
  BY <1>3, Zenon DEF CAInv, HeapExact
<1>5. QED
  BY <1>1, <1>4, ReturnCA

\* A step that succeeds.
LEMMA StepOkCA ==
    ASSUME CAInv, NEW t \in Threads, StepOk(t)
    PROVE  CAInv'
<1> Types /\ HeapExact /\ RefsInstalled /\ LocksExclusive
  BY DEF CAInv
<1> DEFINE n == pc[t]
           step == Program(t)[n]
           now == Expected(t, n, slot, ref)
           live == (heap \cup Own(t, step.makes)) \ Own(t, step.frees)
<1>0. /\ n \in DOMAIN Program(t) /\ slot' = slot
      /\ t \in Workers => CanLock(t, step.lock)
  BY DEF StepOk, Running, Current
<1>1. /\ n \in Nat /\ n >= 1 /\ n <= Len(Program(t)) /\ Len(Program(t)) \in Nat
      /\ step \in StepRecord
      /\ t \in Workers /\ n = Len(Program(t)) => After(step, now) = {}
      /\ t \in Rotations \/ n # Len(Program(t)) => Expected(t, n + 1, slot, ref) = After(step, now)
  BY <1>0, ThreadStep
<1> n # 0
  BY <1>1
<1>2. \A u \in Threads, o \in Names :
        <<u, o>> \in live <=> o \in IF u = t THEN After(step, now) ELSE Expected(u, pc[u], slot, ref)
  <2> SUFFICES ASSUME NEW u \in Threads, NEW o \in Names
               PROVE  <<u, o>> \in live
                        <=> o \in IF u = t THEN After(step, now) ELSE Expected(u, pc[u], slot, ref)
    BY Zenon
  <2>1. /\ <<u, o>> \in heap <=> o \in Expected(u, pc[u], slot, ref)
        /\ <<u, o>> \in Own(t, step.makes) <=> u = t /\ o \in step.makes
        /\ <<u, o>> \in Own(t, step.frees) <=> u = t /\ o \in step.frees
    BY OwnPair DEF HeapExact
  <2> HIDE DEF step
  <2>2. QED
    BY <2>1 DEF After
<1>3. CASE t \in Workers /\ n = Len(Program(t))
  <2>1. Finish(t, live)
    BY <1>3 DEF StepOk, Current
  <2>2. \A u \in Threads, o \in Names :
          <<u, o>> \in live <=> u # t /\ o \in Expected(u, pc[u], slot, ref)
    BY <1>1, <1>2, <1>3, Zenon
  <2> HIDE DEF live
  <2>3. QED
    BY <1>0, <1>1, <1>3, <2>1, <2>2, FinishCA
<1>4. CASE ~(t \in Workers /\ n = Len(Program(t)))
  <2>1. /\ pc' = [pc EXCEPT ![t] = n + 1] /\ heap' = live /\ ref' = ref
        /\ held' = IF t \in Workers THEN [held EXCEPT ![t] = @ \cup step.lock] ELSE held
    BY <1>4 DEF StepOk, Current
  <2>0. step = Program(t)[n]
    OBVIOUS
  <2> HIDE DEF step, now, live
  <2>2. t \in Workers <=> t \notin Rotations
    BY ThreadKinds
  <2>3. /\ \A u \in Threads : pc'[u] = IF u = t THEN n + 1 ELSE pc[u]
        /\ \A v \in Workers : held'[v] = IF v = t THEN held[v] \cup step.lock ELSE held[v]
    BY <2>1, Zenon DEF Types
  <2>4. step.lock \subseteq Names
    BY <1>1 DEF StepRecord
  <2>5. Types'
    <3>1. t \in Workers => n + 1 <= Answering
      BY <1>1, ThreadKinds DEF Answering
    <3>2. t \in Rotations => n + 1 <= Installed
      BY <1>1, ThreadKinds DEF Installed
    <3>3. pc' \in [Threads -> Nat] /\ held' \in [Workers -> SUBSET Names]
      BY <1>1, <2>1, <2>4 DEF Types
    <3>4. QED
      BY <1>0, <2>1, <2>2, <2>3, <3>1, <3>2, <3>3 DEF Types, Threads
  <2>6. HeapExact'
    <3>1. Expected(t, n + 1, slot, ref) = After(step, now)
      BY <1>1, <1>4, <2>2
    <3>2. QED
      BY <1>0, <1>2, <2>1, <2>3, <3>1, Zenon DEF HeapExact
  <2>7. RefsInstalled'
    <3>1. t \in Rotations => n # Installed
      BY <1>1, ThreadKinds DEF Installed
    <3>2. n + 1 # 0
      BY <1>1
    <3>3. QED
      BY <1>0, <1>1, <2>1, <2>2, <2>3, <3>1, <3>2 DEF RefsInstalled, Types, Threads, Workers
  <2>8. LocksExclusive'
    <3>1. CASE t \in Rotations
      BY <2>1, <2>2, <2>3, <3>1, SameLocks DEF Threads
    <3>2. CASE t \in Workers
      <4>1. Program(t) = Certify /\ n \in 1..Len(Certify) /\ n + 1 \in 1..Len(Certify)
        BY <1>1, <1>4, <3>2, ThreadKinds
      <4>2. LockedAt(n + 1) = held[t] \cup step.lock
        <5>1. held[t] = CertifyLocked[n] /\ LockedAt(n + 1) = CertifyLocked[n + 1]
          BY <3>2, <4>1 DEF LocksExclusive, LockedAt
        <5>2. CertifyLocked[n + 1] = CertifyLocked[n] \cup Certify[n].lock
          BY <4>1, CertifyStep
        <5>3. QED
          BY <2>0, <4>1, <5>1, <5>2
      <4>0. held[t] \cup step.lock # {} => "issuer_name" \in held[t] \cup step.lock
        <5>1. held[t] = CertifyLocked[n]
          BY <3>2, <4>1 DEF LocksExclusive, LockedAt
        <5>2. InOrder(step.lock, held[t])
          BY <2>0, <4>1, <5>1, CertifyStep DEF Sound
        <5>3. held[t] # {} => "issuer_name" \in held[t]
          BY <3>2 DEF LocksExclusive
        <5>4. QED
          BY <5>2, <5>3 DEF InOrder
      <4>3. \A v \in Workers : ref[v] = ref[t] => held[v] \cap step.lock = {}
        BY <1>0, <3>2 DEF CanLock
      <4>4. \A v \in Workers : held'[v] = LockedAt(pc'[v]) /\ (held'[v] # {} => "issuer_name" \in held'[v])
        BY <2>3, <3>2, <4>0, <4>2, Zenon DEF LocksExclusive, Threads
      <4> HIDE DEF n
      <4>5. \A v, w \in Workers : v # w /\ ref[v] = ref[w] => held'[v] \cap held'[w] = {}
        <5> SUFFICES ASSUME NEW v \in Workers, NEW w \in Workers, v # w, ref[v] = ref[w]
                     PROVE  held'[v] \cap held'[w] = {}
          OBVIOUS
        <5>1. held[v] \cap held[w] = {}
          BY DEF LocksExclusive
        <5>2. CASE v = t
          BY <2>3, <4>3, <5>1, <5>2, Zenon
        <5>3. CASE w = t
          BY <2>3, <4>3, <5>1, <5>3, Zenon
        <5>4. CASE v # t /\ w # t
          BY <2>3, <5>1, <5>4, Zenon
        <5>5. QED
          BY <5>2, <5>3, <5>4
      <4>6. QED
        BY <2>1, <4>4, <4>5, Zenon DEF LocksExclusive
    <3>3. QED
      BY <2>2, <3>1, <3>2
  <2>9. QED
    BY <2>5, <2>6, <2>7, <2>8 DEF CAInv
<1>5. QED
  BY <1>3, <1>4

\* A step that fails leaves nothing of its thread behind.
LEMMA StepFailsCA ==
    ASSUME CAInv, NEW t \in Threads, StepFails(t)
    PROVE  CAInv'
<1> Types /\ HeapExact /\ RefsInstalled /\ LocksExclusive
  BY DEF CAInv
<1> DEFINE n == pc[t]
           step == Program(t)[n]
           now == Expected(t, n, slot, ref)
           live == heap \ Own(t, step.undo)
<1>0. n \in DOMAIN Program(t) /\ step.fails /\ slot' = slot
  BY DEF StepFails, Running, Current
<1>1. /\ n \in Nat /\ n >= 1 /\ n <= Len(Program(t)) /\ Len(Program(t)) \in Nat
      /\ now \subseteq step.undo
  BY <1>0, ThreadStep
<1> n # 0
  BY <1>1
<1>2. \A u \in Threads, o \in Names :
        <<u, o>> \in live <=> u # t /\ o \in Expected(u, pc[u], slot, ref)
  <2> SUFFICES ASSUME NEW u \in Threads, NEW o \in Names
               PROVE  <<u, o>> \in live <=> u # t /\ o \in Expected(u, pc[u], slot, ref)
    BY Zenon
  <2>1. /\ <<u, o>> \in heap <=> o \in Expected(u, pc[u], slot, ref)
        /\ <<u, o>> \in Own(t, step.undo) <=> u = t /\ o \in step.undo
    BY OwnPair DEF HeapExact
  <2> HIDE DEF step
  <2>2. QED
    BY <1>1, <2>1
<1>3. CASE t \in Workers
  <2>1. Finish(t, live)
    BY <1>3 DEF StepFails, Current
  <2> HIDE DEF live
  <2>2. QED
    BY <1>0, <1>1, <1>2, <1>3, <2>1, FinishCA
<1>4. CASE t \notin Workers
  <2>1. pc' = [pc EXCEPT ![t] = 0] /\ heap' = live /\ ref' = ref /\ held' = held
    BY <1>4 DEF StepFails, Current
  <2>2. t \in Rotations /\ n # Installed
    BY <1>1, <1>4, ThreadKinds DEF Installed
  <2>3. \A u \in Threads : pc'[u] = IF u = t THEN 0 ELSE pc[u]
    BY <2>1 DEF Types
  <2>4. Types'
    BY <1>0, <2>1, <2>2, CreateFacts, ThreadKinds DEF Types, Installed
  <2>5. HeapExact'
    <3>1. Expected(t, 0, slot, ref) = {}
      BY DEF Expected
    <3> HIDE DEF live, step, n
    <3>2. QED
      BY <1>0, <1>2, <2>1, <2>3, <3>1, Zenon DEF HeapExact
  <2>6. RefsInstalled'
    BY <1>0, <1>4, <2>1, <2>2, <2>3 DEF RefsInstalled, Types, Threads, Workers
  <2>7. LocksExclusive'
    BY <1>4, <2>1, <2>3, SameLocks DEF Threads
  <2>8. QED
    BY <2>4, <2>5, <2>6, <2>7 DEF CAInv
<1>5. QED
  BY <1>3, <1>4

\* An authority that was created and not yet installed.
LEMMA CreatedFacts ==
    ASSUME CAInv, NEW r \in Rotations, Created(r)
    PROVE  /\ r \in Threads /\ r \notin Workers /\ r # NoCA /\ r # slot
           /\ pc[r] # Installed /\ pc[r] + 1 = Installed /\ Installed \in Nat /\ Installed # 0
           /\ \A w \in Workers : ref[w] # r
           /\ Expected(r, pc[r], slot, ref) = Guarded
<1>1. r \in Threads /\ r \notin Workers /\ r # NoCA /\ Program(r) = Create
  BY ThreadKinds DEF Threads
<1>2. pc[r] = Len(Create) + 1
  BY <1>1 DEF Created
<1>3. Len(Create) \in Nat /\ Len(Create) >= 1 /\ CreateLive[Len(Create) + 1] = Guarded
  BY CreateFacts DEF Traces
<1>4. pc[r] # Installed /\ pc[r] + 1 = Installed /\ Installed \in Nat /\ Installed # 0 /\ pc[r] # 0
  BY <1>2, <1>3 DEF Installed
<1>5. r # slot /\ \A w \in Workers : ref[w] # r
  BY <1>1, <1>4 DEF CAInv, RefsInstalled
<1>6. Expected(r, pc[r], slot, ref) = Guarded
  BY <1>1, <1>2, <1>3, <1>4 DEF Expected
<1>7. QED
  BY <1>1, <1>4, <1>5, <1>6

\* The slot takes the new authority; the one it replaces goes if no session
\* uses it.
LEMMA InstallCA ==
    ASSUME CAInv, NEW r \in Rotations, Install(r)
    PROVE  CAInv'
<1> Types /\ HeapExact /\ RefsInstalled /\ LocksExclusive
  BY DEF CAInv
<1>0. Created(r)
  BY DEF Install
<1>1. /\ pc' = [pc EXCEPT ![r] = @ + 1] /\ slot' = r /\ heap' = heap \ Dropped(slot, r, ref)
      /\ ref' = ref /\ held' = held
  BY DEF Install
<1>2. /\ r \in Threads /\ r \notin Workers /\ r # NoCA /\ r # slot
      /\ pc[r] # Installed /\ pc[r] + 1 = Installed /\ Installed \in Nat /\ Installed # 0
      /\ \A w \in Workers : ref[w] # r
      /\ Expected(r, pc[r], slot, ref) = Guarded
  BY <1>0, CreatedFacts
<1>3. \A t \in Threads : pc'[t] = IF t = r THEN Installed ELSE pc[t]
  BY <1>1, <1>2 DEF Types
<1>4. Types'
  BY <1>1, <1>2, <1>3, ThreadKinds DEF Types, Threads
<1>5. HeapExact'
  <2> DEFINE used == \E w \in Workers : ref[w] = slot
             gone == Dropped(slot, r, ref)
  <2>0. gone = IF slot # NoCA /\ ~used THEN Own(slot, Guarded) ELSE {}
    BY <1>2 DEF Dropped, Drop, Guarded
  <2> SUFFICES ASSUME NEW t \in Threads, NEW o \in Names
               PROVE  <<t, o>> \in heap' <=> o \in Expected(t, pc'[t], r, ref)
    BY <1>1, Zenon DEF HeapExact
  <2>1. <<t, o>> \in heap <=> o \in Expected(t, pc[t], slot, ref)
    BY DEF HeapExact
  <2>2. t # slot => <<t, o>> \notin gone
    BY <2>0, OwnPair
  <2>3. CASE t = r
    <3>1. Expected(t, pc'[t], r, ref) = Guarded
      BY <1>2, <1>3, <2>3 DEF Expected
    <3>2. <<t, o>> \in heap' <=> <<t, o>> \in heap
      BY <1>1, <1>2, <2>2, <2>3
    <3>3. QED
      BY <1>2, <2>1, <2>3, <3>1, <3>2
  <2>4. CASE t = slot
    <3>1. t # NoCA /\ t \in Rotations /\ t \notin Workers /\ pc'[t] = Installed /\ pc[t] = Installed
      BY <1>2, <1>3, <2>4, ThreadKinds DEF Types, RefsInstalled
    <3>2. Expected(t, pc[t], slot, ref) = Guarded
      BY <1>2, <2>4, <3>1 DEF Expected
    <3>3. Expected(t, pc'[t], r, ref) = IF used THEN Guarded ELSE {}
      BY <1>2, <2>4, <3>1 DEF Expected
    <3>4. <<t, o>> \in Own(slot, Guarded) <=> o \in Guarded
      BY <2>4, OwnPair
    <3> HIDE DEF used, gone
    <3>5. CASE used
      <4>1. heap' = heap /\ Expected(t, pc'[t], r, ref) = Guarded
        BY <1>1, <2>0, <3>3, <3>5 DEF gone
      <4>2. QED
        BY <2>1, <3>2, <4>1
    <3>6. CASE ~used
      <4>1. heap' = heap \ Own(slot, Guarded) /\ Expected(t, pc'[t], r, ref) = {}
        BY <1>1, <2>0, <2>4, <3>1, <3>3, <3>6 DEF gone
      <4>2. QED
        BY <2>1, <3>2, <3>4, <4>1
    <3>7. QED
      BY <3>5, <3>6
  <2>5. CASE t # r /\ t # slot
    <3>1. Expected(t, pc[t], slot, ref) = Expected(t, pc[t], r, ref)
      BY <2>5, SameExpected
    <3>2. QED
      BY <1>1, <1>3, <2>1, <2>2, <2>5, <3>1
  <2>6. QED
    BY <2>3, <2>4, <2>5
<1>6. RefsInstalled'
  BY <1>1, <1>2, <1>3 DEF RefsInstalled, Types, Threads
<1>7. LocksExclusive'
  BY <1>1, <1>2, <1>3, SameLocks DEF Threads
<1>8. QED
  BY <1>4, <1>5, <1>6, <1>7 DEF CAInv

\* The new authority is dropped with the caller that waited to install it.
LEMMA InstallCancelledCA ==
    ASSUME CAInv, NEW r \in Rotations, InstallCancelled(r)
    PROVE  CAInv'
<1> Types /\ HeapExact /\ RefsInstalled /\ LocksExclusive
  BY DEF CAInv
<1>0. Created(r)
  BY DEF InstallCancelled
<1>1. /\ pc' = [pc EXCEPT ![r] = 0] /\ slot' = slot /\ heap' = heap \ Own(r, Guarded)
      /\ ref' = ref /\ held' = held
  BY DEF InstallCancelled, Drop, Guarded
<1>2. /\ r \in Threads /\ r \notin Workers /\ r # NoCA /\ r # slot
      /\ pc[r] # Installed /\ Installed \in Nat
      /\ \A w \in Workers : ref[w] # r
      /\ Expected(r, pc[r], slot, ref) = Guarded
  BY <1>0, CreatedFacts
<1>3. \A t \in Threads : pc'[t] = IF t = r THEN 0 ELSE pc[t]
  BY <1>1 DEF Types
<1>4. Types'
  BY <1>1, <1>2, <1>3, ThreadKinds DEF Types, Threads
<1>5. HeapExact'
  <2> SUFFICES ASSUME NEW t \in Threads, NEW o \in Names
               PROVE  <<t, o>> \in heap' <=> o \in Expected(t, pc'[t], slot, ref)
    BY <1>1, Zenon DEF HeapExact
  <2>1. /\ <<t, o>> \in heap <=> o \in Expected(t, pc[t], slot, ref)
        /\ <<t, o>> \in Own(r, Guarded) <=> t = r /\ o \in Guarded
    BY OwnPair DEF HeapExact
  <2>2. Expected(t, 0, slot, ref) = {}
    BY DEF Expected
  <2>3. QED
    BY <1>1, <1>2, <1>3, <2>1, <2>2
<1>6. RefsInstalled'
  BY <1>1, <1>2, <1>3 DEF RefsInstalled, Types, Threads, Workers
<1>7. LocksExclusive'
  BY <1>1, <1>2, <1>3, SameLocks DEF Threads
<1>8. QED
  BY <1>4, <1>5, <1>6, <1>7 DEF CAInv

\* Every step keeps the invariant.
LEMMA NextCA == CAInv /\ [Next]_vars => CAInv'
<1> SUFFICES ASSUME CAInv, [Next]_vars PROVE CAInv'
  OBVIOUS
<1>1. ASSUME NEW t \in Threads, StepOk(t) \/ StepFails(t) PROVE CAInv'
  BY <1>1, StepOkCA, StepFailsCA
<1>2. ASSUME NEW u \in Unary, Begin(u) PROVE CAInv'
  BY <1>2, BeginCA
<1>6. ASSUME NEW s \in Streams, Open(s) \/ Start(s) \/ Close(s) PROVE CAInv'
  BY <1>6, OpenCA, StartCA, CloseCA
<1>3. ASSUME NEW r \in Rotations, RotateCall(r) \/ Install(r) \/ InstallCancelled(r) PROVE CAInv'
  BY <1>3, RotateCallCA, InstallCA, InstallCancelledCA
<1>4. CASE UNCHANGED vars
  BY <1>4 DEF vars, CAInv, Types, HeapExact, RefsInstalled, LocksExclusive
<1>5. QED
  BY <1>1, <1>2, <1>3, <1>4, <1>6 DEF Next

-----------------------------------------------------------------------------
(* Theorems.                                                               *)

\* No call of ca.rs, in any number of certifications, sessions and rotations,
\* dereferences or frees a pointer that is not live, on its success path or
\* on its error path; the key and the name of an authority outlive every call
\* that uses them, whatever replaces the authority meanwhile.
THEOREM PointersLive == Spec => []NothingDangles
<1>1. CAInv => NothingDangles
  <2> SUFFICES ASSUME CAInv, NEW t \in Threads, Running(t)
               PROVE  LET step == Current(t) IN
                      /\ Own(t, step.uses \cup (step.frees \ step.makes) \cup step.undo) \subseteq heap
                      /\ t \in Workers => Own(ref[t], step.self) \subseteq heap
    BY DEF NothingDangles
  <2> DEFINE n == pc[t]
             step == Program(t)[n]
             now == Expected(t, n, slot, ref)
             touched == step.uses \cup (step.frees \ step.makes) \cup step.undo
  <2>1. n \in DOMAIN Program(t) /\ Current(t) = step
    BY DEF Running, Current
  <2>2. touched \subseteq now /\ now \subseteq Names
    BY <2>1, ThreadStep
  <2>3. Own(t, touched) \subseteq heap
    <3> HIDE DEF touched
    <3>1. \A o \in touched : <<t, o>> \in heap
      BY <2>2 DEF CAInv, HeapExact
    <3>2. QED
      BY <3>1 DEF Own
  <2>4. ASSUME t \in Workers PROVE Own(ref[t], step.self) \subseteq heap
    <3> DEFINE a == ref[t]
    <3>1. Program(t) = Certify /\ n \in 1..Len(Certify) /\ n # 0
      BY <2>1, <2>4, ThreadKinds, CertifyFacts
    <3>2. a \in Rotations /\ a \in Threads /\ a \notin Workers /\ pc[a] = Installed
      BY <2>4, <3>1, ThreadKinds DEF CAInv, Types, RefsInstalled, Threads
    <3>3. Expected(a, pc[a], slot, ref) = Guarded
      BY <2>4, <3>2, CreateFacts DEF Expected, Installed
    <3>4. step.self \subseteq Guarded
      BY <3>1, CertifyStep DEF Sound
    <3> HIDE DEF step, a
    <3>5. \A o \in Guarded : <<a, o>> \in heap
      BY <3>2, <3>3, NamesOf DEF CAInv, HeapExact, Guarded
    <3>6. QED
      BY <3>4, <3>5 DEF Own, a
  <2>5. QED
    BY <2>1, <2>3, <2>4
<1>2. QED
  BY <1>1, InitCA, NextCA, PTL DEF Spec

\* No error path, cancelled caller or replaced authority of ca.rs leaves an
\* object behind that nothing will free.
THEOREM HeapClean == Spec => []NothingLeaks
<1>1. CAInv => NothingLeaks
  <2> SUFFICES ASSUME CAInv, NEW t \in Threads, NEW o \in Names, <<t, o>> \in heap, ~Running(t)
               PROVE  /\ t \in Rotations /\ o \in Guarded
                      /\ Created(t) \/ slot = t \/ \E w \in Workers : ref[w] = t
    BY DEF NothingLeaks, Guarded
  <2>1. o \in Expected(t, pc[t], slot, ref)
    BY DEF CAInv, HeapExact
  <2>2. pc[t] # 0 /\ pc[t] \in Nat
    BY <2>1 DEF Expected, CAInv, Types
  <2>3. t \in Rotations /\ t \notin Workers /\ Program(t) = Create
    <3>1. CASE t \in Workers
      <4>0. pc[t] # Answering
        BY <2>1, <2>2, <3>1, CertifyFacts DEF Traces, Expected, Answering
      <4>1. pc[t] \in 1..Len(Certify)
        BY <2>2, <3>1, <4>0, CertifyFacts DEF CAInv, Types, Answering
      <4>2. QED
        BY <3>1, <4>1, ThreadKinds, CertifyFacts DEF Running
    <3>2. QED
      BY <3>1, ThreadKinds
  <2>4. pc[t] = Len(Create) + 1 \/ pc[t] = Installed
    <3>1. pc[t] \notin 1..Len(Create) /\ pc[t] <= Installed
      BY <2>3, CreateFacts DEF Running, CAInv, Types
    <3>2. QED
      BY <2>2, <3>1, CreateFacts DEF Installed
  <2>5. CASE pc[t] = Len(Create) + 1
    BY <2>1, <2>3, <2>5, CreatedFacts DEF Created
  <2>6. CASE pc[t] = Installed
    BY <2>1, <2>2, <2>3, <2>6 DEF Expected
  <2>7. QED
    BY <2>4, <2>5, <2>6
<1>2. QED
  BY <1>1, InitCA, NextCA, PTL DEF Spec

\* The raw key and the raw name of an authority are never used by two calls
\* at the same time, however many certifications share the authority.
THEOREM PointersExclusive == Spec => []PointersUsedExclusively
<1>1. CAInv => PointersUsedExclusively
  <2> SUFFICES ASSUME CAInv, NEW v \in Workers, NEW w \in Workers, v # w,
                      Running(v), Running(w), ref[v] = ref[w]
               PROVE  Current(v).self \cap Current(w).self = {}
    BY DEF PointersUsedExclusively
  <2>1. ASSUME NEW x \in Workers, Running(x) PROVE Current(x).self \subseteq held[x]
    <3>1. Program(x) = Certify /\ pc[x] \in 1..Len(Certify)
      BY <2>1, ThreadKinds, CertifyFacts DEF Running, Threads
    <3>2. Current(x) = Certify[pc[x]] /\ held[x] = CertifyLocked[pc[x]]
      BY <3>1 DEF Current, CAInv, LocksExclusive, LockedAt
    <3>3. QED
      BY <3>1, <3>2, CertifyStep DEF Sound
  <2>2. held[v] \cap held[w] = {}
    BY DEF CAInv, LocksExclusive
  <2>3. QED
    BY <2>1, <2>2
<1>2. QED
  BY <1>1, InitCA, NextCA, PTL DEF Spec

\* Whoever holds a mutex of an authority can take the next one it asks for:
\* the certifications of any number of calls and sessions that share an
\* authority cannot deadlock over its two mutexes.
THEOREM NoDeadlock == Spec => []HolderNeverWaits
<1>1. CAInv => HolderNeverWaits
  <2> SUFFICES ASSUME CAInv, NEW w \in Workers, Running(w), held[w] # {},
                      NEW v \in Workers, ref[v] = ref[w]
               PROVE  held[v] \cap Current(w).lock = {}
    BY DEF HolderNeverWaits, CanLock
  <2>1. Program(w) = Certify /\ pc[w] \in 1..Len(Certify)
    BY ThreadKinds, CertifyFacts DEF Running, Threads
  <2>2. Current(w) = Certify[pc[w]] /\ held[w] = CertifyLocked[pc[w]]
    BY <2>1 DEF Current, CAInv, LocksExclusive, LockedAt
  <2>3. held[w] \cap Current(w).lock = {}
    BY <2>1, <2>2, CertifyStep DEF Sound, InOrder
  <2>4. CASE v = w
    BY <2>3, <2>4
  <2>5. CASE v # w
    <3>1. "issuer_name" \in held[w] /\ held[v] \cap held[w] = {}
      BY <2>5 DEF CAInv, LocksExclusive
    <3>2. held[v] # {} => "issuer_name" \in held[v]
      BY DEF CAInv, LocksExclusive
    <3>3. QED
      BY <3>1, <3>2
  <2>6. QED
    BY <2>4, <2>5
<1>2. QED
  BY <1>1, InitCA, NextCA, PTL DEF Spec
=============================================================================
