------------------------ MODULE CertificateAuthority ------------------------
(***************************************************************************)
(* Ownership of the BoringSSL objects and the two mutexes of               *)
(* avs_server/src/ca.rs, while authorities are created, used and replaced. *)
(*                                                                         *)
(* What each call does is a program of CertificatePrograms.                *)
(***************************************************************************)
EXTENDS CertificatePrograms

CONSTANTS Unary,      \* CertifyAttestation workers: hold the slot's read guard
          Streams,    \* session tasks: hold an Arc of the authority
          Rotations,  \* GenerateAvsSigningKey calls, and the authorities they create
          NoCA

Workers == Unary \cup Streams
Threads == Workers \cup Rotations

ASSUME ThreadsAssumption ==
    /\ Unary \cap Streams = {}
    /\ Workers \cap Rotations = {}
    /\ NoCA \notin Threads

\* The program of a thread.
Program(t) == IF t \in Rotations THEN Create ELSE Certify

-----------------------------------------------------------------------------
(* Threads.                                                                *)

VARIABLES
    heap,  \* live objects, <<thread that made it, name>>
    pc,    \* 0 before the first step, else the next one; past the end a session
           \* sends its answer and a rotation waits to install
    ref,   \* the authority a worker uses, or NoCA
    held,  \* the mutexes of that authority a worker holds
    slot   \* the authority in the service's slot

vars == <<heap, pc, ref, held, slot>>

Init ==
    /\ heap = {}
    /\ pc = [t \in Threads |-> 0]
    /\ ref = [t \in Workers |-> NoCA]
    /\ held = [t \in Workers |-> {}]
    /\ slot = NoCA

Own(t, names) == {<<t, o>> : o \in names}

\* CertificateAuthority, and the KeyPair in it, are dropped.
Drop(a) == Own(a, {"ca_key", "issuer_name"})

\* Dropping one Arc of authority a: the last one drops the authority.
Dropped(a, s, refs) ==
    IF a # NoCA /\ s # a /\ (\A w \in Workers : refs[w] # a) THEN Drop(a) ELSE {}

Running(t) == pc[t] \in DOMAIN Program(t)
Current(t) == Program(t)[pc[t]]

\* A unary call takes the read guard and certifies its request.  With an
\* empty slot the call fails and nothing changes.
Begin(u) ==
    /\ pc[u] = 0 /\ slot # NoCA
    /\ pc' = [pc EXCEPT ![u] = 1]
    /\ ref' = [ref EXCEPT ![u] = slot]
    /\ UNCHANGED <<heap, held, slot>>

\* A session clones the Arc in the slot.
Open(s) ==
    /\ ref[s] = NoCA /\ slot # NoCA
    /\ ref' = [ref EXCEPT ![s] = slot]
    /\ UNCHANGED <<heap, pc, held, slot>>

\* The certify request arrives, if the client ever sends one.
Start(s) ==
    /\ pc[s] = 0 /\ ref[s] # NoCA
    /\ pc' = [pc EXCEPT ![s] = 1]
    /\ UNCHANGED <<heap, ref, held, slot>>

RotateCall(r) ==
    /\ pc[r] = 0
    /\ pc' = [pc EXCEPT ![r] = 1]
    /\ UNCHANGED <<heap, ref, held, slot>>

\* A mutex is free when no worker on the same authority holds it, the caller
\* included.
CanLock(t, locks) ==
    \A w \in Workers : ref[w] = ref[t] => held[w] \cap locks = {}

\* A worker returns, with live as what its last step left: its guards are
\* released and its Arc or read guard is dropped.
Return(w, live) ==
    /\ pc' = [pc EXCEPT ![w] = 0]
    /\ ref' = [ref EXCEPT ![w] = NoCA]
    /\ held' = [held EXCEPT ![w] = {}]
    /\ heap' = live \ Dropped(ref[w], slot, ref')

\* Mutant: the guards outlive the certification.
AnswerUnderGuards(s, live) ==
    /\ pc' = [pc EXCEPT ![s] = Len(Program(s)) + 1]
    /\ heap' = live
    /\ UNCHANGED <<ref, held>>

\* The certification of a session is over, and so are its guards; the session
\* awaits the channel with the certificate or the error.
Answer(s, live) ==
    /\ pc' = [pc EXCEPT ![s] = Len(Program(s)) + 1]
    /\ held' = [held EXCEPT ![s] = {}]
    /\ heap' = live
    /\ UNCHANGED ref

Finish(w, live) == IF w \in Unary THEN Return(w, live) ELSE Answer(w, live)

\* A session ends: its answer was sent, the client is gone, or it sent
\* something else than a certify request.
Close(s) ==
    /\ ref[s] # NoCA /\ ~Running(s)
    /\ Return(s, heap)
    /\ UNCHANGED slot

StepOk(t) ==
    LET step == Current(t)
        live == (heap \cup Own(t, step.makes)) \ Own(t, step.frees) IN
    /\ Running(t)
    /\ t \in Workers => CanLock(t, step.lock)
    /\ IF t \in Workers /\ pc[t] = Len(Program(t))
         THEN Finish(t, live)
         ELSE /\ pc' = [pc EXCEPT ![t] = @ + 1]
              /\ heap' = live
              /\ held' = IF t \in Workers THEN [held EXCEPT ![t] = @ \cup step.lock] ELSE held
              /\ UNCHANGED ref
    /\ UNCHANGED slot

\* An error path: free what it names, and return.
StepFails(t) ==
    LET live == heap \ Own(t, Current(t).undo) IN
    /\ Running(t) /\ Current(t).fails
    /\ IF t \in Workers
         THEN Finish(t, live)
         ELSE /\ pc' = [pc EXCEPT ![t] = 0]
              /\ heap' = live
              /\ UNCHANGED <<ref, held>>
    /\ UNCHANGED slot

Created(r) == pc[r] = Len(Program(r)) + 1

\* The write lock is granted and the slot assigned, which drops the Arc of
\* the authority that was there.
Install(r) ==
    /\ Created(r)
    /\ \A u \in Unary : pc[u] = 0
    /\ pc' = [pc EXCEPT ![r] = @ + 1]
    /\ slot' = r
    /\ heap' = heap \ Dropped(slot, r, ref)
    /\ UNCHANGED <<ref, held>>

\* The caller goes away while the write lock is awaited.
InstallCancelled(r) ==
    /\ Created(r)
    /\ pc' = [pc EXCEPT ![r] = 0]
    /\ heap' = heap \ Drop(r)
    /\ UNCHANGED <<ref, held, slot>>

Next ==
    \/ \E t \in Threads : StepOk(t) \/ StepFails(t)
    \/ \E u \in Unary : Begin(u)
    \/ \E s \in Streams : Open(s) \/ Start(s) \/ Close(s)
    \/ \E r \in Rotations : RotateCall(r) \/ Install(r) \/ InstallCancelled(r)

\* There is no await in a certification: a unary call has none from the read
\* guard on, a session none from the certify request to the answer.  What a
\* client does is not fair: it may leave a session open, or its answer unread.
Fairness == \A w \in Workers : WF_vars(StepOk(w) \/ StepFails(w))

Spec == Init /\ [][Next]_vars
FairSpec == Spec /\ Fairness

-----------------------------------------------------------------------------
(* Properties.                                                             *)

\* Every raw pointer that the next call of ca.rs dereferences or frees, on its
\* success and on its error path, is live: nothing is used after it was freed
\* or freed twice, including the authority's own key and name while rotations
\* replace it.
NothingDangles ==
    \A t \in Threads : Running(t) =>
        LET step == Current(t) IN
        /\ Own(t, step.uses \cup (step.frees \ step.makes) \cup step.undo) \subseteq heap
        /\ t \in Workers => Own(ref[t], step.self) \subseteq heap

\* Every live object belongs to a call under way, or is the key or the name
\* of an authority that the slot or a session still refers to: no error path,
\* cancellation or rotation of ca.rs leaks one.
NothingLeaks ==
    \A t \in Threads : \A o \in Names : <<t, o>> \in heap =>
        \/ Running(t)
        \/ /\ t \in Rotations /\ o \in {"ca_key", "issuer_name"}
           /\ Created(t) \/ slot = t \/ \E w \in Workers : ref[w] = t

\* Two calls never use the same raw key or name pointer of an authority at
\* the same time: generate_certificate uses them under their mutexes.
PointersUsedExclusively ==
    \A v, w \in Workers :
        v # w /\ Running(v) /\ Running(w) /\ ref[v] = ref[w] =>
            Current(v).self \cap Current(w).self = {}

\* A certification that holds a mutex of its authority never waits for
\* another: whoever has the name's finds the key's free.  So the certifications
\* that share an authority, in any interleaving, cannot wait for each other in a
\* circle, nor one for itself.
HolderNeverWaits ==
    \A w \in Workers : Running(w) /\ held[w] # {} => CanLock(w, Current(w).lock)

\* A certification ends, although it waits for mutexes that sessions with a
\* silent client have used, unless others keep arriving: a std Mutex is not
\* fair, so a stream of newcomers may overtake a waiter for ever.
CertificationReturns ==
    \A w \in Workers :
        \/ Running(w) ~> ~Running(w)
        \/ []<><<\/ \E u \in Unary \ {w} : Begin(u)
                \/ \E s \in Streams \ {w} : Start(s)>>_vars
=============================================================================
