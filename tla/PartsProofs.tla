----------------------------- MODULE PartsProofs -----------------------------
(***************************************************************************)
(* Proofs about the parts that MCRecords and MCAuthority explore each on   *)
(* its own: the memory guard, the runtime records, the memory observer and *)
(* the receipt controller; joint signatures, lineage, hardware evidence,   *)
(* the guest a key goes to and the conformance suite; the memory sweep and *)
(* the transparency log. For any number of threads, buffers, processes,    *)
(* renewals, ancestors, certificates, guests, runs of the client, vectors, *)
(* steps, pages and entries.                                               *)
(***************************************************************************)
EXTENDS MemorySweep, MemoryGuard, RuntimeRecords, MemoryObserver, ReceiptController,
        ManifestSigning, Lineage, QuoteTrust, BrokerDeployment, Conformance,
        MerkleLog, FiniteSetTheorems, WellFoundedInduction, TLAPS

-----------------------------------------------------------------------------
(* Induction over the naturals                                             *)

\* Induction over the naturals in the form the proofs use it: the least number of a set.
LEMMA LeastNatural ==
    ASSUME NEW T \in SUBSET Nat, T # {}
    PROVE  \E n \in T : \A m \in T : n <= m
<1>1. \A m, n \in Nat : m < n => <<m, n>> \in OpToRel(<, Nat)
  BY Zenon DEF OpToRel
<1>2. PICK n \in T : \A m \in T : ~(<<m, n>> \in OpToRel(<, Nat))
  BY NatLessThanWellFounded, WFMin, Zenon
<1>3. \A m \in T : ~(m < n)
  BY <1>1, <1>2, Zenon
<1>. QED
  BY <1>3, SMT

\* Induction over the naturals up to a bound, for a set of numbers.
LEMMA BoundedInduction ==
    ASSUME NEW N \in Nat, NEW T, 0 \in T, \A n \in 1 .. N : n - 1 \in T => n \in T
    PROVE  \A n \in 0 .. N : n \in T
<1>. DEFINE Missing == {n \in 0 .. N : n \notin T}
<1>. SUFFICES ASSUME Missing # {} PROVE FALSE
  OBVIOUS
<1>1. Missing \in SUBSET Nat
  OBVIOUS
<1>2. PICK n \in Missing : \A m \in Missing : n <= m
  BY <1>1, LeastNatural
<1>3. n \in 1 .. N /\ n - 1 \in 0 .. N /\ n - 1 \notin Missing
  BY <1>2
<1>. QED
  BY <1>2, <1>3

\* A walk of N steps from a: what a recursive function on 0 .. N denotes. There is one.
IsWalk(f, S, a, step, N) ==
    f \in [0 .. N -> S] /\ f[0] = a /\ \A n \in 1 .. N : f[n] = step[f[n - 1]]

LEMMA WalkExists ==
    ASSUME NEW S, NEW a \in S, NEW step \in [S -> S], NEW N \in Nat
    PROVE  \E f : IsWalk(f, S, a, step, N)
<1>. USE DEF IsWalk
<1>. DEFINE Walks(n, f) == IsWalk(f, S, a, step, n)
            T == {n \in Nat : \E f : Walks(n, f)}
<1>1. 0 \in T
  <2>1. Walks(0, [n \in 0 .. 0 |-> a])
    OBVIOUS
  <2>. QED
    BY <2>1
<1>2. ASSUME NEW n \in 1 .. N, n - 1 \in T PROVE n \in T
  <2>1. PICK f : Walks(n - 1, f)
    BY <1>2
  <2>. DEFINE g == [k \in 0 .. n |-> IF k = n THEN step[f[n - 1]] ELSE f[k]]
  <2>2. g[0] = a /\ g \in [0 .. n -> S]
    BY <2>1
  <2>3. \A k \in 1 .. n : g[k] = step[g[k - 1]]
    BY <2>1
  <2>. HIDE DEF g
  <2>4. Walks(n, g)
    BY <2>2, <2>3
  <2>. HIDE DEF Walks
  <2>. QED
    BY <2>4
<1>3. N \in T
  <2>. HIDE DEF T
  <2>1. \A n \in 0 .. N : n \in T
    BY <1>1, <1>2, BoundedInduction
  <2>. QED
    BY <2>1
<1>4. PICK f : Walks(N, f)
  BY <1>3
<1>. QED
  BY <1>4

-----------------------------------------------------------------------------
(* The memory guard                                                        *)

\* Only the holder of _lock looks at the latch or scans.
LEMMA LockInductive == LockInv /\ [GuardNext]_guardVars => LockInv'
<1>. SUFFICES ASSUME LockInv, [GuardNext]_guardVars PROVE LockInv'
  OBVIOUS
<1>. USE GuardAssumption DEF LockInv, Free
<1>1. CASE ChangeBuffer
  BY <1>1 DEF ChangeBuffer
<1>2. ASSUME NEW t \in Threads, Acquire(t) PROVE LockInv'
  BY <1>2 DEF Acquire
<1>3. ASSUME NEW t \in Threads, LookAtLatch(t) PROVE LockInv'
  BY <1>3 DEF LookAtLatch
<1>4. ASSUME NEW t \in Threads, ScanBuffer(t) PROVE LockInv'
  BY <1>4 DEF ScanBuffer
<1>5. ASSUME NEW t \in Threads, CheckPasses(t) PROVE LockInv'
  BY <1>5 DEF CheckPasses
<1>6. ASSUME NEW t \in Threads, CheckFails(t) PROVE LockInv'
  BY <1>6 DEF CheckFails
<1>7. ASSUME NEW t \in Threads, TearDown(t) PROVE LockInv'
  BY <1>7 DEF TearDown
<1>8. CASE UNCHANGED guardVars
  BY <1>8 DEF guardVars
<1>. QED
  BY <1>1, <1>2, <1>3, <1>4, <1>5, <1>6, <1>7, <1>8 DEF GuardNext

\* The thread that latches the guard is alone in the scan, so it is the only one to owe
\* the teardown.
LEMMA LatchInductive == LockInv /\ LatchInv /\ [GuardNext]_guardVars => LatchInv'
<1>. SUFFICES ASSUME LockInv, LatchInv, [GuardNext]_guardVars PROVE LatchInv'
  OBVIOUS
<1>. USE GuardAssumption DEF LockInv, Free, Tearing
<1>1. CASE ChangeBuffer
  BY <1>1 DEF ChangeBuffer, LatchInv
<1>2. ASSUME NEW t \in Threads, Acquire(t) PROVE LatchInv'
  BY <1>2 DEF Acquire, LatchInv
<1>3. ASSUME NEW t \in Threads, LookAtLatch(t) PROVE LatchInv'
  BY <1>3 DEF LookAtLatch, LatchInv
<1>4. ASSUME NEW t \in Threads, ScanBuffer(t) PROVE LatchInv'
  BY <1>4 DEF ScanBuffer, LatchInv
<1>5. ASSUME NEW t \in Threads, CheckPasses(t) PROVE LatchInv'
  BY <1>5 DEF CheckPasses, LatchInv
<1>6. ASSUME NEW t \in Threads, CheckFails(t) PROVE LatchInv'
  BY <1>6 DEF CheckFails, LatchInv
<1>7. ASSUME NEW t \in Threads, TearDown(t) PROVE LatchInv'
  BY <1>7 DEF TearDown, LatchInv
<1>8. CASE UNCHANGED guardVars
  BY <1>8 DEF guardVars, LatchInv
<1>. QED
  BY <1>1, <1>2, <1>3, <1>4, <1>5, <1>6, <1>7, <1>8 DEF GuardNext

\* The first failing check latches the guard for all threads and is the only one that
\* calls on_failure (check_before_operation), for any number of threads and buffers.
THEOREM GuardLatchesOnce == GuardSpec => []LatchedOnce
<1>1. GuardInit => LockInv /\ LatchInv
  BY GuardAssumption DEF GuardInit, LockInv, LatchInv, Tearing, Free
<1>2. ASSUME LatchInv PROVE LatchedOnce
  <2>1. Cardinality({}) = 0 /\ \A t : Cardinality({t}) = 1
    BY FS_EmptySet, FS_Singleton
  <2>2. CASE ~failed
    BY <1>2, <2>1, <2>2 DEF LatchInv, LatchedOnce, Tearing
  <2>3. CASE failed
    <3>1. \A t \in Threads : pc[t] # "scan"
      BY <1>2, <2>3 DEF LatchInv
    <3>2. teardowns + Cardinality(Tearing) = 1
      <4>1. CASE teardowns = 1 /\ Tearing = {}
        BY <2>1, <4>1
      <4>2. CASE teardowns = 0 /\ \E t \in Threads : Tearing = {t}
        BY <2>1, <4>2
      <4>. QED
        BY <1>2, <2>3, <4>1, <4>2 DEF LatchInv
    <3>. QED
      BY <2>3, <3>1, <3>2 DEF LatchedOnce, Tearing
  <2>. QED
    BY <2>2, <2>3
<1>. QED
  BY <1>1, <1>2, LockInductive, LatchInductive, PTL DEF GuardSpec

-----------------------------------------------------------------------------
(* The runtime records                                                     *)

\* The links of a verified chain never leave the process that signed its first record.
LEMMA OneProcessPerChain ==
    ASSUME SignedInv, NEW chain, Linked(chain), NEW i \in DOMAIN chain
    PROVE  chain[i].at = chain[1].at
<1>. DEFINE Strays == {j \in DOMAIN chain : chain[j].at # chain[1].at}
<1>. SUFFICES ASSUME Strays # {} PROVE FALSE
  OBVIOUS
<1>1. chain \in Seq(signed) /\ DOMAIN chain = 1 .. Len(chain) /\ Len(chain) \in Nat
  BY DEF Linked
<1>2. PICK j \in Strays : \A k \in Strays : j <= k
  <2>1. Strays \in SUBSET Nat
    BY <1>1
  <2>. HIDE DEF Strays
  <2>. QED
    BY <2>1, LeastNatural
<1>3. j \in 1 .. Len(chain) /\ j # 1 /\ chain[j] \in signed
  BY <1>1, <1>2
<1>4. j - 1 \in DOMAIN chain /\ j - 1 \notin Strays
  BY <1>1, <1>2, <1>3
<1>5. chain[j].previous = <<chain[j - 1]>>
  BY <1>1, <1>3 DEF Linked, HashOf
<1>6. chain[j - 1].at = chain[j].at
  <2>1. chain[j].previous # <<>>
    BY <1>5
  <2>2. PICK q \in signed : chain[j].previous = <<q>> /\ q.at = chain[j].at
    BY <1>3, <2>1, Zenon DEF SignedInv
  <2>3. q = chain[j - 1]
    BY <1>5, <2>2
  <2>. QED
    BY <2>2, <2>3
<1>. QED
  BY <1>2, <1>4, <1>6

\* A chain that passes the terminal checks contains a boundary.
LEMMA TerminalHasBoundary ==
    ASSUME NEW chain \in Seq(signed), EndsServing(chain)
    PROVE  \E i \in DOMAIN chain : chain[i].event \in Boundaries
<1>. DEFINE events == [i \in DOMAIN chain |-> chain[i].event]
<1>1. SelectInSeq(events, LAMBDA e : e \in Boundaries) # 0
  BY DEF EndsServing
<1>2. {i \in 1 .. Len(events) : events[i] \in Boundaries} # {}
  BY <1>1 DEF SelectInSeq
<1>3. Len(events) = Len(chain)
  OBVIOUS
<1>. QED
  BY <1>2, <1>3

\* What record() does to the list and to the set of records that exist.
LEMMA RecordKeeps ==
    ASSUME ListInv, SignedInv, NEW event, Record(event), process' = process,
           wiped \subseteq wiped', event \in Boundaries => process \in wiped'
    PROVE  ListInv' /\ SignedInv'
<1>. DEFINE r == SignRuntimeRecord(records, event, lease, process)
<1>1. records' = Append(records, r) /\ signed' = signed \cup {r}
  BY DEF Record
<1>2. r.at = process /\ r.event = event
  BY DEF SignRuntimeRecord
<1>3. r.previous = <<>> \/ \E q \in signed : r.previous = <<q>> /\ q.at = process
  <2>1. CASE records = <<>>
    BY <2>1 DEF SignRuntimeRecord, HashOf
  <2>2. CASE records # <<>>
    <3>1. Last(records) \in signed /\ Last(records).at = process
      BY <2>2 DEF ListInv, Last
    <3>. QED
      BY <2>2, <3>1 DEF SignRuntimeRecord, HashOf
  <2>. QED
    BY <2>1, <2>2
<1>. HIDE DEF r
<1>4. ListInv'
  BY <1>1, <1>2 DEF ListInv
<1>5. SignedInv'
  BY <1>1, <1>2, <1>3 DEF SignedInv, ListInv
<1>. QED
  BY <1>4, <1>5

\* Every step keeps the two parts of the invariant and lets the wiped processes only grow.
LEMMA ChainInductive ==
    ASSUME ListInv, SignedInv, [ChainNext]_chainVars
    PROVE  ListInv' /\ SignedInv' /\ wiped \subseteq wiped'
<1>1. CASE StartLease
  BY <1>1, RecordKeeps DEF StartLease, Boundaries
<1>2. CASE RenewLease
  BY <1>2, RecordKeeps DEF RenewLease, Boundaries
<1>3. CASE DetectBoundary
  <2>1. PICK event \in Boundaries : Record(event)
    BY <1>3 DEF DetectBoundary
  <2>. QED
    BY <1>3, <2>1, RecordKeeps DEF DetectBoundary
<1>4. CASE RequestWipe
  BY <1>4, RecordKeeps DEF RequestWipe, Boundaries
<1>5. CASE CompleteWipe
  BY <1>5, RecordKeeps DEF CompleteWipe, Boundaries
<1>6. CASE Terminate
  BY <1>6, RecordKeeps DEF Terminate, Boundaries
<1>7. CASE RestartController
  BY <1>7 DEF RestartController, ListInv, SignedInv
<1>8. CASE AcceptChain \/ UNCHANGED chainVars
  BY <1>8 DEF AcceptChain, chainVars, ListInv, SignedInv
<1>. QED
  BY <1>1, <1>2, <1>3, <1>4, <1>5, <1>6, <1>7, <1>8 DEF ChainNext

\* The chain a verifier accepts as terminal is of one process, whose key is wiped
\* (verify_runtime_record_chain), however long the chain and however often the
\* controller was started.
THEOREM ChainsEndOneProcess == ChainSpec => []OneProcessEnded
<1>1. ChainInit => ListInv /\ SignedInv /\ OneProcessEnded
  BY DEF ChainInit, ListInv, SignedInv, OneProcessEnded
<1>2. ASSUME ListInv, SignedInv, OneProcessEnded, [ChainNext]_chainVars
      PROVE  OneProcessEnded'
  <2>1. CASE AcceptChain
    <3>1. PICK chain : VerifyRuntimeRecordChain(chain, TRUE) /\ accepted' = chain
      BY <2>1 DEF AcceptChain
    <3>2. Linked(chain) /\ EndsServing(chain) /\ chain \in Seq(signed)
      BY <3>1 DEF VerifyRuntimeRecordChain, Linked
    <3>3. \A i \in DOMAIN chain : chain[i].at = chain[1].at
      BY <1>2, <3>2, OneProcessPerChain
    <3>4. PICK i \in DOMAIN chain : chain[i].event \in Boundaries
      BY <3>2, TerminalHasBoundary
    <3>5. chain[i].at \in wiped
      BY <1>2, <3>2, <3>4 DEF SignedInv
    <3>. QED
      BY <2>1, <3>1, <3>3, <3>5 DEF AcceptChain, OneProcessEnded
  <2>2. CASE accepted' = accepted
    BY <1>2, <2>2, ChainInductive DEF OneProcessEnded
  <2>. QED
    BY <1>2, <2>1, <2>2 DEF ChainNext, chainVars, StartLease, RenewLease, DetectBoundary,
       RequestWipe, CompleteWipe, Terminate, RestartController
<1>3. ListInv /\ SignedInv /\ [ChainNext]_chainVars => ListInv' /\ SignedInv'
  BY ChainInductive
<1>. QED
  BY <1>1, <1>2, <1>3, PTL DEF ChainSpec

-----------------------------------------------------------------------------
(* The memory observer                                                     *)

\* Memory changes and challenges are issued: the readings stay in order.
LEMMA ClockInductive == ClockInv /\ [ObserverNext]_observerVars => ClockInv'
<1>. SUFFICES ASSUME ClockInv, [ObserverNext]_observerVars PROVE ClockInv'
  OBVIOUS
<1>. USE DEF ClockInv
<1>1. CASE EditBuffer
  <2>1. PICK b \in DOMAIN memory :
          memory' = [memory EXCEPT ![b] = IF @ = "good" THEN "bad" ELSE "good"]
    BY <1>1 DEF EditBuffer
  <2>2. memory' \in [1 .. ObservedBuffers -> Contents]
    BY <2>1 DEF Contents
  <2>. QED
    BY <1>1, <2>2 DEF EditBuffer
<1>2. CASE IssueChallenge
  BY <1>2 DEF IssueChallenge
<1>3. CASE UNCHANGED <<memory, edits, issuedAt>>
  BY <1>3
<1>. QED
  BY <1>1, <1>2, <1>3 DEF ObserverNext, observerVars, ExpireChallenge, BeginObservation,
     MeasureBuffer, SignObservation, VerifyObservation

\* A challenge keeps the reading at which it was issued.
LEMMA ReadAfterStays ==
    ASSUME ClockInv, [ObserverNext]_observerVars, NEW o, ReadAfter(o)
    PROVE  ReadAfter(o)'
<1>1. CASE IssueChallenge
  <2>1. \A n \in DOMAIN issuedAt : n \in DOMAIN issuedAt' /\ issuedAt'[n] = issuedAt[n]
    BY <1>1 DEF IssueChallenge, ClockInv
  <2>. QED
    BY <2>1 DEF ReadAfter
<1>2. CASE issuedAt' = issuedAt
  BY <1>2 DEF ReadAfter
<1>. QED
  BY <1>1, <1>2 DEF ObserverNext, observerVars, EditBuffer, ExpireChallenge, BeginObservation,
     MeasureBuffer, SignObservation, VerifyObservation

\* An observation begins after its challenge is issued, and reads at the present.
LEMMA ObservationInductive ==
    ASSUME ClockInv, ObservationInv, [ObserverNext]_observerVars
    PROVE  ObservationInv'
<1>1. \A o : ReadAfter(o) => ReadAfter(o)'
  BY ReadAfterStays
<1>2. CASE BeginObservation
  <2>1. PICK n \in DOMAIN issuedAt, bound \in {"own", "other"} :
          scan' = <<[nonce |-> n, bound |-> bound, digests |-> <<>>, at |-> <<>>]>>
    BY <1>2 DEF BeginObservation
  <2>2. scan' = <<scan'[1]>> /\ scan'[1] \in Observation /\ ReadAfter(scan'[1])
    BY <2>1 DEF ReadAfter, Observation, ClockInv
  <2>3. ReadAfter(scan[1])'
    BY <1>2, <2>2 DEF ReadAfter, BeginObservation
  <2>. QED
    BY <1>1, <1>2, <2>2, <2>3 DEF ObservationInv, BeginObservation
<1>3. CASE MeasureBuffer
  <2>. DEFINE o == scan[1]
              d == Append(o.digests, memory[Len(o.digests) + 1])
              a == Append(o.at, edits)
              m == [o EXCEPT !.digests = d, !.at = a]
  <2>1. scan = <<o>> /\ ReadAfter(o) /\ Len(o.digests) < ObservedBuffers
    BY <1>3 DEF MeasureBuffer, ObservationInv
  <2>2. o.digests \in Seq(Contents) /\ o.at \in Seq(Nat) /\ o \in Observation
        /\ Len(o.at) = Len(o.digests) /\ o.nonce \in DOMAIN issuedAt
    BY <2>1 DEF ReadAfter, Observation
  <2>3. memory[Len(o.digests) + 1] \in Contents
    BY <2>1, <2>2, ObserverAssumption DEF ClockInv
  <2>4. scan' = <<m>>
    BY <1>3, <2>1 DEF MeasureBuffer
  <2>5. /\ m \in Observation /\ m.nonce = o.nonce
        /\ m.digests = d /\ m.at = a
    <3>1. d \in Seq(Contents) /\ a \in Seq(Nat)
      BY <2>2, <2>3 DEF ClockInv
    <3>. HIDE DEF o, d, a
    <3>. QED
      BY <2>2, <3>1 DEF Observation
  <2>. HIDE DEF m
  <2>6. Len(m.at) = Len(m.digests)
    <3>. HIDE DEF o
    <3>1. Len(d) = Len(o.digests) + 1
      BY <2>2, <2>3
    <3>2. Len(a) = Len(o.at) + 1
      BY <2>2 DEF ClockInv
    <3>. HIDE DEF d, a
    <3>. QED
      BY <2>2, <2>5, <3>1, <3>2
  <2>7. \A b \in DOMAIN m.at : m.at[b] >= issuedAt[m.nonce]
    <3>1. issuedAt[o.nonce] <= edits /\ \A b \in DOMAIN o.at : o.at[b] >= issuedAt[o.nonce]
      BY <2>1, <2>2 DEF ReadAfter, ClockInv
    <3>2. issuedAt[o.nonce] \in Nat /\ edits \in Nat
      BY <2>2 DEF ClockInv
    <3>. HIDE DEF o
    <3>3. ASSUME NEW b \in DOMAIN a PROVE a[b] = edits \/ (b \in DOMAIN o.at /\ a[b] = o.at[b])
      BY <2>2, <3>2, <3>3
    <3>4. \A b \in DOMAIN a : a[b] >= issuedAt[o.nonce]
      <4>. HIDE DEF a
      <4>. QED
        BY <3>1, <3>2, <3>3
    <3>. HIDE DEF a, d
    <3>. QED
      BY <2>5, <3>4
  <2>8. ReadAfter(m)
    BY <2>2, <2>5, <2>6, <2>7 DEF ReadAfter
  <2>9. scan' = <<scan'[1]>> /\ scan'[1] = m
    BY <2>4
  <2>10. ReadAfter(scan[1])'
    BY <1>3, <2>8, <2>9 DEF ReadAfter, MeasureBuffer
  <2>. QED
    BY <1>1, <1>3, <2>9, <2>10 DEF ObservationInv, MeasureBuffer
<1>4. CASE SignObservation
  BY <1>1, <1>4 DEF SignObservation, ObservationInv, NoScan
<1>5. CASE UNCHANGED <<scan, observations>>
  <2>1. ReadAfter(scan[1]) => ReadAfter(scan[1])'
    BY <1>1, <1>5 DEF ReadAfter
  <2>. QED
    BY <1>1, <1>5, <2>1 DEF ObservationInv, NoScan
<1>. QED
  BY <1>2, <1>3, <1>4, <1>5 DEF ObserverNext, observerVars, EditBuffer, IssueChallenge,
     ExpireChallenge, VerifyObservation

\* verify consumes the challenge before it accepts, and no consumed one is issued again.
LEMMA VerifiedInductive ==
    ASSUME ClockInv, ObservationInv, VerifiedInv, [ObserverNext]_observerVars
    PROVE  VerifiedInv'
<1>. USE DEF VerifiedInv
<1>1. CASE IssueChallenge
  <2>1. /\ open' = open \cup {Len(issuedAt) + 1} /\ DOMAIN issuedAt = 1 .. Len(issuedAt)
        /\ DOMAIN issuedAt' = 1 .. (Len(issuedAt) + 1) /\ Len(issuedAt) \in Nat
    BY <1>1 DEF IssueChallenge, ClockInv
  <2>2. UNCHANGED <<observations, verified>>
    BY <1>1 DEF IssueChallenge
  <2>3. open' \subseteq DOMAIN issuedAt' /\ DOMAIN issuedAt \subseteq DOMAIN issuedAt'
    BY <2>1
  <2>4. \A n \in DOMAIN issuedAt : n \notin open => n \notin open'
    BY <2>1
  <2>. QED
    BY <2>2, <2>3, <2>4 DEF Approved
<1>2. CASE ExpireChallenge
  BY <1>2 DEF ExpireChallenge, Approved
<1>3. CASE SignObservation
  <2>1. verified' \in Seq(observations' \X Nat)
    BY <1>3 DEF SignObservation
  <2>. QED
    BY <1>3, <2>1 DEF SignObservation, Approved
<1>4. ASSUME NEW o \in observations, NEW n \in 1 .. MaxChallenges, VerifyObservation(o, n)
      PROVE  VerifiedInv'
  <2>1. CASE n \in open /\ o.nonce = n /\ Approved(o)
    <3>1. verified' = Append(verified, <<o, n>>) /\ open' = open \ {n}
          /\ issuedAt' = issuedAt /\ observations' = observations
      BY <1>4, <2>1 DEF VerifyObservation
    <3>2. n \in Nat /\ n \in DOMAIN issuedAt
      BY <1>4 DEF VerifyObservation, ClockInv
    <3>3. verified' \in Seq(observations' \X Nat)
      BY <3>1, <3>2
    <3>4. \A i \in DOMAIN verified' :
            \/ i \in DOMAIN verified /\ verified'[i] = verified[i] /\ verified[i][2] # n
            \/ i = Len(verified) + 1 /\ verified'[i] = <<o, n>>
      BY <2>1, <3>1
    <3>. HIDE DEF VerifiedInv
    <3>5. \A i \in DOMAIN verified' :
            /\ verified'[i][2] = verified'[i][1].nonce
            /\ verified'[i][2] \notin open'
            /\ verified'[i][2] \in DOMAIN issuedAt'
            /\ Approved(verified'[i][1])
      BY <2>1, <3>1, <3>2, <3>4 DEF VerifiedInv
    <3>6. \A i, j \in DOMAIN verified' : verified'[i][2] = verified'[j][2] => i = j
      BY <3>4 DEF VerifiedInv
    <3>. QED
      BY <3>1, <3>3, <3>5, <3>6 DEF VerifiedInv, Approved
  <2>2. CASE ~(n \in open /\ o.nonce = n /\ Approved(o))
    BY <1>4, <2>2 DEF VerifyObservation, Approved
  <2>. QED
    BY <2>1, <2>2
<1>5. CASE UNCHANGED <<issuedAt, open, observations, verified>>
  BY <1>5 DEF Approved
<1>. QED
  BY <1>1, <1>2, <1>3, <1>4, <1>5 DEF ObserverNext, observerVars, EditBuffer,
     BeginObservation, MeasureBuffer

\* A challenge buys one acceptance, of a measurement read entirely after it was issued
\* (ModelMemoryVerifier.verify), for any number of buffers, challenges and observations
\* and whatever of them the host keeps and presents.
THEOREM ChallengesAreObserved == ObserverSpec => []ObservedAfterChallenge
<1>1. ObserverInit => ClockInv /\ ObservationInv /\ VerifiedInv
  BY ObserverAssumption DEF ObserverInit, ClockInv, ObservationInv, VerifiedInv, Contents
<1>2. ASSUME ClockInv, ObservationInv, VerifiedInv PROVE ObservedAfterChallenge
  <2>. SUFFICES ASSUME NEW i \in DOMAIN verified, NEW b \in DOMAIN verified[i][1].digests
       PROVE  /\ verified[i][1].at[b] >= issuedAt[verified[i][2]]
              /\ verified[i][1].digests[b] = "good"
    BY <1>2 DEF ObservedAfterChallenge, VerifiedInv
  <2>1. verified[i][1] \in observations /\ verified[i][2] = verified[i][1].nonce
        /\ Approved(verified[i][1])
    BY <1>2 DEF VerifiedInv
  <2>2. ReadAfter(verified[i][1])
    BY <1>2, <2>1 DEF ObservationInv
  <2>3. b \in DOMAIN verified[i][1].at
    BY <2>2 DEF ReadAfter, Observation
  <2>. QED
    BY <2>1, <2>2, <2>3 DEF ReadAfter, Approved
<1>3. ClockInv /\ ObservationInv /\ VerifiedInv /\ [ObserverNext]_observerVars
      => ObservationInv' /\ VerifiedInv'
  BY ObservationInductive, VerifiedInductive
<1>. QED
  BY <1>1, <1>2, <1>3, ClockInductive, PTL DEF ObserverSpec

-----------------------------------------------------------------------------
(* The receipt controller                                                  *)

\* The steps of the host: they add a receipt and touch nothing of the controller's.
HostStep ==
    /\ receipts \subseteq receipts'
    /\ UNCHANGED <<row, service, proc, settled>>

LEMMA HostSteps == HostStart \/ HostInference \/ HostRevoke => HostStep
  BY DEF HostStart, HostInference, HostRevoke, Emit, HostStep

\* What a process at a step of admit or of the repair holds.
LEMMA AppliesAdmission ==
    ASSUME NEW step, Working(step), step.at \in Applying
    PROVE  step \in [at : Applying, r : Admissions] /\ step.r \in Admissions
  BY DEF Working, Applying, Idle

LEMMA GetsState ==
    ASSUME NEW step, Working(step), step.at = "get"
    PROVE  step.state \in {"admitted", "revoked"} /\ step.alone \in BOOLEAN
  BY DEF Working, Applying, Idle, States

LEMMA DeletesAlone ==
    ASSUME NEW step, Working(step), step.at = "delete"
    PROVE  step.alone \in BOOLEAN
  BY DEF Working, Applying, Idle

\* A process moves on: the others are where they were.
LEMMA GotoKeepsLedger ==
    ASSUME LedgerInv, NEW p \in Processes, NEW step, Goto(p, step), receipts' = receipts,
           Working(step),
           row' \in [state : States, admission : {<<>>} \cup {<<r>> : r \in Admissions}],
           row'.state = "admitted" => row'.admission # <<>>,
           row.admission # <<>> => row'.admission # <<>>,
           step.at = "get" /\ step.state = "admitted" => row'.admission # <<>>
    PROVE  LedgerInv'
<1>1. Admissions' = Admissions
  BY DEF Admissions
<1>2. \A s : Working(s)' <=> Working(s)
  BY <1>1 DEF Working
<1>3. DOMAIN proc = Processes /\ proc' = [proc EXCEPT ![p] = step]
  BY DEF LedgerInv, Goto
<1>4. \A q \in Processes : proc'[q] = IF q = p THEN step ELSE proc[q]
  BY <1>3
<1>5. proc' \in [Processes -> {proc'[q] : q \in Processes}]
  BY <1>3
<1>6. \A q \in Processes : Working(proc'[q])
  BY <1>4 DEF LedgerInv
<1>7. \A q \in Processes :
        proc'[q].at = "get" /\ proc'[q].state = "admitted" => row'.admission # <<>>
  BY <1>4 DEF LedgerInv
<1>. HIDE DEF Working
<1>8. \A q \in Processes : Working(proc[q])'
  BY <1>1, <1>6 DEF Working
<1>. QED
  BY <1>1, <1>5, <1>7, <1>8 DEF LedgerInv

\* Nothing but admissions in circulation gets into the ledger or to a process.
LEMMA LedgerInductive == LedgerInv /\ [ControllerNext]_controllerVars => LedgerInv'
<1>. SUFFICES ASSUME LedgerInv, [ControllerNext]_controllerVars PROVE LedgerInv'
  OBVIOUS
<1>0. /\ row \in [state : States, admission : {<<>>} \cup {<<r>> : r \in Admissions}]
      /\ row.state = "admitted" => row.admission # <<>>
      /\ \A p \in Processes : Working(proc[p])
  BY DEF LedgerInv
<1>1. CASE HostStart \/ HostInference \/ HostRevoke
  <2>1. HostStep
    BY <1>1, HostSteps
  <2>2. Admissions \subseteq Admissions'
    BY <2>1 DEF HostStep, Admissions
  <2>3. \A p \in Processes : Working(proc[p])'
    BY <1>0, <2>1, <2>2 DEF HostStep, Working
  <2>4. row' \in [state : States, admission : {<<>>} \cup {<<r>> : r \in Admissions'}]
    BY <1>0, <2>1, <2>2 DEF HostStep
  <2>. QED
    BY <2>1, <2>3, <2>4 DEF HostStep, LedgerInv
<1>2. CASE OutOfBand \/ UNCHANGED controllerVars
  BY <1>2 DEF OutOfBand, controllerVars, LedgerInv, Working, Admissions
<1>3. ASSUME NEW p \in Processes, NEW r \in receipts, BeginAdmit(p, r) PROVE LedgerInv'
  <2>1. Working([at |-> "ledger", r |-> r])
    BY <1>3 DEF BeginAdmit, Working, Applying, Admissions
  <2>. QED
    BY <1>0, <1>3, <2>1, GotoKeepsLedger DEF BeginAdmit
<1>4. ASSUME NEW p \in Processes, NEW r \in receipts, BeginRevoke(p, r) PROVE LedgerInv'
  <2>1. Working([at |-> "delete", alone |-> Alone(p)])
    BY DEF Working, Alone
  <2>2. row' \in [state : States, admission : {<<>>} \cup {<<a>> : a \in Admissions}]
        /\ row'.state = "revoked" /\ row'.admission = row.admission
    BY <1>0, <1>4 DEF BeginRevoke, States
  <2>. QED
    BY <1>4, <2>1, <2>2, GotoKeepsLedger DEF BeginRevoke
<1>5. ASSUME NEW p \in Processes, AdmitLedger(p) PROVE LedgerInv'
  <2>1. proc[p].r \in Admissions
    BY <1>0, <1>5, AppliesAdmission DEF AdmitLedger, Applying
  <2>2. Working(Idle) /\ Working([at |-> "pod", r |-> proc[p].r])
    BY <2>1 DEF Working, Applying
  <2>3. CASE row.state = "revoked"
    BY <1>0, <1>5, <2>2, <2>3, GotoKeepsLedger DEF AdmitLedger, Idle
  <2>4. CASE row.state # "revoked"
    <3>1. row' = IF row.state = "none" THEN [state |-> "admitted", admission |-> <<proc[p].r>>]
                 ELSE row
      BY <1>5, <2>4 DEF AdmitLedger
    <3>2. row' \in [state : States, admission : {<<>>} \cup {<<a>> : a \in Admissions}]
          /\ row'.admission # <<>>
      BY <1>0, <2>1, <2>4, <3>1 DEF States
    <3>. QED
      BY <1>5, <2>2, <2>4, <3>2, GotoKeepsLedger DEF AdmitLedger
  <2>. QED
    BY <2>3, <2>4
<1>6. ASSUME NEW p \in Processes,
             ApplyPod(p) \/ ApplyService(p) \/ CompareService(p) \/ ReplaceService(p)
             \/ ReconcileClear(p)
      PROVE  LedgerInv'
  <2>1. proc[p].at \in Applying
    BY <1>6 DEF ApplyPod, ApplyService, CompareService, ReplaceService, ReconcileClear, Applying
  <2>2. proc[p] \in [at : Applying, r : Admissions]
    BY <1>0, <2>1, AppliesAdmission
  <2>3. \A at \in Applying :
          /\ Working([proc[p] EXCEPT !.at = at])
          /\ [proc[p] EXCEPT !.at = at].at = at
    BY <2>2 DEF Working
  <2>4. Working(Idle) /\ Idle.at = "idle"
    BY DEF Working, Idle
  <2>5. PICK step : Goto(p, step) /\ Working(step) /\ step.at # "get"
    <3>1. CASE ApplyPod(p)
      BY <2>3, <3>1 DEF ApplyPod, Applying
    <3>2. CASE ApplyService(p)
      BY <2>3, <2>4, <3>2 DEF ApplyService, Applying
    <3>3. CASE CompareService(p)
      BY <2>3, <2>4, <3>3 DEF CompareService, Applying
    <3>4. CASE ReplaceService(p)
      BY <2>4, <3>4 DEF ReplaceService
    <3>5. CASE ReconcileClear(p)
      BY <2>3, <3>5 DEF ReconcileClear, Applying
    <3>. QED
      BY <1>6, <3>1, <3>2, <3>3, <3>4, <3>5
  <2>6. row' = row /\ receipts' = receipts
    BY <1>6 DEF ApplyPod, ApplyService, CompareService, ReplaceService, ReconcileClear
  <2>. QED
    BY <1>0, <2>5, <2>6, GotoKeepsLedger
<1>7. ASSUME NEW p \in Processes, DeleteService(p) \/ ProcessDies(p) PROVE LedgerInv'
  <2>1. Working(Idle) /\ Idle.at = "idle"
    BY DEF Working, Idle
  <2>. QED
    BY <1>0, <1>7, <2>1, GotoKeepsLedger DEF DeleteService, ProcessDies
<1>8. ASSUME NEW p \in Processes, BeginReconcile(p) PROVE LedgerInv'
  <2>1. Working([at |-> "get", state |-> row.state, alone |-> Alone(p)])
    BY <1>0, <1>8 DEF Working, Alone, BeginReconcile
  <2>. QED
    BY <1>0, <1>8, <2>1, GotoKeepsLedger DEF BeginReconcile
<1>9. ASSUME NEW p \in Processes, ReconcileGet(p) PROVE LedgerInv'
  <2>1. proc[p].state \in {"admitted", "revoked"} /\ proc[p].alone \in BOOLEAN
    BY <1>0, <1>9, GetsState DEF ReconcileGet
  <2>2. Working(Idle) /\ Idle.at = "idle"
    BY DEF Working, Idle
  <2>3. CASE proc[p].state = "revoked"
    <3>1. Working([at |-> "delete", alone |-> proc[p].alone])
      BY <2>1 DEF Working
    <3>. QED
      BY <1>0, <1>9, <2>2, <2>3, <3>1, GotoKeepsLedger DEF ReconcileGet
  <2>4. CASE proc[p].state = "admitted"
    <3>1. row.admission[1] \in Admissions
      BY <1>0, <1>9, <2>4 DEF LedgerInv, ReconcileGet
    <3>2. \A at \in Applying : Working([at |-> at, r |-> row.admission[1]])
      BY <3>1 DEF Working
    <3>. QED
      BY <1>0, <1>9, <2>2, <2>4, <3>2, GotoKeepsLedger DEF ReconcileGet, Applying
  <2>. QED
    BY <2>1, <2>3, <2>4
<1>. QED
  BY <1>1, <1>2, <1>3, <1>4, <1>5, <1>6, <1>7, <1>8, <1>9 DEF ControllerNext

\* A Service names an admission that is in circulation, whoever wrote it.
LEMMA ServiceInductive ==
    ASSUME LedgerInv, ServiceInv, [ControllerNext]_controllerVars
    PROVE  ServiceInv'
<1>1. Admissions \subseteq Admissions'
  <2>1. receipts \subseteq receipts'
    BY DEF ControllerNext, controllerVars, HostStart, HostInference, HostRevoke, Emit, OutOfBand,
       BeginAdmit, BeginRevoke, AdmitLedger, ApplyPod, ApplyService, CompareService,
       ReplaceService, DeleteService, BeginReconcile, ReconcileGet, ReconcileClear, ProcessDies
  <2>. QED
    BY <2>1 DEF Admissions
<1>2. \A r \in Admissions :
        ServiceManifest(r) \in [present : {TRUE}, selector : {"own", "other"},
                                admission : {<<>>} \cup {<<a>> : a \in Admissions}]
  BY DEF ServiceManifest
<1>3. CASE service' = service
  BY <1>1, <1>3 DEF ServiceInv
<1>4. CASE service' = None
  BY <1>4 DEF ServiceInv
<1>5. CASE \E r \in Admissions : service' = ServiceManifest(r)
  BY <1>1, <1>2, <1>5 DEF ServiceInv
<1>6. CASE OutOfBand
  <2>1. \/ service' = None
        \/ service' = [present |-> TRUE, selector |-> "other", admission |-> <<>>]
        \/ \E r \in Admissions : service' = ServiceManifest(r)
    BY <1>6 DEF OutOfBand, Admissions
  <2>2. CASE service' = [present |-> TRUE, selector |-> "other", admission |-> <<>>]
    BY <2>2 DEF ServiceInv
  <2>. QED
    BY <1>4, <1>5, <2>1, <2>2
<1>7. ASSUME NEW p \in Processes, ApplyService(p) \/ ReplaceService(p) PROVE ServiceInv'
  <2>1. proc[p].r \in Admissions
    BY <1>7, AppliesAdmission DEF LedgerInv, ApplyService, ReplaceService, Applying
  <2>. QED
    BY <1>3, <1>5, <1>7, <2>1 DEF ApplyService, ReplaceService
<1>. QED
  BY <1>3, <1>4, <1>6, <1>7 DEF ControllerNext, controllerVars, HostStart, HostInference,
     HostRevoke, Emit, BeginAdmit, BeginRevoke, AdmitLedger, ApplyPod, CompareService,
     DeleteService, BeginReconcile, ReconcileGet, ReconcileClear, ProcessDies

\* A step that starts no process that may route, and no lonely removal, keeps the quiet.
LEMMA GotoKeepsQuiet ==
    ASSUME LedgerInv, QuietInv, NEW p \in Processes, NEW step, Goto(p, step),
           row.state = "revoked" => row'.state = "revoked",
           step.at = "delete" => row'.state = "revoked",
           step.at = "get" /\ step.state = "revoked" => row'.state = "revoked",
           MayRoute(step) => MayRoute(proc[p]) \/ row.state # "revoked",
           RemovesAlone(step) => RemovesAlone(proc[p]) \/ settled'
                                 \/ \A q \in Processes \ {p} : proc[q] = Idle,
           settled' \in BOOLEAN,
           settled' => settled \/ RemovesAlone(proc[p]),
           settled' => service' = None
    PROVE  QuietInv'
<1>1. DOMAIN proc = Processes /\ proc' = [proc EXCEPT ![p] = step]
  BY DEF LedgerInv, Goto
<1>2. \A q \in Processes : proc'[q] = IF q = p THEN step ELSE proc[q]
  BY <1>1
<1>3. \A q \in Processes :
        /\ proc'[q].at = "delete" => row'.state = "revoked"
        /\ proc'[q].at = "get" /\ proc'[q].state = "revoked" => row'.state = "revoked"
  BY <1>2 DEF QuietInv
<1>4. ASSUME settled' \/ \E q \in Processes : RemovesAlone(proc'[q])
      PROVE  row'.state = "revoked" /\ \A q \in Processes : ~MayRoute(proc'[q])
  <2>1. CASE settled \/ \E q \in Processes : RemovesAlone(proc[q])
    <3>1. row.state = "revoked" /\ \A q \in Processes : ~MayRoute(proc[q])
      BY <2>1, Zenon DEF QuietInv
    <3>. QED
      BY <1>2, <3>1
  <2>2. CASE ~(settled \/ \E q \in Processes : RemovesAlone(proc[q]))
    <3>1. RemovesAlone(step) /\ \A q \in Processes \ {p} : proc[q] = Idle
      BY <1>2, <1>4, <2>2, Zenon
    <3>2. row'.state = "revoked" /\ ~MayRoute(step)
      BY <3>1 DEF RemovesAlone, MayRoute, Applying
    <3>3. ~MayRoute(Idle)
      BY DEF MayRoute, Idle, Applying
    <3>. QED
      BY <1>2, <3>1, <3>2, <3>3
  <2>. QED
    BY <2>1, <2>2
<1>5. (settled' \/ \E q \in Processes : RemovesAlone(proc[q])')
      => row'.state = "revoked" /\ \A q \in Processes : ~MayRoute(proc[q])'
  BY <1>4 DEF RemovesAlone, MayRoute
<1>. QED
  BY <1>3, <1>5 DEF QuietInv

\* After the tombstone nobody gets past the ledger, and those that were past it are gone
\* when a process that began alone removes the Service.
LEMMA QuietInductive ==
    ASSUME LedgerInv, QuietInv, [ControllerNext]_controllerVars
    PROVE  QuietInv'
<1>0. /\ \A p \in Processes : Working(proc[p])
      /\ row.state \in States
      /\ settled \in BOOLEAN /\ (settled => service = None)
  BY DEF LedgerInv, QuietInv
<1>a. Idle.at = "idle" /\ ~MayRoute(Idle) /\ ~RemovesAlone(Idle)
  BY DEF MayRoute, RemovesAlone, Idle, Applying
<1>1. CASE HostStart \/ HostInference \/ HostRevoke
  BY <1>1, HostSteps DEF HostStep, QuietInv, MayRoute, RemovesAlone
<1>2. CASE UNCHANGED controllerVars
  BY <1>2 DEF controllerVars, QuietInv, MayRoute, RemovesAlone
<1>3. CASE OutOfBand
  <2>1. settled' = FALSE /\ row' = row /\ proc' = proc
    BY <1>3 DEF OutOfBand
  <2>. QED
    BY <2>1 DEF QuietInv, MayRoute, RemovesAlone
<1>4. ASSUME NEW p \in Processes, NEW r \in receipts, BeginAdmit(p, r) PROVE QuietInv'
  <2>. DEFINE step == [at |-> "ledger", r |-> r]
  <2>1. step.at = "ledger" /\ ~MayRoute(step) /\ ~RemovesAlone(step)
    BY DEF MayRoute, RemovesAlone, Applying
  <2>2. Goto(p, step) /\ row' = row /\ settled' = settled /\ service' = service
    BY <1>4 DEF BeginAdmit
  <2>. HIDE DEF step
  <2>. QED
    BY <1>0, <2>1, <2>2, GotoKeepsQuiet
<1>5. ASSUME NEW p \in Processes, NEW r \in receipts, BeginRevoke(p, r) PROVE QuietInv'
  <2>. DEFINE step == [at |-> "delete", alone |-> Alone(p)]
  <2>1. step.at = "delete" /\ ~MayRoute(step) /\ (RemovesAlone(step) => Alone(p))
    BY DEF MayRoute, RemovesAlone, Applying
  <2>2. Goto(p, step) /\ row'.state = "revoked" /\ settled' = settled /\ service' = service
    BY <1>5 DEF BeginRevoke, LedgerInv
  <2>. HIDE DEF step
  <2>. QED
    BY <1>0, <2>1, <2>2, GotoKeepsQuiet DEF Alone
<1>6. ASSUME NEW p \in Processes, AdmitLedger(p) PROVE QuietInv'
  <2>. DEFINE step == [at |-> "pod", r |-> proc[p].r]
  <2>1. step.at = "pod" /\ ~RemovesAlone(step)
    BY DEF RemovesAlone
  <2>2. settled' = settled /\ service' = service
    BY <1>6 DEF AdmitLedger
  <2>3. CASE row.state = "revoked"
    BY <1>0, <1>a, <1>6, <2>2, <2>3, GotoKeepsQuiet DEF AdmitLedger
  <2>4. CASE row.state # "revoked"
    <3>1. Goto(p, step)
      BY <1>6, <2>4 DEF AdmitLedger
    <3>. HIDE DEF step
    <3>. QED
      BY <1>0, <2>1, <2>2, <2>4, <3>1, GotoKeepsQuiet
  <2>. QED
    BY <2>3, <2>4
<1>7. ASSUME NEW p \in Processes,
             ApplyPod(p) \/ ApplyService(p) \/ CompareService(p) \/ ReplaceService(p)
             \/ ReconcileClear(p)
      PROVE  QuietInv'
  <2>1. proc[p].at \in Applying \ {"ledger"} /\ MayRoute(proc[p])
    BY <1>7 DEF ApplyPod, ApplyService, CompareService, ReplaceService, ReconcileClear,
       Applying, MayRoute
  <2>2. ~settled
    BY <2>1 DEF QuietInv
  <2>3. proc[p] \in [at : Applying, r : Admissions]
    BY <1>0, <2>1, AppliesAdmission
  <2>4. \A at \in Applying :
          [proc[p] EXCEPT !.at = at].at = at /\ ~RemovesAlone([proc[p] EXCEPT !.at = at])
    BY <2>3 DEF RemovesAlone, Applying
  <2>5. PICK step : Goto(p, step) /\ step.at \notin {"get", "delete"} /\ ~RemovesAlone(step)
    <3>1. CASE ApplyPod(p)
      BY <2>4, <3>1 DEF ApplyPod, Applying
    <3>2. CASE ApplyService(p)
      BY <1>a, <2>4, <3>2 DEF ApplyService, Applying
    <3>3. CASE CompareService(p)
      BY <1>a, <2>4, <3>3 DEF CompareService, Applying
    <3>4. CASE ReplaceService(p)
      BY <1>a, <3>4 DEF ReplaceService
    <3>5. CASE ReconcileClear(p)
      BY <2>4, <3>5 DEF ReconcileClear, Applying
    <3>. QED
      BY <1>7, <3>1, <3>2, <3>3, <3>4, <3>5
  <2>6. row' = row /\ settled' = settled
    BY <1>7 DEF ApplyPod, ApplyService, CompareService, ReplaceService, ReconcileClear
  <2>. QED
    BY <1>0, <2>1, <2>2, <2>5, <2>6, GotoKeepsQuiet
<1>8. ASSUME NEW p \in Processes, DeleteService(p) PROVE QuietInv'
  <2>1. proc[p].alone \in BOOLEAN /\ proc[p].at = "delete"
    BY <1>0, <1>8, DeletesAlone DEF DeleteService
  <2>2. settled' <=> settled \/ RemovesAlone(proc[p])
    BY <1>0, <1>8, <2>1, Zenon DEF DeleteService, RemovesAlone
  <2>3. settled' \in BOOLEAN
    BY <1>0, <1>8, <2>1, Zenon DEF DeleteService
  <2>4. Goto(p, Idle) /\ row' = row /\ service' = None
    BY <1>8 DEF DeleteService
  <2>. QED
    BY <1>a, <2>2, <2>3, <2>4, GotoKeepsQuiet
<1>9. ASSUME NEW p \in Processes, ProcessDies(p) PROVE QuietInv'
  BY <1>0, <1>a, <1>9, GotoKeepsQuiet DEF ProcessDies
<1>10. ASSUME NEW p \in Processes, BeginReconcile(p) PROVE QuietInv'
  <2>. DEFINE step == [at |-> "get", state |-> row.state, alone |-> Alone(p)]
  <2>1. /\ step.at = "get" /\ step.state = row.state
        /\ (MayRoute(step) => row.state = "admitted") /\ (RemovesAlone(step) => Alone(p))
    BY DEF MayRoute, RemovesAlone, Applying
  <2>2. Goto(p, step) /\ row' = row /\ settled' = settled /\ service' = service
    BY <1>10 DEF BeginReconcile
  <2>. HIDE DEF step
  <2>. QED
    BY <1>0, <2>1, <2>2, GotoKeepsQuiet DEF Alone
<1>11. ASSUME NEW p \in Processes, ReconcileGet(p) PROVE QuietInv'
  <2>1. proc[p].at = "get" /\ proc[p].state \in {"admitted", "revoked"}
        /\ proc[p].alone \in BOOLEAN
    BY <1>0, <1>11, GetsState DEF ReconcileGet
  <2>2. row' = row /\ settled' = settled /\ service' = service
    BY <1>11 DEF ReconcileGet
  <2>3. CASE proc[p].state = "revoked"
    <3>. DEFINE step == [at |-> "delete", alone |-> proc[p].alone]
    <3>1. /\ step.at = "delete" /\ ~MayRoute(step)
          /\ RemovesAlone(step) => RemovesAlone(proc[p])
      BY <2>1, <2>3 DEF MayRoute, RemovesAlone, Applying
    <3>2. row.state = "revoked"
      BY <2>1, <2>3 DEF QuietInv
    <3>3. Goto(p, step) \/ Goto(p, Idle)
      BY <1>11, <2>3 DEF ReconcileGet
    <3>. HIDE DEF step
    <3>. QED
      BY <1>0, <1>a, <2>2, <3>1, <3>2, <3>3, GotoKeepsQuiet
  <2>4. CASE proc[p].state = "admitted"
    <3>1. MayRoute(proc[p])
      BY <2>1, <2>4 DEF MayRoute
    <3>2. PICK step : Goto(p, step) /\ step.at \notin {"get", "delete"}
      BY <1>a, <1>11, <2>4 DEF ReconcileGet
    <3>3. ~RemovesAlone(step)
      BY <3>2 DEF RemovesAlone
    <3>. QED
      BY <1>0, <2>2, <3>1, <3>2, <3>3, GotoKeepsQuiet
  <2>. QED
    BY <2>1, <2>3, <2>4
<1>. QED
  BY <1>1, <1>2, <1>3, <1>4, <1>5, <1>6, <1>7, <1>8, <1>9, <1>10, <1>11 DEF ControllerNext

\* Once a lonely process has removed the Service of a revoked session, nothing routes to
\* the session again, and what was routed before was admitted (Controller.admit, revoke,
\* reconcile), for any number of processes, receipts, crashes and outside changes.
THEOREM RevocationsHold == ControllerSpec => []RevokedStaysUnrouted
<1>1. ControllerInit => LedgerInv /\ ServiceInv /\ QuietInv
  <2>. SUFFICES ASSUME ControllerInit PROVE LedgerInv /\ ServiceInv /\ QuietInv
    OBVIOUS
  <2>1. \A p \in Processes : proc[p] = Idle /\ Working(proc[p])
    BY DEF ControllerInit, Working
  <2>2. LedgerInv
    BY <2>1 DEF ControllerInit, LedgerInv, States, Idle
  <2>3. QuietInv
    BY <2>1 DEF ControllerInit, QuietInv, RemovesAlone, MayRoute, Idle
  <2>. QED
    BY <2>2, <2>3 DEF ControllerInit, ServiceInv
<1>2. ASSUME ServiceInv, QuietInv PROVE RevokedStaysUnrouted
  <2>1. settled => ~service.present
    BY <1>2 DEF QuietInv, None
  <2>2. RoutedWasAdmitted
    <3>1. ASSUME service.present, service.admission # <<>>
          PROVE  \E r \in Admissions : service.admission = <<r>>
      <4>1. service # None
        BY <3>1 DEF None
      <4>. QED
        BY <1>2, <3>1, <4>1 DEF ServiceInv
    <3>. QED
      BY <3>1 DEF RoutedWasAdmitted, Admissions, Admits
  <2>. QED
    BY <2>1, <2>2 DEF RevokedStaysUnrouted
<1>3. LedgerInv /\ ServiceInv /\ QuietInv /\ [ControllerNext]_controllerVars
      => ServiceInv' /\ QuietInv'
  BY ServiceInductive, QuietInductive
<1>. QED
  BY <1>1, <1>2, <1>3, LedgerInductive, PTL DEF ControllerSpec

-----------------------------------------------------------------------------
(* Joint signatures                                                        *)

\* Writing the defaults out keeps a manifest a manifest and does not change what is signed.
LEMMA MaterializedKeeps ==
    ASSUME NEW d \in Documents
    PROVE  /\ Materialized(d) \in Documents
           /\ SigningPreImage(Materialized(d)) = SigningPreImage(d)
           /\ HonestRole(Materialized(d)) = HonestRole(d)
<1>1. CASE d.authority = "omitted"
  <2>. DEFINE m == [d EXCEPT !.authority = "builder-and-opaque-joint"]
  <2>1. Materialized(d) = m
    BY <1>1 DEF Materialized
  <2>2. m \in Documents /\ m.authority = "builder-and-opaque-joint"
        /\ m.custodian = d.custodian /\ m.sovereign = d.sovereign
    BY DEF Documents
  <2>. HIDE DEF m
  <2>3. Materialized(m) = m
    BY <2>2 DEF Materialized
  <2>. QED
    BY <2>1, <2>2, <2>3 DEF SigningPreImage, HonestRole
<1>2. CASE d.authority # "omitted"
  BY <1>2 DEF Materialized, SigningPreImage
<1>. QED
  BY <1>1, <1>2

LEMMA CurrentKeeps ==
    ASSUME NEW d \in Documents, NEW bs
    PROVE  /\ WithCurrentValues(d, bs) \in Documents
           /\ bs # {} => WithCurrentValues(d, bs) = d
           /\ HonestRole(WithCurrentValues(d, bs)) = HonestRole(d)
<1>. DEFINE m == [d EXCEPT !.authority = "builder-and-custodian-joint"]
<1>1. m \in Documents /\ m.custodian = d.custodian /\ m.sovereign = d.sovereign
  BY DEF Documents
<1>2. HonestRole(m) = HonestRole(d)
  BY <1>1 DEF HonestRole
<1>. HIDE DEF m
<1>3. WithCurrentValues(d, bs) = IF bs # {} \/ d.authority # "omitted" THEN d ELSE m
  BY DEF WithCurrentValues, m
<1>. QED
  BY <1>1, <1>2, <1>3

\* What a holder of k signs over d, and what it consists of.
LEMMA BlockOfSigner ==
    ASSUME NEW k \in SigningKeys, NEW role \in {"builder", "custodian", "sovereign", "additional"},
           NEW signer \in {"B", "C", "S"}, NEW d \in Documents
    PROVE  /\ SignatureBlock(k, role, signer, d) \in SignatureBlocks
           /\ \A p \in SignatureBlock(k, role, signer, d).parts : <<p[1], p[3]>> = <<k, SigningPreImage(d)>>
<1>1. SigningPreImage(d) \in Documents
  BY MaterializedKeeps DEF SigningPreImage
<1>2. Algorithm[k] \in {"Ed25519", "hybrid"} /\ Components(Algorithm[k]) \subseteq {"value", "classical", "pq"}
  BY DEF Algorithm, Components
<1>. DEFINE parts == {<<k, c, SigningPreImage(d)>> : c \in Components(Algorithm[k])}
<1>3. parts \in SUBSET BlockParts /\ \A p \in parts : p[1] = k /\ p[3] = SigningPreImage(d)
  BY <1>1, <1>2 DEF BlockParts
<1>. HIDE DEF parts
<1>4. SignatureBlock(k, role, signer, d) =
        [role |-> role, signer |-> signer, algorithm |-> Algorithm[k], key |-> k, parts |-> parts]
  BY DEF SignatureBlock, parts
<1>. QED
  BY <1>2, <1>3, <1>4 DEF SignatureBlocks

LEMMA HonestRoles ==
    ASSUME NEW d \in Documents, NEW s \in HonestRole(d)
    PROVE  /\ s[1] \in {"kB", "kC", "kS"} /\ s[1] \in SigningKeys
           /\ s[2] \in {"builder", "custodian", "sovereign", "additional"} /\ s[2] \in RequiredRoles(d)
           /\ s[3] \in {"B", "C", "S"} /\ s[3] = Identity(d, s[2])
           /\ <<s[1], s[2], s[3]>> \in HonestBindings
BY DEF HonestRole, Documents, SigningKeys, RequiredRoles, Identity, HonestBindings

SigningInv == SigningTypes /\ ConsentInv

LEMMA SigningInvInductive == SigningInv /\ [SigningNext]_signingVars => SigningInv'
<1>. SUFFICES ASSUME SigningInv, [SigningNext]_signingVars PROVE SigningInv'
  OBVIOUS
<1>. USE DEF SigningInv
<1>0. doc \in Documents /\ blocks \in SUBSET SignatureBlocks /\ tampers \in Nat
  BY DEF SigningTypes
<1>1. ASSUME NEW k \in SigningKeys, NEW role \in {"builder", "custodian", "sovereign", "additional"},
             NEW signer \in {"B", "C", "S"}, NEW d \in Documents,
             blocks' = blocks \cup {SignatureBlock(k, role, signer, d)},
             consent' = consent \cup {<<k, SigningPreImage(d)>>},
             doc' \in Documents, context' = context, tampers' \in Nat
      PROVE  SigningInv'
  BY <1>0, <1>1, BlockOfSigner DEF SigningTypes, ConsentInv
<1>2. CASE HonestSigning
  <2>1. PICK s \in HonestRole(doc) : CmdSign(s[1], s[2], s[3]) \/ LibrarySign(s[1], s[2], s[3])
    BY <1>2 DEF HonestSigning
  <2>2. CASE CmdSign(s[1], s[2], s[3])
    <3>1. WithCurrentValues(doc, blocks) \in Documents
      BY <1>0, CurrentKeeps
    <3>2. /\ Sign(s[1], s[2], s[3], WithCurrentValues(doc, blocks))
          /\ doc' = Materialized(WithCurrentValues(doc, blocks))
      BY <2>2 DEF CmdSign
    <3>3. doc' \in Documents
      BY <3>1, <3>2, MaterializedKeeps
    <3>4. /\ s[1] \in SigningKeys /\ s[2] \in {"builder", "custodian", "sovereign", "additional"}
          /\ s[3] \in {"B", "C", "S"}
      BY <1>0, HonestRoles
    <3>. QED
      BY <1>0, <1>1, <3>1, <3>2, <3>3, <3>4 DEF Sign
  <2>3. CASE LibrarySign(s[1], s[2], s[3])
    <3>1. doc' \in Documents /\ Sign(s[1], s[2], s[3], doc)
      BY <1>0, <2>3, MaterializedKeeps DEF LibrarySign
    <3>. QED
      BY <1>0, <1>1, <3>1, HonestRoles DEF Sign
  <2>. QED
    BY <2>1, <2>2, <2>3
<1>3. CASE StrangerSigns
  <2>1. PICK s \in HonestRole(doc) : blocks' = blocks \cup {SignatureBlock("kX", s[2], s[3], doc)}
    BY <1>3 DEF StrangerSigns
  <2>2. /\ consent' = consent \cup {<<"kX", SigningPreImage(doc)>>} /\ UNCHANGED <<doc, context>>
        /\ tampers' \in Nat
    BY <1>0, <1>3 DEF StrangerSigns
  <2>3. /\ s[2] \in {"builder", "custodian", "sovereign", "additional"} /\ s[3] \in {"B", "C", "S"}
        /\ "kX" \in SigningKeys
    BY <1>0, HonestRoles DEF SigningKeys
  <2>. QED
    BY <1>0, <1>1, <2>1, <2>2, <2>3
<1>4. CASE Tamper
  <2>1. UNCHANGED <<context, consent>> /\ tampers' \in Nat
    <3>1. UNCHANGED <<context, consent>> /\ tampers' = tampers + 1
      BY <1>4, Zenon DEF Tamper
    <3>. QED
      BY <1>0, <3>1
  <2>2. ASSUME NEW b \in SignatureBlocks, \A p \in b.parts : <<p[1], p[3]>> \in consent,
               blocks' \subseteq blocks \cup {b}, doc' = doc
        PROVE  SigningInv'
    BY <1>0, <2>1, <2>2 DEF SigningTypes, ConsentInv
  <2>3. ASSUME NEW b \in blocks, NEW role \in {"builder", "custodian", "sovereign", "additional"},
               NEW signer \in {"B", "C", "S"}, NEW kept \in {blocks, blocks \ {b}},
               blocks' = kept \cup {[b EXCEPT !.role = role, !.signer = signer]},
               doc' = doc
        PROVE  SigningInv'
    <3>. DEFINE c == [b EXCEPT !.role = role, !.signer = signer]
    <3>1. c \in SignatureBlocks /\ c.parts = b.parts
      BY <1>0 DEF SignatureBlocks
    <3>2. \A p \in c.parts : <<p[1], p[3]>> \in consent
      BY <3>1 DEF ConsentInv
    <3>3. blocks' \subseteq blocks \cup {c}
      BY <2>3
    <3>. HIDE DEF c
    <3>. QED
      BY <2>2, <2>3, <3>1, <3>2, <3>3
  <2>4. ASSUME NEW b \in blocks, NEW p \in UNION {c.parts : c \in blocks},
               NEW alg \in {"Ed25519", "hybrid"},
               blocks' = (blocks \ {b}) \cup {[b EXCEPT !.parts = {p}, !.algorithm = alg]},
               doc' = doc
        PROVE  SigningInv'
    <3>. DEFINE c == [b EXCEPT !.parts = {p}, !.algorithm = alg]
    <3>1. p \in BlockParts /\ <<p[1], p[3]>> \in consent
      BY <1>0 DEF SignatureBlocks, ConsentInv
    <3>2. {p} \in SUBSET BlockParts
      BY <3>1
    <3>3. c \in SignatureBlocks /\ c.parts = {p}
      BY <1>0, <3>2 DEF SignatureBlocks
    <3>4. blocks' \subseteq blocks \cup {c}
      BY <2>4
    <3>. HIDE DEF c
    <3>. QED
      BY <2>2, <2>4, <3>1, <3>3, <3>4
  <2>5. ASSUME NEW b \in blocks, blocks' = blocks \ {b}, doc' = doc PROVE SigningInv'
    BY <1>0, <2>2, <2>5 DEF ConsentInv
  <2>6. ASSUME doc' = [doc EXCEPT !.terms = IF @ = "agreed" THEN "other" ELSE "agreed"], blocks' = blocks
        PROVE  SigningInv'
    <3>1. doc' \in Documents
      BY <1>0, <2>6 DEF Documents
    <3>2. SigningTypes'
      BY <2>1, <2>6, <3>1 DEF SigningTypes
    <3>3. ConsentInv'
      BY <2>1, <2>6 DEF ConsentInv
    <3>. QED
      BY <3>2, <3>3
  <2>. DEFINE Relabel == \E b \in blocks, role \in {"builder", "custodian", "sovereign", "additional"},
                            signer \in {"B", "C", "S"} :
                     /\ \E kept \in {blocks, blocks \ {b}} :
                          blocks' = kept \cup {[b EXCEPT !.role = role, !.signer = signer]}
                     /\ doc' = doc
              CutUp == \E b \in blocks, p \in UNION {c.parts : c \in blocks}, alg \in {"Ed25519", "hybrid"} :
                     /\ blocks' = (blocks \ {b}) \cup {[b EXCEPT !.parts = {p}, !.algorithm = alg]}
                     /\ doc' = doc
              Omit == \E b \in blocks : blocks' = blocks \ {b} /\ doc' = doc
              Edit == /\ doc' = [doc EXCEPT !.terms = IF @ = "agreed" THEN "other" ELSE "agreed"]
                      /\ blocks' = blocks
  <2>7. Relabel \/ CutUp \/ Omit \/ Edit
    BY <1>4, Zenon DEF Tamper
  <2>. HIDE DEF SigningInv
  <2>8. Relabel => SigningInv'
    BY <2>3, ZenonT(40)
  <2>9. CutUp => SigningInv'
    BY <2>4, Zenon
  <2>10. Omit \/ Edit => SigningInv'
    BY <2>5, <2>6
  <2>. HIDE DEF Relabel, CutUp, Omit, Edit
  <2>. QED
    BY <2>7, <2>8, <2>9, <2>10
<1>5. CASE UNCHANGED signingVars
  BY <1>5 DEF signingVars, SigningTypes, ConsentInv
<1>. QED
  BY <1>2, <1>3, <1>4, <1>5 DEF SigningNext

\* The holder of a valid block's key has signed these very fields.
LEMMA ValidBlocksAreConsented ==
    ASSUME SigningInv, NEW b \in blocks, ValidBlock(context, b, doc)
    PROVE  b.key \in context.trusted /\ <<b.key, SigningPreImage(doc)>> \in consent
<1>1. PICK c \in Components(Algorithm[b.key]) : TRUE
  BY DEF Components
<1>2. <<b.key, c, SigningPreImage(doc)>> \in b.parts
  BY <1>1 DEF ValidBlock, VerifyOne, Verifies
<1>. QED
  BY <1>2 DEF ValidBlock, SigningInv, ConsentInv

\* A set with one, two or three different members has as many, at least.
LEMMA Counting ==
    ASSUME NEW S, IsFiniteSet(S)
    PROVE  /\ Cardinality(S) \in Nat
           /\ \A a \in S : Cardinality(S) >= 1
           /\ \A a, b \in S : a # b => Cardinality(S) >= 2
           /\ \A a, b, c \in S : a # b /\ a # c /\ b # c => Cardinality(S) >= 3
<1>1. Cardinality(S) \in Nat
  BY FS_CardinalityType
<1>2. ASSUME NEW a \in S, NEW b \in S, NEW c \in S
      PROVE  /\ Cardinality(S) >= 1 /\ (a # b => Cardinality(S) >= 2)
             /\ (a # b /\ a # c /\ b # c => Cardinality(S) >= 3)
  <2>. DEFINE one == {a}
              two == one \cup {b}
              three == two \cup {c}
  <2>1. IsFiniteSet(one) /\ Cardinality(one) = 1
    BY FS_Singleton
  <2>2. /\ one \subseteq S /\ two \subseteq S /\ three \subseteq S
        /\ (a # b => b \notin one) /\ (a # c /\ b # c => c \notin two)
    OBVIOUS
  <2>3. IsFiniteSet(two) /\ Cardinality(two) = IF b \in one THEN 1 ELSE 2
    <3>. HIDE DEF one
    <3>. QED
      BY <2>1, FS_AddElement
  <2>4. IsFiniteSet(three) /\ Cardinality(three) = IF c \in two THEN Cardinality(two) ELSE Cardinality(two) + 1
    <3>. HIDE DEF two
    <3>. QED
      BY <2>3, FS_AddElement
  <2>. HIDE DEF one, two, three
  <2>5. /\ Cardinality(one) <= Cardinality(S) /\ Cardinality(two) <= Cardinality(S)
        /\ Cardinality(three) <= Cardinality(S)
    BY <2>2, FS_Subset
  <2>. QED
    BY <1>1, <2>1, <2>2, <2>3, <2>4, <2>5
<1>. QED
  BY <1>1, <1>2

LEMMA HowManyRoles ==
    ASSUME NEW d \in Documents
    PROVE  Cardinality(RequiredRoles(d)) = IF d.sovereign THEN 3 ELSE 2
<1>. DEFINE two == {"builder"} \cup {"custodian"}
<1>1. IsFiniteSet(two) /\ Cardinality(two) = 2
  <2>1. IsFiniteSet({"builder"}) /\ Cardinality({"builder"}) = 1
    BY FS_Singleton
  <2>. QED
    BY <2>1, FS_AddElement
<1>2. Cardinality(two \cup {"sovereign"}) = 3
  BY <1>1, FS_AddElement
<1>3. RequiredRoles(d) = IF d.sovereign THEN two \cup {"sovereign"} ELSE two
  BY DEF RequiredRoles
<1>. HIDE DEF two
<1>. QED
  BY <1>1, <1>2, <1>3

LEMMA VerifiedIsJoint == SigningInv => JointlySigned
<1>. SUFFICES ASSUME SigningInv, VerifyManifest(context, blocks, doc) PROVE JointlySigned
  BY DEF JointlySigned
<1>. DEFINE signers == {k \in context.trusted : <<k, SigningPreImage(doc)>> \in consent}
<1>1. doc \in Documents /\ context.trusted = {"kB", "kC", "kS"}
      /\ context.bindings \in {{}, HonestBindings}
  BY DEF SigningInv, SigningTypes
<1>2. PICK key \in [RequiredRoles(doc) -> context.trusted] :
        /\ \A role \in RequiredRoles(doc) : key[role] \in Candidates(context, blocks, doc, role)
        /\ \A q1, q2 \in RequiredRoles(doc) : key[q1] = key[q2] => MayShare(doc, q1, q2)
  BY DEF VerifyManifest, CoveredByDistinctKeys
<1>3. ASSUME NEW role \in RequiredRoles(doc)
      PROVE  /\ key[role] \in signers
             /\ context.bindings # {} => <<key[role], role, Identity(doc, role)>> \in HonestBindings
  <2>1. PICK b \in blocks : /\ ValidBlock(context, b, doc) /\ b.role = role
                            /\ key[role] = b.key
    BY <1>2 DEF Candidates
  <2>2. key[role] \in signers
    BY <2>1, ValidBlocksAreConsented
  <2>3. context.bindings # {} => b.signer = Identity(doc, role) /\ <<b.key, role, b.signer>> \in HonestBindings
    BY <1>1, <2>1 DEF ValidBlock, RoleAuthorized
  <2>. QED
    BY <2>1, <2>2, <2>3
<1>4. IsFiniteSet(signers)
  <2>1. IsFiniteSet(({"kB"} \cup {"kC"}) \cup {"kS"})
    BY FS_Singleton, FS_AddElement
  <2>2. signers \subseteq ({"kB"} \cup {"kC"}) \cup {"kS"}
    BY <1>1
  <2>. QED
    BY <2>1, <2>2, FS_Subset
<1>5. "builder" \in RequiredRoles(doc) /\ "custodian" \in RequiredRoles(doc)
      /\ (doc.sovereign => "sovereign" \in RequiredRoles(doc))
  BY DEF RequiredRoles
<1>6. Cardinality(signers) >= Cardinality(RequiredRoles(doc)) - (IF SharedRoles(doc) THEN 1 ELSE 0)
  <2>. HIDE DEF signers
  <2>1. key["builder"] \in signers /\ key["custodian"] \in signers
        /\ (doc.sovereign => key["sovereign"] \in signers)
    BY <1>3, <1>5
  <2>2. /\ ~SharedRoles(doc) => key["builder"] # key["custodian"]
        /\ doc.sovereign => key["sovereign"] # key["custodian"] /\ key["sovereign"] # key["builder"]
    BY <1>2, <1>5 DEF MayShare
  <2>3. /\ Cardinality(signers) \in Nat /\ Cardinality(signers) >= 1
        /\ ~SharedRoles(doc) => Cardinality(signers) >= 2
        /\ doc.sovereign => Cardinality(signers) >= 2
        /\ doc.sovereign /\ ~SharedRoles(doc) => Cardinality(signers) >= 3
    BY <1>4, <2>1, <2>2, Counting
  <2>4. Cardinality(RequiredRoles(doc)) = IF doc.sovereign THEN 3 ELSE 2
    BY <1>1, HowManyRoles
  <2>. QED
    BY <2>3, <2>4
<1>7. ASSUME context.bindings # {}, NEW s \in HonestRole(doc) PROVE s[1] \in signers
  <2>1. s[2] \in RequiredRoles(doc) /\ s[3] = Identity(doc, s[2]) /\ <<s[1], s[2], s[3]>> \in HonestBindings
    BY <1>1, HonestRoles
  <2>2. key[s[2]] \in signers /\ <<key[s[2]], s[2], s[3]>> \in HonestBindings
    BY <1>3, <1>7, <2>1
  <2>3. key[s[2]] = s[1]
    <3>. HIDE DEF signers
    <3>. QED
      BY <2>1, <2>2 DEF HonestBindings
  <2>. QED
    BY <2>2, <2>3
<1>. QED
  <2>. HIDE DEF signers
  <2>1. signers = {k \in context.trusted : <<k, SigningPreImage(doc)>> \in consent}
    BY DEF signers
  <2>. QED
    BY <1>6, <1>7, <2>1 DEF JointlySigned

LEMMA SigningInitially == SigningInit => SigningInv /\ HonestInv
BY DEF SigningInit, SigningInv, SigningTypes, ConsentInv, HonestInv

\* Whatever is done to the file and however often: a manifest that verifies was signed, over
\* exactly these fields, by as many trusted holders as it has roles, and with bindings by
\* the parties it names (verify_manifest, _roles_with_distinct_keys).
THEOREM VerifiedManifestsAreJoint == SigningSpec => []JointlySigned
BY SigningInitially, SigningInvInductive, VerifiedIsJoint, PTL DEF SigningSpec

\* Honest signers, in any order and mix, leave the earlier blocks good: a file with blocks
\* keeps its signed fields.
LEMMA HonestInductive == SigningInv /\ HonestInv /\ [SigningNext]_signingVars => HonestInv'
<1>. SUFFICES ASSUME SigningInv, HonestInv, [SigningNext]_signingVars, tampers' = 0,
                     NEW b \in blocks'
             PROVE  \E s \in HonestRole(doc') : b = SignatureBlock(s[1], s[2], s[3], doc')
  BY DEF HonestInv
<1>0. doc \in Documents /\ tampers \in Nat
  BY DEF SigningInv, SigningTypes
<1>1. ASSUME NEW d, SigningPreImage(d) = SigningPreImage(doc'), NEW s
      PROVE  SignatureBlock(s[1], s[2], s[3], d) = SignatureBlock(s[1], s[2], s[3], doc')
  BY <1>1 DEF SignatureBlock
<1>2. ASSUME tampers = 0, HonestRole(doc') = HonestRole(doc),
             SigningPreImage(doc) = SigningPreImage(doc'), b \in blocks
      PROVE  \E s \in HonestRole(doc') : b = SignatureBlock(s[1], s[2], s[3], doc')
  BY <1>1, <1>2 DEF HonestInv
<1>3. ASSUME NEW s \in HonestRole(doc), CmdSign(s[1], s[2], s[3])
      PROVE  \E q \in HonestRole(doc') : b = SignatureBlock(q[1], q[2], q[3], doc')
  <2>. DEFINE current == WithCurrentValues(doc, blocks)
  <2>1. /\ blocks' = blocks \cup {SignatureBlock(s[1], s[2], s[3], current)}
        /\ doc' = Materialized(current) /\ tampers' = tampers
    BY <1>3 DEF CmdSign, Sign
  <2>2. /\ current \in Documents /\ HonestRole(current) = HonestRole(doc)
        /\ blocks # {} => current = doc
    BY <1>0, CurrentKeeps
  <2>. HIDE DEF current
  <2>3. HonestRole(doc') = HonestRole(doc) /\ SigningPreImage(doc') = SigningPreImage(current)
    BY <2>1, <2>2, MaterializedKeeps
  <2>4. CASE b \in blocks
    BY <1>2, <2>1, <2>2, <2>3, <2>4
  <2>5. CASE b = SignatureBlock(s[1], s[2], s[3], current)
    BY <1>1, <2>3, <2>5
  <2>. QED
    BY <2>1, <2>4, <2>5
<1>4. ASSUME NEW s \in HonestRole(doc), LibrarySign(s[1], s[2], s[3])
      PROVE  \E q \in HonestRole(doc') : b = SignatureBlock(q[1], q[2], q[3], doc')
  <2>1. /\ blocks' = blocks \cup {SignatureBlock(s[1], s[2], s[3], doc)}
        /\ doc' \in {doc, Materialized(doc)} /\ tampers' = tampers
    BY <1>4 DEF LibrarySign, Sign
  <2>2. HonestRole(doc') = HonestRole(doc) /\ SigningPreImage(doc') = SigningPreImage(doc)
    BY <1>0, <2>1, MaterializedKeeps
  <2>3. CASE b \in blocks
    BY <1>2, <2>1, <2>2, <2>3
  <2>4. CASE b = SignatureBlock(s[1], s[2], s[3], doc)
    BY <1>1, <2>2, <2>4
  <2>. QED
    BY <2>1, <2>3, <2>4
<1>5. CASE StrangerSigns \/ Tamper
  <2>1. tampers' = tampers + 1
    BY <1>5, Zenon DEF StrangerSigns, Tamper
  <2>. QED
    BY <1>0, <2>1
<1>6. CASE UNCHANGED signingVars
  <2>1. UNCHANGED <<doc, blocks, tampers>>
    BY <1>6 DEF signingVars
  <2>. QED
    BY <1>2, <2>1
<1>. QED
  BY <1>3, <1>4, <1>5, <1>6 DEF SigningNext, HonestSigning

LEMMA HonestFilesVerify == SigningInv /\ HonestInv => SigningConverges
<1>. SUFFICES ASSUME SigningInv, HonestInv, tampers = 0,
                     \A s \in HonestRole(doc) : \E b \in blocks : <<b.key, b.role, b.signer>> = s,
                     doc.custodian # "B" \/ SharedRoles(doc)
             PROVE  VerifyManifest(context, blocks, doc)
  BY DEF SigningConverges
<1>0. doc \in Documents /\ context.trusted = {"kB", "kC", "kS"}
      /\ context.bindings \in {{}, HonestBindings}
  BY DEF SigningInv, SigningTypes
<1>1. ASSUME NEW b \in blocks PROVE ValidBlock(context, b, doc) /\ (b.role = "sovereign" => b.signer = "S")
  <2>1. PICK s \in HonestRole(doc) : b = SignatureBlock(s[1], s[2], s[3], doc)
    BY DEF HonestInv
  <2>2. /\ s[1] \in context.trusted /\ s[2] \in RequiredRoles(doc) /\ s[3] = Identity(doc, s[2])
        /\ <<s[1], s[2], s[3]>> \in HonestBindings
    BY <1>0, HonestRoles
  <2>3. /\ b.key = s[1] /\ b.role = s[2] /\ b.signer = s[3] /\ b.algorithm = Algorithm[s[1]]
        /\ b.parts = {<<s[1], c, SigningPreImage(doc)>> : c \in Components(Algorithm[s[1]])}
    BY <2>1 DEF SignatureBlock
  <2>4. VerifyOne(b, doc)
    BY <2>3 DEF VerifyOne, Verifies
  <2>5. RoleAuthorized(context, b, doc)
    BY <1>0, <2>2, <2>3 DEF RoleAuthorized
  <2>6. b.role = "sovereign" => b.signer = "S"
    BY <2>2, <2>3 DEF Identity
  <2>. QED
    BY <2>2, <2>3, <2>4, <2>5, <2>6 DEF ValidBlock
<1>. DEFINE key == [role \in RequiredRoles(doc) |->
                      CASE role = "builder" -> "kB"
                        [] role = "custodian" -> IF doc.custodian = "B" THEN "kB" ELSE "kC"
                        [] role = "sovereign" -> "kS"]
<1>2. \A role \in RequiredRoles(doc) : <<key[role], role, Identity(doc, role)>> \in HonestRole(doc)
  BY <1>0 DEF RequiredRoles, Identity, HonestRole, Documents
<1>3. \A role \in RequiredRoles(doc) : key[role] \in Candidates(context, blocks, doc, role)
  <2>. SUFFICES ASSUME NEW role \in RequiredRoles(doc) PROVE key[role] \in Candidates(context, blocks, doc, role)
    OBVIOUS
  <2>1. PICK b \in blocks : <<b.key, b.role, b.signer>> = <<key[role], role, Identity(doc, role)>>
    BY <1>2
  <2>. HIDE DEF key
  <2>2. b.key = key[role] /\ b.role = role
    BY <2>1
  <2>. QED
    BY <1>1, <2>2 DEF Candidates
<1>4. key \in [RequiredRoles(doc) -> context.trusted]
  BY <1>0 DEF RequiredRoles
<1>5. \A q1, q2 \in RequiredRoles(doc) : key[q1] = key[q2] => MayShare(doc, q1, q2)
  BY DEF RequiredRoles, MayShare
<1>. HIDE DEF key
<1>. QED
  BY <1>1, <1>3, <1>4, <1>5 DEF VerifyManifest, CoveredByDistinctKeys

\* Signers who each use the command line or the library, in any order, mix and number, end
\* with a manifest that verifies (with_current_values, cmd_sign).
THEOREM HonestSigningConverges == SigningSpec => []SigningConverges
BY SigningInitially, SigningInvInductive, HonestInductive, HonestFilesVerify, PTL DEF SigningSpec

-----------------------------------------------------------------------------
(* Lineage                                                                 *)

Paths == Seq(Hashes) \ {<<>>}

LEMMA Generations == Cardinality(Hashes) \in Nat
BY LineageAssumption, FS_CardinalityType

LEMMA FurtherIsPath ==
    ASSUME LineageTypes, NEW c \in Paths
    PROVE  /\ Further(c) \in Paths /\ Last(c) \in Hashes
           /\ Further(c) = c \/ (parent[Last(c)] \in Hashes /\ Further(c) = Append(c, parent[Last(c)]))
<1>1. c \in Seq(Hashes) /\ Len(c) \in Nat /\ Len(c) >= 1
  BY DEF Paths
<1>2. Last(c) \in Hashes
  BY <1>1 DEF Last
<1>3. parent[Last(c)] \in Hashes \cup {Root, Unknown}
  BY <1>2 DEF LineageTypes
<1>4. ASSUME parent[Last(c)] \in Hashes PROVE Append(c, parent[Last(c)]) \in Paths
  <2>1. Append(c, parent[Last(c)]) \in Seq(Hashes) /\ Len(Append(c, parent[Last(c)])) = Len(c) + 1
    BY <1>1, <1>4
  <2>. QED
    BY <1>1, <2>1 DEF Paths
<1>. QED
  BY <1>2, <1>3, <1>4 DEF Further

\* What the two recursive definitions compute, step by step.
LEMMA ChainWalks ==
    ASSUME LineageTypes, NEW h \in Hashes
    PROVE  \E walk \in [0 .. Cardinality(Hashes) -> Paths] :
              /\ walk[0] = <<h>>
              /\ \A n \in 1 .. Cardinality(Hashes) : walk[n] = Further(walk[n - 1])
              /\ Chain(h) = walk[Cardinality(Hashes)]
<1>. DEFINE N == Cardinality(Hashes)
            P(f) == f = [n \in 0 .. N |-> IF n = 0 THEN <<h>> ELSE Further(f[n - 1])]
            walk == CHOOSE f : P(f)
            step == [c \in Paths |-> Further(c)]
<1>1. N \in Nat
  BY Generations
<1>2. Chain(h) = walk[N]
  BY Zenon DEF Chain
<1>. HIDE DEF N
<1>3. <<h>> \in Paths /\ step \in [Paths -> Paths]
  <2>1. <<h>> \in Paths
    BY DEF Paths
  <2>. QED
    BY <2>1, FurtherIsPath
<1>4. PICK f \in [0 .. N -> Paths] : f[0] = <<h>> /\ \A n \in 1 .. N : f[n] = step[f[n - 1]]
  <2>. DEFINE start == <<h>>
  <2>. HIDE DEF step, start
  <2>1. start \in Paths
    BY <1>3 DEF start
  <2>2. \E f : IsWalk(f, Paths, start, step, N)
    BY <1>1, <1>3, <2>1, WalkExists
  <2>. QED
    BY <2>2, Zenon DEF start, IsWalk
<1>5. P(f)
  <2>1. \A n \in 0 .. N : f[n] = IF n = 0 THEN <<h>> ELSE Further(f[n - 1])
    <3>1. \A x \in Paths : step[x] = Further(x)
      OBVIOUS
    <3>2. \A n \in 1 .. N : f[n - 1] \in Paths /\ f[n] = step[f[n - 1]]
      <4>. HIDE DEF step
      <4>. QED
        BY <1>1, <1>4
    <3>. HIDE DEF step
    <3>3. \A n \in 0 .. N : n = 0 \/ n \in 1 .. N
      BY <1>1
    <3>. QED
      BY <1>4, <3>1, <3>2, <3>3, Zenon
  <2>2. f = [n \in 0 .. N |-> f[n]]
    BY <1>4
  <2>. HIDE DEF step
  <2>. QED
    BY <2>1, <2>2, Zenon
<1>6. P(walk)
  <2>. HIDE DEF P
  <2>. QED
    BY <1>5
<1>. HIDE DEF walk
<1>7. walk[0] = <<h>> /\ \A n \in 1 .. N : walk[n] = Further(walk[n - 1])
  <2>1. \A n \in 0 .. N : walk[n] = IF n = 0 THEN <<h>> ELSE Further(walk[n - 1])
    BY <1>6, Zenon
  <2>. HIDE DEF P
  <2>. QED
    BY <1>1, <2>1
<1>8. \A n \in 0 .. N : walk[n] \in Paths
  <2>. DEFINE T == {n \in Nat : walk[n] \in Paths}
  <2>1. 0 \in T
    BY <1>3, <1>7
  <2>2. \A n \in 1 .. N : n - 1 \in T => n \in T
    BY <1>1, <1>7, FurtherIsPath
  <2>. HIDE DEF T
  <2>3. \A n \in 0 .. N : n \in T
    BY <1>1, <2>1, <2>2, BoundedInduction
  <2>. QED
    BY <2>3 DEF T
<1>9. walk \in [0 .. N -> Paths]
  BY <1>6, <1>8, Zenon
<1>. QED
  BY <1>2, <1>7, <1>9 DEF N

LEMMA AncestorsClimb ==
    ASSUME LineageTypes, NEW h \in Hashes
    PROVE  \E up \in [0 .. Cardinality(Hashes) -> SUBSET Hashes] :
              /\ up[0] = {h}
              /\ \A n \in 1 .. Cardinality(Hashes) : up[n] = WithParents(up[n - 1])
              /\ Ancestors(h) = up[Cardinality(Hashes)]
<1>. DEFINE N == Cardinality(Hashes)
            P(f) == f = [n \in 0 .. N |-> IF n = 0 THEN {h} ELSE WithParents(f[n - 1])]
            up == CHOOSE f : P(f)
            step == [A \in SUBSET Hashes |-> WithParents(A)]
<1>1. N \in Nat
  BY Generations
<1>2. Ancestors(h) = up[N]
  BY Zenon DEF Ancestors
<1>. HIDE DEF N
<1>3. {h} \in SUBSET Hashes /\ \A A \in SUBSET Hashes : WithParents(A) \in SUBSET Hashes
  BY DEF WithParents
<1>4. PICK f \in [0 .. N -> SUBSET Hashes] : f[0] = {h} /\ \A n \in 1 .. N : f[n] = step[f[n - 1]]
  <2>1. step \in [SUBSET Hashes -> SUBSET Hashes]
    BY <1>3
  <2>. DEFINE start == {h}
              Sets == SUBSET Hashes
  <2>2. start \in Sets /\ step \in [Sets -> Sets]
    BY <1>3, <2>1
  <2>. HIDE DEF step, start, Sets
  <2>3. \E f : IsWalk(f, Sets, start, step, N)
    BY <1>1, <2>2, WalkExists
  <2>. QED
    BY <2>3, Zenon DEF start, Sets, IsWalk
<1>5. P(f)
  <2>1. \A n \in 0 .. N : f[n] = IF n = 0 THEN {h} ELSE WithParents(f[n - 1])
    <3>1. \A x \in SUBSET Hashes : step[x] = WithParents(x)
      OBVIOUS
    <3>2. \A n \in 1 .. N : f[n - 1] \in SUBSET Hashes /\ f[n] = step[f[n - 1]]
      <4>. HIDE DEF step
      <4>. QED
        BY <1>1, <1>4
    <3>. HIDE DEF step
    <3>3. \A n \in 0 .. N : n = 0 \/ n \in 1 .. N
      BY <1>1
    <3>. QED
      BY <1>4, <3>1, <3>2, <3>3, Zenon
  <2>2. f = [n \in 0 .. N |-> f[n]]
    BY <1>4
  <2>. HIDE DEF step
  <2>. QED
    BY <2>1, <2>2, Zenon
<1>6. P(up)
  <2>. HIDE DEF P
  <2>. QED
    BY <1>5
<1>. HIDE DEF up
<1>7. up[0] = {h} /\ \A n \in 1 .. N : up[n] = WithParents(up[n - 1])
  <2>1. \A n \in 0 .. N : up[n] = IF n = 0 THEN {h} ELSE WithParents(up[n - 1])
    BY <1>6, Zenon
  <2>. HIDE DEF P
  <2>. QED
    BY <1>1, <2>1
<1>8. \A n \in 0 .. N : up[n] \in SUBSET Hashes
  <2>. DEFINE T == {n \in Nat : up[n] \in SUBSET Hashes}
  <2>1. 0 \in T
    BY <1>3, <1>7
  <2>2. \A n \in 1 .. N : n - 1 \in T => n \in T
    BY <1>1, <1>3, <1>7
  <2>. HIDE DEF T
  <2>3. \A n \in 0 .. N : n \in T
    BY <1>1, <2>1, <2>2, BoundedInduction
  <2>. QED
    BY <2>3 DEF T
<1>9. up \in [0 .. N -> SUBSET Hashes]
  BY <1>6, <1>8, Zenon
<1>. QED
  BY <1>2, <1>7, <1>9 DEF N

\* The chain is a path of derived_from from the leaf, inside the ancestors.
LEMMA ChainDescends ==
    ASSUME LineageTypes, NEW h \in Hashes
    PROVE  /\ Chain(h) \in Paths /\ Chain(h)[1] = h
           /\ \A i \in 1 .. (Len(Chain(h)) - 1) : Chain(h)[i + 1] = parent[Chain(h)[i]]
           /\ \A i \in 1 .. Len(Chain(h)) : Chain(h)[i] \in Ancestors(h)
<1>. DEFINE N == Cardinality(Hashes)
<1>1. N \in Nat
  BY Generations
<1>2. PICK walk \in [0 .. N -> Paths] :
         /\ walk[0] = <<h>> /\ Chain(h) = walk[N]
         /\ \A n \in 1 .. N : walk[n] = Further(walk[n - 1])
  BY ChainWalks
<1>3. PICK up \in [0 .. N -> SUBSET Hashes] :
         /\ up[0] = {h} /\ Ancestors(h) = up[N]
         /\ \A n \in 1 .. N : up[n] = WithParents(up[n - 1])
  BY AncestorsClimb
<1>. HIDE DEF N
<1>. DEFINE Good(c, A) == /\ c[1] = h
                          /\ \A i \in 1 .. (Len(c) - 1) : c[i + 1] = parent[c[i]]
                          /\ \A i \in 1 .. Len(c) : c[i] \in A
            T == {n \in Nat : Good(walk[n], up[n])}
<1>4. 0 \in T
  <2>1. Good(<<h>>, {h})
    OBVIOUS
  <2>. HIDE DEF Good
  <2>. QED
    BY <1>2, <1>3, <2>1
<1>5. ASSUME NEW n \in 1 .. N, n - 1 \in T PROVE n \in T
  <2>. DEFINE c == walk[n - 1]
              A == up[n - 1]
              p == parent[Last(c)]
  <2>1. c \in Paths /\ A \in SUBSET Hashes /\ Good(c, A)
    <3>1. n - 1 \in 0 .. N
      BY <1>1
    <3>2. c \in Paths /\ A \in SUBSET Hashes
      BY <1>2, <1>3, <3>1
    <3>. HIDE DEF Good
    <3>. QED
      BY <1>5, <3>2
  <2>2. walk[n] = c \/ (p \in Hashes /\ walk[n] = Append(c, p))
    BY <1>2, <2>1, FurtherIsPath
  <2>3. up[n] = WithParents(A)
    BY <1>3
  <2>. HIDE DEF c, A
  <2>4. c \in Seq(Hashes) /\ Len(c) \in Nat /\ Len(c) >= 1 /\ Last(c) = c[Len(c)]
    BY <2>1 DEF Paths, Last
  <2>5. A \subseteq up[n] /\ (p \in Hashes => p \in up[n])
    BY <2>1, <2>3, <2>4 DEF WithParents
  <2>6. CASE walk[n] = c
    BY <2>1, <2>5, <2>6
  <2>7. CASE p \in Hashes /\ walk[n] = Append(c, p)
    <3>. DEFINE d == Append(c, p)
    <3>1. /\ Len(d) = Len(c) + 1 /\ d[Len(c) + 1] = p
          /\ \A i \in 1 .. Len(c) : d[i] = c[i]
      BY <2>4, <2>7
    <3>. HIDE DEF d
    <3>2. d[1] = h
      BY <2>1, <2>4, <3>1
    <3>3. \A i \in 1 .. (Len(d) - 1) : d[i + 1] = parent[d[i]]
      <4>. SUFFICES ASSUME NEW i \in 1 .. (Len(d) - 1) PROVE d[i + 1] = parent[d[i]]
        OBVIOUS
      <4>1. CASE i = Len(c)
        BY <2>4, <3>1, <4>1
      <4>2. CASE i # Len(c)
        <5>1. i \in 1 .. (Len(c) - 1) /\ i + 1 \in 1 .. Len(c) /\ i \in 1 .. Len(c)
          BY <2>4, <3>1, <4>2
        <5>. QED
          BY <2>1, <3>1, <5>1
      <4>. QED
        BY <4>1, <4>2
    <3>4. \A i \in 1 .. Len(d) : d[i] \in up[n]
      <4>. SUFFICES ASSUME NEW i \in 1 .. Len(d) PROVE d[i] \in up[n]
        OBVIOUS
      <4>1. i \in 1 .. Len(c) \/ i = Len(c) + 1
        BY <2>4, <3>1
      <4>. QED
        BY <2>1, <2>5, <2>7, <3>1, <4>1
    <3>5. Good(d, up[n])
      BY <3>2, <3>3, <3>4
    <3>6. walk[n] = d
      BY <2>7 DEF d
    <3>. HIDE DEF Good
    <3>. QED
      BY <3>5, <3>6
  <2>. QED
    BY <2>2, <2>6, <2>7
<1>6. N \in T
  <2>. HIDE DEF T
  <2>1. \A n \in 0 .. N : n \in T
    BY <1>1, <1>4, <1>5, BoundedInduction
  <2>. QED
    BY <1>1, <2>1
<1>. QED
  BY <1>1, <1>2, <1>3, <1>6 DEF Paths

\* A chain that ends at a root holds every ancestor.
LEMMA AncestorsAreOnChain ==
    ASSUME LineageTypes, NEW h \in Hashes, parent[Last(Chain(h))] = Root
    PROVE  \A a \in Ancestors(h) : \E i \in 1 .. Len(Chain(h)) : Chain(h)[i] = a
<1>. DEFINE N == Cardinality(Hashes)
            c == Chain(h)
            On == {c[i] : i \in 1 .. Len(c)}
<1>1. N \in Nat
  BY Generations
<1>2. PICK up \in [0 .. N -> SUBSET Hashes] :
         /\ up[0] = {h} /\ Ancestors(h) = up[N]
         /\ \A n \in 1 .. N : up[n] = WithParents(up[n - 1])
  BY AncestorsClimb
<1>. HIDE DEF N
<1>3. /\ c \in Seq(Hashes) /\ Len(c) \in Nat /\ Len(c) >= 1 /\ c[1] = h /\ parent[c[Len(c)]] = Root
      /\ \A i \in 1 .. (Len(c) - 1) : c[i + 1] = parent[c[i]]
  BY ChainDescends DEF Paths, Last
<1>. HIDE DEF c
<1>4. ASSUME NEW a \in On, parent[a] \in Hashes PROVE parent[a] \in On
  <2>1. PICK i \in 1 .. Len(c) : c[i] = a
    OBVIOUS
  <2>2. i # Len(c)
    BY <1>3, <1>4, <2>1, LineageAssumption
  <2>3. i \in 1 .. (Len(c) - 1) /\ i + 1 \in 1 .. Len(c)
    BY <1>3, <2>2
  <2>. QED
    BY <1>3, <2>1, <2>3
<1>5. h \in On
  BY <1>3
<1>. HIDE DEF On
<1>. DEFINE T == {n \in Nat : up[n] \subseteq On}
<1>6. 0 \in T
  BY <1>2, <1>5
<1>7. \A n \in 1 .. N : n - 1 \in T => n \in T
  BY <1>1, <1>2, <1>4 DEF WithParents
<1>8. N \in T
  <2>. HIDE DEF T
  <2>1. \A n \in 0 .. N : n \in T
    BY <1>1, <1>6, <1>7, BoundedInduction
  <2>. QED
    BY <1>1, <2>1
<1>. QED
  BY <1>2, <1>8 DEF On, c

LEMMA VerifiedLineageIsSound == LineageTypes => LineageSound
<1>. SUFFICES ASSUME LineageTypes, VerifyLineage(Leaf) PROVE LineageSound
  BY DEF LineageSound
<1>. DEFINE c == Chain(Leaf)
            above == Ancestors(Leaf)
<1>1. /\ parent[Last(c)] = Root
      /\ \A i \in 1 .. (Len(c) - 1) : policy[c[i + 1]] # "none" /\ ~Widens(c[i], c[i + 1])
      /\ \A i \in DOMAIN c : c[i] \notin revoked /\ c[i] \in logged
  BY DEF VerifyLineage
<1>2. /\ c \in Seq(Hashes) /\ Len(c) \in Nat /\ Len(c) >= 1 /\ c[1] = Leaf
      /\ DOMAIN c = 1 .. Len(c)
      /\ \A i \in 1 .. Len(c) : c[i] \in above
  BY LineageAssumption, ChainDescends DEF Paths
<1>3. \A a \in above : \E i \in 1 .. Len(c) : c[i] = a
  BY <1>1, LineageAssumption, AncestorsAreOnChain
<1>. HIDE DEF c, above
<1>4. \A i \in 1 .. Len(c) : envs[Leaf] \subseteq envs[c[i]]
  <2>. DEFINE T == {n \in Nat : envs[Leaf] \subseteq envs[c[n + 1]]}
  <2>1. 0 \in T
    BY <1>2
  <2>2. ASSUME NEW n \in 1 .. (Len(c) - 1), n - 1 \in T PROVE n \in T
    <3>1. envs[c[n]] \subseteq envs[c[n + 1]]
      BY <1>1 DEF Widens
    <3>2. (n - 1) + 1 = n /\ n \in Nat
      BY <1>2
    <3>. QED
      BY <2>2, <3>1, <3>2
  <2>. HIDE DEF T
  <2>3. \A n \in 0 .. (Len(c) - 1) : n \in T
    <3>1. Len(c) - 1 \in Nat
      BY <1>2
    <3>. QED
      BY <2>1, <2>2, <3>1, BoundedInduction
  <2>. SUFFICES ASSUME NEW i \in 1 .. Len(c) PROVE envs[Leaf] \subseteq envs[c[i]]
    OBVIOUS
  <2>4. i - 1 \in 0 .. (Len(c) - 1) /\ (i - 1) + 1 = i
    BY <1>2
  <2>. QED
    BY <2>3, <2>4 DEF T
<1>5. \E r \in above : parent[r] = Root
  <2>1. Last(c) = c[Len(c)] /\ Len(c) \in 1 .. Len(c)
    BY <1>2 DEF Last
  <2>. QED
    BY <1>1, <1>2, <2>1, Zenon
<1>6. above \cap revoked = {} /\ above \subseteq logged
  BY <1>1, <1>2, <1>3
<1>7. ASSUME NEW a \in above \ {Leaf} PROVE policy[a] # "none" /\ envs[Leaf] \subseteq envs[a]
  <2>1. PICK i \in 1 .. Len(c) : c[i] = a
    BY <1>3
  <2>2. i - 1 \in 1 .. (Len(c) - 1) /\ (i - 1) + 1 = i
    BY <1>2, <2>1
  <2>. QED
    BY <1>1, <1>4, <2>1, <2>2
<1>. QED
  BY <1>5, <1>6, <1>7 DEF LineageSound, above

\* For any set of manifests, whatever they name as parents, and any revocations: a lineage
\* that verifies descends from a root, and no ancestor, at any distance, is revoked, missing
\* from the log, forbids derivatives or grants less (verify_lineage).
THEOREM VerifiedLineagesAreSound == LineageSpec => []LineageSound
<1>1. LineageInit => LineageTypes
  BY DEF LineageInit, LineageTypes
<1>2. LineageTypes /\ [LineageNext]_lineageVars => LineageTypes'
  BY DEF LineageTypes, LineageNext, Revoke, LeaveLog, lineageVars
<1>. QED
  BY <1>1, <1>2, VerifiedLineageIsSound, PTL DEF LineageSpec

-----------------------------------------------------------------------------
(* Hardware evidence                                                       *)

\* No certificate of an accepted chain, however long, is for a loose key: one for "held" is
\* not current, and above the last one for "own" there would be a leaf that may issue.
LEMMA NoLooseKeyCertified ==
    ASSUME NEW exception \in BOOLEAN, NEW chain \in ChainsOf(exception), NEW i \in DOMAIN chain
    PROVE  chain[i].key \in {"root", "inter", "wide", "chip"}
<1>. DEFINE N == Len(chain)
            Own == {d \in 0 .. (N - 1) : chain[N - d].key = "own"}
<1>1. PICK n \in 1 .. MaxChain : chain \in [1 .. n -> Certificates]
  BY DEF ChainsOf
<1>2. N = n /\ DOMAIN chain = 1 .. N /\ N \in Nat \ {0}
  BY <1>1, ChainAssumption
<1>3. /\ \A j \in 1 .. N : chain[j] \in Certificates /\ chain[j].current
      /\ \A j \in 1 .. (N - 1) : chain[j].by = chain[j + 1].key /\ MayIssue(chain[j + 1], j - 1)
      /\ chain[N] = TrustedRoot \/ chain[N].by = "root"
  BY <1>1, <1>2 DEF ChainsOf, ChainAccepted, SignedBy, TrustedRoot, Certificate
<1>. HIDE DEF N
<1>4. \A c \in Certificates : c.current =>
        /\ c.key \in {"root", "inter", "wide", "chip", "own"}
        /\ c.key = "own" => c.by \in {"chip", "held", "own"} /\ c # TrustedRoot
        /\ c.key = "chip" /\ c.ca /\ c.certSign => c.by = "inter" /\ c # TrustedRoot
        /\ c.key = "inter" => c.pathLen = 0
  BY DEF Certificates, VendorCerts, OtherCerts, TrustedRoot, Certificate, AnyPath
<1>5. Own = {}
  <2>. SUFFICES ASSUME Own # {} PROVE FALSE
    OBVIOUS
  <2>1. PICK d \in Own : \A e \in Own : d <= e
    <3>1. Own \in SUBSET Nat
      BY <1>2
    <3>. QED
      BY <3>1, LeastNatural
  <2>. DEFINE j == N - d
  <2>2. j \in 1 .. N /\ chain[j].key = "own"
    BY <1>2, <2>1
  <2>3. chain[j].by \in {"chip", "held", "own"} /\ chain[j] # TrustedRoot
    BY <1>3, <1>4, <2>2
  <2>4. j # N
    BY <1>3, <2>3
  <2>5. j + 1 \in 1 .. N /\ j \in 1 .. (N - 1)
    BY <1>2, <2>2, <2>4
  <2>6. chain[j + 1].key # "own"
    <3>1. ASSUME chain[j + 1].key = "own" PROVE FALSE
      <4>1. d - 1 \in 0 .. (N - 1) /\ N - (d - 1) = j + 1
        BY <1>2, <2>1, <2>5
      <4>2. d - 1 \in Own
        BY <3>1, <4>1
      <4>3. d <= d - 1 /\ d \in 0 .. (N - 1)
        BY <2>1, <4>2
      <4>. QED
        BY <1>2, <4>3
    <3>. QED
      BY <3>1
  <2>7. chain[j + 1].key = "chip" /\ MayIssue(chain[j + 1], j - 1)
    BY <1>3, <1>4, <2>3, <2>5, <2>6
  <2>8. chain[j + 1].by = "inter" /\ chain[j + 1] # TrustedRoot
    BY <1>3, <1>4, <2>5, <2>7 DEF MayIssue
  <2>9. j + 1 \in 1 .. (N - 1) /\ (j + 1) + 1 \in 1 .. N
    BY <1>2, <1>3, <2>5, <2>8
  <2>10. chain[(j + 1) + 1].key = "inter" /\ MayIssue(chain[(j + 1) + 1], (j + 1) - 1)
    BY <1>3, <2>8, <2>9
  <2>11. chain[(j + 1) + 1].pathLen = 0
    BY <1>3, <1>4, <2>9, <2>10
  <2>. QED
    BY <2>2, <2>10, <2>11 DEF MayIssue
<1>6. i \in 1 .. N
  BY <1>2
<1>7. chain[i].key # "own"
  <2>1. N - i \in 0 .. (N - 1) /\ N - (N - i) = i
    BY <1>2, <1>6
  <2>. QED
    BY <1>5, <2>1
<1>. QED
  BY <1>3, <1>4, <1>6, <1>7

\* So a trusted leaf key is in the hands of the vendor or of its hardware.
LEMMA TrustedKeysAreKept ==
    /\ TrustedLeafKeys \subseteq {"root", "inter", "wide", "chip"}
    /\ TrustedAzureLeafKeys \subseteq {"root", "inter", "wide", "chip"}
<1>1. ASSUME NEW exception \in BOOLEAN, NEW chain \in ChainsOf(exception)
      PROVE  chain[1].key \in {"root", "inter", "wide", "chip"}
  <2>1. 1 \in DOMAIN chain
    BY DEF ChainsOf
  <2>. QED
    BY <2>1, NoLooseKeyCertified
<1>. QED
  BY <1>1 DEF TrustedLeafKeys, TrustedAzureLeafKeys

\* The keys that certified hardware answers to.
LEMMA ChipIsTrusted == "chip" \in TrustedAzureLeafKeys
<1>. DEFINE leaf == Certificate("chip", "inter", FALSE, AnyPath, FALSE, TRUE, 1)
            issuer == Certificate("inter", "root", TRUE, 0, TRUE, TRUE, 1)
            chain == [i \in 1 .. 2 |-> IF i = 1 THEN leaf ELSE issuer]
<1>1. leaf \in Certificates /\ issuer \in Certificates
  BY DEF Certificates, VendorCerts
<1>2. chain \in [1 .. 2 -> Certificates] /\ Len(chain) = 2 /\ DOMAIN chain = 1 .. 2
      /\ chain[1] = leaf /\ chain[2] = issuer
  <2>. HIDE DEF leaf, issuer
  <2>1. chain \in [1 .. 2 -> Certificates] /\ chain[1] = leaf /\ chain[2] = issuer
    BY <1>1
  <2>2. chain \in Seq(Certificates)
    BY <2>1
  <2>. HIDE DEF chain
  <2>. QED
    BY <2>1, <2>2
<1>3. Loadable(chain, TRUE)
  BY <1>2 DEF Loadable, Certificate
<1>4. ChainAccepted(chain)
  <2>. HIDE DEF chain
  <2>1. /\ leaf.current /\ issuer.current /\ leaf.by = issuer.key /\ issuer.by = TrustedRoot.key
        /\ MayIssue(issuer, 0) /\ MayIssue(TrustedRoot, 1)
    BY DEF Certificate, TrustedRoot, MayIssue, AnyPath
  <2>. HIDE DEF leaf, issuer
  <2>. QED
    BY <1>2, <2>1 DEF ChainAccepted, SignedBy
<1>5. chain \in ChainsOf(TRUE)
  <2>. HIDE DEF chain
  <2>1. 2 \in 1 .. MaxChain
    BY ChainAssumption
  <2>. QED
    BY <1>2, <1>3, <1>4, <2>1 DEF ChainsOf
<1>6. chain[1].key = "chip"
  BY <1>2 DEF Certificate
<1>. QED
  <2>. HIDE DEF chain
  <2>. QED
    BY <1>5, <1>6 DEF TrustedAzureLeafKeys

\* A trusted leaf's signature was made by the hardware.
LEMMA LeafSignatures ==
    ASSUME SignatureInv, NEW leaf \in TrustedLeafKeys \cup TrustedAzureLeafKeys, NEW body,
           Signed(leaf, body)
    PROVE  <<leaf, body>> \in signatures /\ <<leaf, body>> \in HardwareSigns
<1>1. leaf \in {"root", "inter", "wide", "chip"}
  BY TrustedKeysAreKept
<1>2. <<leaf, body>> \in signatures
  BY <1>1 DEF Signed
<1>. QED
  BY <1>1, <1>2 DEF SignatureInv

\* QuoteVerifier.verify accepts an SNP report that the chip signed.
LEMMA SnpAcceptsGenuine ==
    ASSUME SignatureInv, provider = "amd-sev-snp", NEW n, NEW k, VerifyQuote(n, k)
    PROVE  \E r \in SnpReports : /\ <<"chip", r>> \in signatures
                                 /\ r.data = Bind(n, k)
                                 /\ config.launch \/ config.requireLaunch =>
                                      r.image = ApprovedImage /\ k = GuestKey
<1>1. PICK leaf \in TrustedLeafKeys, r \in SnpReports, offset \in {"data", "host"} :
        /\ config.container \/ offset = "data"
        /\ config.container => OffsetAccepted(offset)
        /\ Signed(leaf, r)
        /\ r[offset] = Bind(n, k)
        /\ IF config.launch THEN r.image = ApprovedImage ELSE ~config.requireLaunch
  BY DEF VerifyQuote
<1>2. offset = "data"
  BY <1>1 DEF OffsetAccepted
<1>3. r.data = Bind(n, k)
  BY <1>1, <1>2
<1>4. <<leaf, r>> \in signatures /\ <<leaf, r>> \in HardwareSigns
  BY <1>1, LeafSignatures
<1>5. leaf = "chip" /\ (r.image = ApprovedImage => \E m \in Nonces : r.data = Bind(m, GuestKey))
  BY <1>4 DEF HardwareSigns
<1>6. r.image = ApprovedImage => k = GuestKey
  BY <1>3, <1>5 DEF Bind
<1>. QED
  BY <1>1, <1>3, <1>4, <1>5, <1>6

\* verify_tdx_quote accepts a TD report under a key that Intel's quoting enclave holds; on
\* Azure that enclave signs no caller's nonce.
LEMMA TdxAcceptsGenuine ==
    ASSUME SignatureInv, provider \in {"intel-tdx", "azure-tdx"}, NEW n, NEW k,
           VerifyTdxQuote(n, k)
    PROVE  provider = "intel-tdx" /\ <<"quoting", [data |-> Bind(n, k)]>> \in signatures
<1>1. PICK leaf \in TrustedLeafKeys, qe \in QeReports, td \in TdReports :
        Signed(qe.att, td) /\ Signed(leaf, qe) /\ QeIdentity(qe) /\ td.data = Bind(n, k)
  BY DEF VerifyTdxQuote
<1>2. leaf # "quoting" /\ <<leaf, qe>> \in HardwareSigns
  BY <1>1, LeafSignatures, TrustedKeysAreKept
<1>3. qe.att = "quoting"
  BY <1>1, <1>2 DEF HardwareSigns, QeIdentity
<1>4. <<"quoting", td>> \in signatures
  BY <1>1, <1>3 DEF Signed
<1>5. td = [data |-> Bind(n, k)]
  BY <1>1 DEF TdReports
<1>6. provider # "azure-tdx"
  <2>1. ASSUME provider = "azure-tdx" PROVE FALSE
    <3>1. <<"quoting", td>> \in HardwareSigns
      BY <1>4, <2>1 DEF SignatureInv
    <3>2. td.data = Hcl("vtpm")
      BY <2>1, <3>1 DEF HardwareSigns
    <3>. QED
      BY <1>1, <3>2 DEF Bind, Hcl
  <2>. QED
    BY <2>1
<1>. QED
  BY <1>4, <1>5, <1>6

\* AzureSnpVtpmVerifier accepts a quote of the vTPM whose key the paravisor's report names.
LEMMA AzureAcceptsGenuine ==
    ASSUME SignatureInv, ConfigInv, provider = "azure-snp", NEW n, NEW k, VerifyAzure(n, k)
    PROVE  <<"vtpm", [extra |-> Bind(n, k), pcrs |-> <<ApprovedImage>>]>> \in signatures
<1>1. PICK r \in HclReports, ak \in {"vtpm", "own"}, supplied \in {"vtpm", "own"}, pcrs \in Pcr23Values :
        AzureAccepts(n, k, r, ak, supplied, [extra |-> Bind(n, k), pcrs |-> pcrs])
  BY DEF VerifyAzure
<1>2. PICK leaf \in TrustedAzureLeafKeys : Signed(leaf, r)
  BY <1>1 DEF AzureAccepts
<1>3. leaf = "chip" /\ (r.image = "paravisor" /\ ~r.debug /\ r.vmpl = 0 => r.data = Hcl("vtpm"))
  BY <1>2, LeafSignatures DEF HardwareSigns
<1>4. r.data = Hcl("vtpm")
  BY <1>1, <1>3 DEF AzureAccepts, FromParavisor, ConfigInv
<1>5. ak = "vtpm" /\ supplied = "vtpm"
  BY <1>1, <1>4 DEF AzureAccepts, AkAuthenticated, Hcl
<1>6. pcrs = <<ApprovedImage>>
  BY <1>1 DEF AzureAccepts, ExpectedPcr23
<1>. QED
  BY <1>1, <1>5, <1>6 DEF AzureAccepts, Signed

\* The opaque fields give an identity only when each appears once.
LEMMA GpuIdentity ==
    ASSUME NEW r \in GpuReports, GpuMeasurement(r) = "identity"
    PROVE  r.fields = <<"driver", "vbios">>
<1>1. /\ r.fields \in OpaqueFields
      /\ Cardinality({i \in DOMAIN r.fields : r.fields[i] = "vbios"}) = 1
  BY DEF GpuReports, GpuMeasurement
<1>2. CASE r.fields = <<"driver">>
  <2>1. {i \in DOMAIN r.fields : r.fields[i] = "vbios"} = {}
    BY <1>2
  <2>. QED
    BY <1>1, <2>1, FS_EmptySet
<1>3. CASE r.fields = <<"driver", "vbios", "vbios">>
  <2>. DEFINE S == {i \in DOMAIN r.fields : r.fields[i] = "vbios"}
  <2>1. S = {2} \cup {3}
    BY <1>3
  <2>2. IsFiniteSet({2}) /\ Cardinality({2}) = 1
    BY FS_Singleton
  <2>3. Cardinality({2} \cup {3}) = 2
    BY <2>2, FS_AddElement
  <2>. QED
    BY <1>1, <2>1, <2>3
<1>. QED
  BY <1>1, <1>2, <1>3 DEF OpaqueFields

\* NvidiaGpuVerifier accepts a report of the GPU for this nonce and returns its identity.
LEMMA GpuAcceptsGenuine ==
    ASSUME SignatureInv, provider = "gpu", NEW n, NEW k, NEW identity, VerifyGpu(n, k, identity)
    PROVE  \E r \in GpuReports : /\ <<"chip", r>> \in signatures
                                 /\ r.nonce = n
                                 /\ identity = "identity" => r.fields = <<"driver", "vbios">>
<1>1. PICK leaf \in TrustedLeafKeys, r \in GpuReports :
        Signed(leaf, r) /\ r.nonce = n /\ identity = GpuMeasurement(r)
  BY DEF VerifyGpu
<1>2. <<leaf, r>> \in signatures /\ leaf = "chip"
  BY <1>1, LeafSignatures DEF HardwareSigns
<1>. QED
  BY <1>1, <1>2, GpuIdentity

QuoteInv == ConfigInv /\ SignatureInv /\ AttemptInv /\ BundleInv

\* Every signature but the vTPM's is one the hardware may give.
Requested ==
    \/ AzureTdxCpuQuote \/ PlatformSigns
    \/ \E n \in Nonces : SnpCpuQuote(n) \/ TdxCpuQuote(n) \/ GpuReport(n)

LEMMA RequestsAreAnswered == Requested => \E s \in HardwareSigns : Attest(s)
<1>1. ASSUME AzureTdxCpuQuote PROVE \E s \in HardwareSigns : Attest(s)
  <2>1. <<"quoting", [data |-> Hcl("vtpm")]>> \in HardwareSigns
    BY <1>1 DEF AzureTdxCpuQuote, HardwareSigns
  <2>. QED
    BY <1>1, <2>1 DEF AzureTdxCpuQuote
<1>2. ASSUME NEW n \in Nonces, SnpCpuQuote(n) PROVE \E s \in HardwareSigns : Attest(s)
  <2>1. PICK h \in Bindings :
          Attest(<<"chip", [data |-> Bind(n, GuestKey), host |-> h, image |-> ApprovedImage]>>)
    BY <1>2 DEF SnpCpuQuote
  <2>. DEFINE r == [data |-> Bind(n, GuestKey), host |-> h, image |-> ApprovedImage]
  <2>2. Bind(n, GuestKey) \in Bindings /\ ApprovedImage \in Images
    BY DEF Bindings, TransportKeys, Images
  <2>3. r \in SnpReports /\ r.data = Bind(n, GuestKey)
    BY <2>2 DEF SnpReports
  <2>. HIDE DEF r
  <2>4. <<"chip", r>> \in HardwareSigns
    BY <1>2, <2>3 DEF SnpCpuQuote, HardwareSigns
  <2>. QED
    BY <2>1, <2>4 DEF r
<1>3. ASSUME NEW n \in Nonces, TdxCpuQuote(n) PROVE \E s \in HardwareSigns : Attest(s)
  <2>1. Bind(n, GuestKey) \in Bindings
    BY DEF Bindings, TransportKeys
  <2>2. <<"quoting", [data |-> Bind(n, GuestKey)]>> \in HardwareSigns
    BY <1>3, <2>1 DEF TdxCpuQuote, HardwareSigns
  <2>. QED
    BY <1>3, <2>2 DEF TdxCpuQuote
<1>4. ASSUME NEW n \in Nonces, GpuReport(n) PROVE \E s \in HardwareSigns : Attest(s)
  <2>1. PICK fields \in OpaqueFields : Attest(<<"chip", [nonce |-> n, fields |-> fields]>>)
    BY <1>4 DEF GpuReport
  <2>2. <<"chip", [nonce |-> n, fields |-> fields]>> \in HardwareSigns
    BY <1>4 DEF GpuReport, GpuReports, HardwareSigns
  <2>. QED
    BY <2>1, <2>2
<1>5. ASSUME PlatformSigns PROVE \E s \in HardwareSigns : Attest(s)
  BY <1>5 DEF PlatformSigns
<1>. QED
  BY <1>1, <1>2, <1>3, <1>4, <1>5 DEF Requested

LEMMA QuoteInvInductive == QuoteInv /\ [QuoteNext]_quoteVars => QuoteInv'
<1>. SUFFICES ASSUME QuoteInv, [QuoteNext]_quoteVars PROVE QuoteInv'
  OBVIOUS
<1>. USE DEF QuoteInv
<1>1. ASSUME NEW s \in HardwareSigns, Attest(s) PROVE QuoteInv'
  <2>1. HardwareSigns' = HardwareSigns
    BY <1>1 DEF Attest, HardwareSigns
  <2>. QED
    BY <1>1, <2>1 DEF Attest, ConfigInv, SignatureInv, AttemptInv, BundleInv
<1>2. ASSUME NEW a \in Attempts, NEW n \in Nonces, PcrReset(a, n) PROVE QuoteInv'
  <2>. DEFINE fresh == [at |-> "reset", nonce |-> n, disturbed |-> FALSE]
  <2>1. /\ attempt' = [Disturb(a, attempt) EXCEPT ![a] = fresh]
        /\ fresh \in AttemptStates /\ attempt \in [Attempts -> AttemptStates]
    BY <1>2 DEF PcrReset, AttemptStates, AttemptInv
  <2>2. Disturb(a, attempt) \in [Attempts -> AttemptStates]
    BY <2>1 DEF Disturb, AttemptStates
  <2>3. \A b \in Attempts \ {a} : attempt'[b].disturbed \/ attempt'[b].at = "idle"
    <3>. SUFFICES ASSUME NEW b \in Attempts \ {a} PROVE attempt'[b].disturbed \/ attempt'[b].at = "idle"
      OBVIOUS
    <3>1. attempt'[b] = IF attempt[b].at # "idle" THEN [attempt[b] EXCEPT !.disturbed = TRUE] ELSE attempt[b]
      BY <2>1, <2>2 DEF Disturb
    <3>. QED
      BY <2>1, <3>1 DEF AttemptStates
  <2>4. attempt'[a] = fresh /\ attempt' \in [Attempts -> AttemptStates]
    BY <2>1, <2>2
  <2>5. AttemptInv'
    BY <1>2, <2>3, <2>4 DEF PcrReset, AttemptInv
  <2>. QED
    BY <1>2, <2>5 DEF PcrReset, ConfigInv, SignatureInv, HardwareSigns, BundleInv
<1>3. ASSUME NEW a \in Attempts, PcrExtend(a) PROVE QuoteInv'
  <2>. DEFINE next == [attempt[a] EXCEPT !.at = "extended"]
  <2>1. attempt \in [Attempts -> AttemptStates] /\ next \in AttemptStates
    BY DEF AttemptStates, AttemptInv
  <2>2. Disturb(a, attempt) \in [Attempts -> AttemptStates] /\ Disturb(a, attempt)[a] = attempt[a]
    BY <2>1 DEF Disturb, AttemptStates
  <2>3. attempt' = [Disturb(a, attempt) EXCEPT ![a] = next]
    BY <1>3, <2>2 DEF PcrExtend
  <2>4. \A b \in Attempts \ {a} : attempt'[b].disturbed \/ attempt'[b].at = "idle"
    <3>. SUFFICES ASSUME NEW b \in Attempts \ {a} PROVE attempt'[b].disturbed \/ attempt'[b].at = "idle"
      OBVIOUS
    <3>1. attempt'[b] = IF attempt[b].at # "idle" THEN [attempt[b] EXCEPT !.disturbed = TRUE] ELSE attempt[b]
      BY <2>2, <2>3 DEF Disturb
    <3>. QED
      BY <2>1, <3>1 DEF AttemptStates
  <2>5. attempt'[a] = next /\ attempt' \in [Attempts -> AttemptStates]
    BY <2>1, <2>2, <2>3
  <2>6. next.at = "extended" /\ next.disturbed = attempt[a].disturbed
    BY <2>1 DEF AttemptStates
  <2>7. ~attempt[a].disturbed => pcr23' = <<ApprovedImage>>
    <3>1. ~attempt[a].disturbed => pcr23 = <<>>
      BY <1>3 DEF PcrExtend, AttemptInv
    <3>2. Append(<<>>, ApprovedImage) = <<ApprovedImage>>
      OBVIOUS
    <3>. QED
      BY <1>3, <3>1, <3>2 DEF PcrExtend
  <2>8. AttemptInv'
    BY <1>3, <2>4, <2>5, <2>6, <2>7 DEF AttemptInv, PcrExtend
  <2>. QED
    BY <1>3, <2>8 DEF PcrExtend, ConfigInv, SignatureInv, HardwareSigns, BundleInv
<1>4. ASSUME NEW a \in Attempts, TpmQuote(a) PROVE QuoteInv'
  <2>. DEFINE quote == [extra |-> Bind(attempt[a].nonce, GuestKey), pcrs |-> pcr23]
  <2>1. /\ attempt[a].at = "extended"
        /\ signatures' = signatures \cup {<<"vtpm", quote>>}
        /\ bundles' = IF attempt[a].disturbed THEN bundles
                      ELSE bundles \cup {[nonce |-> attempt[a].nonce, quote |-> quote]}
        /\ attempt' = [attempt EXCEPT ![a] = NoAttempt]
        /\ UNCHANGED <<provider, config, pcr23>>
    BY <1>4 DEF TpmQuote
  <2>2. ~attempt[a].disturbed => pcr23 = <<ApprovedImage>>
    BY <2>1 DEF AttemptInv
  <2>3. BundleInv'
    <3>. SUFFICES ASSUME NEW b \in bundles'
                 PROVE  /\ b.quote = [extra |-> Bind(b.nonce, GuestKey), pcrs |-> <<ApprovedImage>>]
                        /\ <<"vtpm", b.quote>> \in signatures'
      BY DEF BundleInv
    <3>1. CASE b \in bundles
      BY <2>1, <3>1 DEF BundleInv
    <3>2. CASE b \notin bundles
      <4>1. ~attempt[a].disturbed /\ b.nonce = attempt[a].nonce /\ b.quote = quote
        BY <2>1, <3>2
      <4>. QED
        BY <2>1, <2>2, <4>1
    <3>. QED
      BY <3>1, <3>2
  <2>4. AttemptInv'
    BY <2>1 DEF AttemptInv, AttemptStates, NoAttempt
  <2>5. provider = "azure-snp"
    BY <2>1 DEF AttemptInv
  <2>6. SignatureInv'
    BY <2>1, <2>5 DEF SignatureInv, HardwareSigns
  <2>. QED
    BY <2>1, <2>3, <2>4, <2>6 DEF ConfigInv
<1>5. ASSUME NEW a \in Attempts, ToolFails(a) PROVE QuoteInv'
  BY <1>5 DEF ToolFails, ConfigInv, SignatureInv, HardwareSigns, BundleInv, AttemptInv, AttemptStates, NoAttempt
<1>6. ASSUME NEW n \in Nonces, NEW k \in TransportKeys, NEW identity \in Identities,
             Verify(n, k, identity)
      PROVE  QuoteInv'
  BY <1>6 DEF Verify, ConfigInv, SignatureInv, HardwareSigns, BundleInv, AttemptInv
<1>7. CASE UNCHANGED quoteVars
  BY <1>7 DEF quoteVars, ConfigInv, SignatureInv, HardwareSigns, BundleInv, AttemptInv
<1>. QED
  BY <1>1, <1>2, <1>3, <1>4, <1>5, <1>6, <1>7, RequestsAreAnswered DEF QuoteNext, Requested

\* What was accepted stays genuine, because no signature disappears; a new verdict is
\* genuine by the lemma of its evidence format.
LEMMA AcceptedInductive ==
    QuoteInv /\ AcceptedIsGenuine /\ [QuoteNext]_quoteVars => AcceptedIsGenuine'
<1>. SUFFICES ASSUME QuoteInv, AcceptedIsGenuine, [QuoteNext]_quoteVars PROVE AcceptedIsGenuine'
  OBVIOUS
<1>1. ASSUME UNCHANGED <<provider, config, verdict>>, signatures \subseteq signatures'
      PROVE  AcceptedIsGenuine'
  BY <1>1 DEF AcceptedIsGenuine
<1>2. CASE Requested
  BY <1>1, <1>2, RequestsAreAnswered DEF Attest
<1>3. ASSUME NEW a \in Attempts, NEW n \in Nonces, PcrReset(a, n) PROVE AcceptedIsGenuine'
  BY <1>1, <1>3 DEF PcrReset
<1>4. ASSUME NEW a \in Attempts, PcrExtend(a) \/ TpmQuote(a) \/ ToolFails(a)
      PROVE  AcceptedIsGenuine'
  BY <1>1, <1>4 DEF PcrExtend, TpmQuote, ToolFails
<1>5. ASSUME NEW n \in Nonces, NEW k \in TransportKeys, NEW identity \in Identities,
             Verify(n, k, identity)
      PROVE  AcceptedIsGenuine'
  <2>1. /\ verdict' = {[nonce |-> n, key |-> k, identity |-> identity]}
        /\ UNCHANGED <<provider, config, signatures>>
    BY <1>5 DEF Verify
  <2>2. CASE provider = "amd-sev-snp" /\ VerifyQuote(n, k)
    BY <2>1, <2>2, SnpAcceptsGenuine DEF QuoteInv, AcceptedIsGenuine
  <2>3. CASE provider \in {"intel-tdx", "azure-tdx"} /\ VerifyTdxQuote(n, k)
    BY <2>1, <2>3, TdxAcceptsGenuine DEF QuoteInv, AcceptedIsGenuine
  <2>4. CASE provider = "azure-snp" /\ VerifyAzure(n, k)
    BY <2>1, <2>4, AzureAcceptsGenuine DEF QuoteInv, AcceptedIsGenuine
  <2>5. CASE provider = "gpu" /\ VerifyGpu(n, k, identity)
    <3>1. PICK r \in GpuReports : /\ <<"chip", r>> \in signatures
                                  /\ r.nonce = n
                                  /\ identity = "identity" => r.fields = <<"driver", "vbios">>
      BY <2>5, GpuAcceptsGenuine DEF QuoteInv
    <3>. QED
      BY <2>1, <2>5, <3>1 DEF AcceptedIsGenuine
  <2>. QED
    BY <1>5, <2>2, <2>3, <2>4, <2>5 DEF Verify
<1>6. CASE UNCHANGED quoteVars
  BY <1>1, <1>6 DEF quoteVars
<1>. QED
  BY <1>2, <1>3, <1>4, <1>5, <1>6 DEF QuoteNext, Requested

LEMMA QuoteInitially == QuoteInit => QuoteInv /\ AcceptedIsGenuine
<1>. SUFFICES ASSUME QuoteInit PROVE QuoteInv /\ AcceptedIsGenuine
  OBVIOUS
<1>1. ConfigInv
  BY DEF QuoteInit, ConfigInv
<1>2. SignatureInv /\ BundleInv /\ AcceptedIsGenuine
  BY DEF QuoteInit, SignatureInv, BundleInv, AcceptedIsGenuine
<1>3. AttemptInv
  BY DEF QuoteInit, AttemptInv, AttemptStates, NoAttempt
<1>. QED
  BY <1>1, <1>2, <1>3 DEF QuoteInv

\* For any nonces, attempts, chain lengths and numbers of signatures and resets: what a
\* verifier accepts was signed by real hardware for exactly this nonce and key
\* (QuoteVerifier, verify_tdx_quote, AzureSnpVtpmVerifier, NvidiaGpuVerifier).
THEOREM AcceptedEvidenceIsGenuine == QuoteSpec => []AcceptedIsGenuine
BY QuoteInitially, QuoteInvInductive, AcceptedInductive, PTL DEF QuoteSpec

\* A quote of exactly one extend, under the vTPM key the paravisor's report names, passes.
LEMMA CleanBundlesVerify == QuoteInv => UndisturbedAttemptVerifies
<1>. SUFFICES ASSUME QuoteInv PROVE UndisturbedAttemptVerifies
  OBVIOUS
<1>. DEFINE report == [data |-> Hcl("vtpm"), image |-> "paravisor", debug |-> FALSE, vmpl |-> 0]
<1>. SUFFICES ASSUME NEW b \in bundles, <<"chip", report>> \in signatures
             PROVE  AzureAccepts(b.nonce, GuestKey, report, "vtpm", "vtpm", b.quote)
  BY DEF UndisturbedAttemptVerifies
<1>1. /\ b.quote = [extra |-> Bind(b.nonce, GuestKey), pcrs |-> <<ApprovedImage>>]
      /\ <<"vtpm", b.quote>> \in signatures
  BY DEF QuoteInv, BundleInv
<1>2. b.quote.extra = Bind(b.nonce, GuestKey) /\ b.quote.pcrs = <<ApprovedImage>>
  BY <1>1
<1>3. FromParavisor(report) /\ report.data = Hcl("vtpm")
  BY DEF FromParavisor, QuoteInv, ConfigInv
<1>4. "chip" \in TrustedAzureLeafKeys /\ Signed("chip", report) /\ Signed("vtpm", b.quote)
  BY <1>1, ChipIsTrusted DEF Signed
<1>. HIDE DEF report
<1>. QED
  BY <1>2, <1>3, <1>4 DEF AzureAccepts, AkAuthenticated, ExpectedPcr23

\* For any number of attempts: one that no other attempt's TPM commands fell into produces
\* evidence that verifies, whatever earlier ones left in PCR 23 (_measure_workload).
THEOREM UndisturbedAttemptsVerify == QuoteSpec => []UndisturbedAttemptVerifies
BY QuoteInitially, QuoteInvInductive, CleanBundlesVerify, PTL DEF QuoteSpec

-----------------------------------------------------------------------------
(* The guest a key goes to                                                 *)

DeploymentInv == GuestInv /\ ApprovalInv /\ ReportInv /\ ClientInv /\ EnvelopeInv

\* What was justified stays so: the files are read once, and a signed report is not unsigned.
LEMMA JustifiedStays ==
    ASSUME NEW r, NEW k, Justified(r, k),
           UNCHANGED <<pin, filed, policyOf>>, signedReports \subseteq signedReports'
    PROVE  Justified(r, k)'
BY DEF Justified, MayUse, RequirePolicy, Appraised

\* A guest of the reviewed image stays what it is, whatever happens to its other fields.
LEMMA ReportsStayTrue ==
    ASSUME ReportInv, UNCHANGED signedReports,
           \A g \in Guests : guest[g].is.image = Reviewed => guest'[g].is = guest[g].is
    PROVE  ReportInv'
<1>. SUFFICES ASSUME NEW report \in signedReports, report.is.image = Reviewed
             PROVE  /\ report.key \in Guests
                    /\ report = ReportOf(report.key, report.nonce, guest[report.key].is.told, report.key)'
  BY DEF ReportInv
<1>1. /\ report.key \in Guests
      /\ report = ReportOf(report.key, report.nonce, guest[report.key].is.told, report.key)
  BY DEF ReportInv
<1>2. guest[report.key].is.image = Reviewed
  BY <1>1 DEF ReportOf
<1>3. guest'[report.key].is = guest[report.key].is
  BY <1>1, <1>2
<1>. QED
  BY <1>1, <1>3 DEF ReportOf

LEMMA DeploymentInductive == DeploymentInv /\ [DeploymentNext]_deploymentVars => DeploymentInv'
<1>. SUFFICES ASSUME DeploymentInv, [DeploymentNext]_deploymentVars PROVE DeploymentInv'
  OBVIOUS
<1>. USE DEF DeploymentInv
<1>1. ASSUME NEW g \in Guests, BootGuest(g) PROVE DeploymentInv'
  <2>1. PICK is \in Profiles : /\ is.image = Reviewed => ConfigurationMatches(is)
                               /\ guest' = [guest EXCEPT ![g].is = is]
    BY <1>1 DEF BootGuest
  <2>2. GuestInv'
    BY <2>1 DEF GuestInv, GuestStates, ConfigurationMatches
  <2>3. ReportInv'
    <3>1. guest[g].is.image # Reviewed
      BY <1>1 DEF BootGuest, NotBooted, Reviewed
    <3>. QED
      BY <1>1, <2>1, <3>1, ReportsStayTrue DEF BootGuest, GuestInv, GuestStates
  <2>4. \A h \in Guests : guest'[h].key = guest[h].key
    BY <2>1 DEF GuestInv, GuestStates
  <2>5. ClientInv' /\ EnvelopeInv'
    BY <1>1, <2>4, JustifiedStays DEF BootGuest, ClientInv, EnvelopeInv, MayUse, RequirePolicy
  <2>. QED
    BY <1>1, <2>2, <2>3, <2>5 DEF BootGuest, ApprovalInv
<1>2. ASSUME NEW g \in Guests, NEW r \in ClientRuns, AnswerReport(g, r) PROVE DeploymentInv'
  <2>1. GuestInv'
    BY <1>2 DEF AnswerReport, GuestInv, GuestStates, ConfigurationMatches
  <2>2. \A h \in Guests : guest'[h].is = guest[h].is /\ guest'[h].key = guest[h].key
    BY <1>2 DEF AnswerReport, GuestInv, GuestStates
  <2>3. signedReports \subseteq signedReports'
        /\ signedReports' \subseteq signedReports \cup {ReportOf(g, r, guest[g].is.told, g)}
    BY <1>2 DEF AnswerReport
  <2>4. ReportInv'
    <3>. SUFFICES ASSUME NEW report \in signedReports', report.is.image = Reviewed
                 PROVE  /\ report.key \in Guests
                        /\ report = ReportOf(report.key, report.nonce, guest[report.key].is.told, report.key)'
      BY DEF ReportInv
    <3>1. report.key \in Guests
          /\ report = ReportOf(report.key, report.nonce, guest[report.key].is.told, report.key)
      BY <2>3 DEF ReportInv, ReportOf
    <3>. QED
      BY <2>2, <3>1 DEF ReportOf
  <2>5. ClientInv' /\ EnvelopeInv'
    BY <1>2, <2>2, <2>3, JustifiedStays DEF AnswerReport, ClientInv, EnvelopeInv, MayUse, RequirePolicy
  <2>. QED
    BY <1>2, <2>1, <2>4, <2>5 DEF AnswerReport, ApprovalInv
<1>3. ASSUME NEW g \in Guests, NEW r \in ClientRuns, ForeignReport(g, r) PROVE DeploymentInv'
  <2>1. signedReports \subseteq signedReports'
    BY <1>3 DEF ForeignReport
  <2>2. \A report \in signedReports' : report.is.image = Reviewed => report \in signedReports
    BY <1>3 DEF ForeignReport, ReportOf
  <2>3. ReportInv'
    BY <1>3, <2>2 DEF ForeignReport, ReportInv, ReportOf
  <2>4. ClientInv' /\ EnvelopeInv'
    BY <1>3, <2>1, JustifiedStays DEF ForeignReport, ClientInv, EnvelopeInv, MayUse, RequirePolicy
  <2>. QED
    BY <1>3, <2>3, <2>4 DEF ForeignReport, ApprovalInv, GuestInv, ConfigurationMatches
<1>4. ASSUME NEW g \in Guests, NEW e \in posted, AnswerInstall(g, e) PROVE DeploymentInv'
  <2>1. Justified(e.nonce, e.key)
    BY DEF EnvelopeInv
  <2>2. e.nonce \in ClientRuns
    BY <2>1 DEF Justified
  <2>3. PICK k \in {NoRun} \cup ClientRuns :
            /\ guest' = [guest EXCEPT ![g].pending = NoRun, ![g].key = k]
            /\ k # NoRun => k = e.nonce /\ e.key = g
    BY <1>4, <2>2 DEF AnswerInstall, OpenProvisionedKey
  <2>9. guest' \in [Guests -> GuestStates] /\ guest \in [Guests -> GuestStates]
    BY <2>3 DEF GuestInv, GuestStates
  <2>5. \A h \in Guests : guest'[h].is = guest[h].is
    BY <2>3 DEF GuestInv, GuestStates
  <2>4. GuestInv'
    BY <2>5, <2>9, Zenon DEF GuestInv, ConfigurationMatches
  <2>6. ReportInv'
    BY <1>4, <2>5, ReportsStayTrue DEF AnswerInstall
  <2>7. \A h \in Guests : guest'[h].key # NoRun =>
            guest'[h].key = guest[h].key \/ (guest'[h].key = e.nonce /\ e.key = h)
    BY <2>3 DEF GuestInv, GuestStates
  <2>8. ClientInv' /\ EnvelopeInv'
    <3>1. UNCHANGED <<pin, filed, progress, policyOf, signedReports, sealedFor, posted>>
      BY <1>4 DEF AnswerInstall
    <3>2. \A r, c : Justified(r, c) => Justified(r, c)'
      BY <3>1, JustifiedStays
    <3>3. ClientInv'
      BY <3>1, <3>2 DEF ClientInv, MayUse, RequirePolicy
    <3>4. EnvelopeInv'
      BY <2>1, <2>7, <3>1, <3>2, Zenon DEF EnvelopeInv
    <3>. QED
      BY <3>3, <3>4
  <2>. QED
    BY <1>4, <2>4, <2>6, <2>8 DEF AnswerInstall, ApprovalInv
<1>5. ASSUME NEW g \in Guests, NEW e \in posted, ForeignOpen(g, e) PROVE DeploymentInv'
  <2>1. Justified(e.nonce, e.key)
    BY DEF EnvelopeInv
  <2>2. e.nonce \in ClientRuns
    BY <2>1 DEF Justified
  <2>3. GuestInv'
    BY <1>5, <2>2 DEF ForeignOpen, GuestInv, GuestStates, ConfigurationMatches
  <2>4. \A h \in Guests : guest'[h].is = guest[h].is
    BY <1>5 DEF ForeignOpen, GuestInv, GuestStates
  <2>5. ReportInv'
    BY <1>5, <2>4, ReportsStayTrue DEF ForeignOpen
  <2>6. \A h \in Guests : guest'[h].key # NoRun =>
            guest'[h].key = guest[h].key \/ (guest'[h].key = e.nonce /\ e.key = h)
    BY <1>5, <2>2 DEF ForeignOpen, GuestInv, GuestStates
  <2>7. ClientInv' /\ EnvelopeInv'
    BY <1>5, <2>1, <2>6, JustifiedStays DEF ForeignOpen, ClientInv, EnvelopeInv, MayUse, RequirePolicy
  <2>. QED
    BY <1>5, <2>3, <2>5, <2>7 DEF ForeignOpen, ApprovalInv
<1>6. ASSUME NEW r \in ClientRuns,
             ClientStart(r) \/ ClientAcknowledged(r) \/ ClientFails(r)
      PROVE  DeploymentInv'
  <2>1. UNCHANGED <<pin, filed, guest, policyOf, signedReports, sealedFor, posted>>
    BY <1>6 DEF ClientStart, ClientAcknowledged, ClientFails
  <2>2. GuestInv' /\ ApprovalInv' /\ ReportInv' /\ EnvelopeInv'
    BY <2>1, JustifiedStays DEF GuestInv, ConfigurationMatches, ApprovalInv, ReportInv, ReportOf, EnvelopeInv
  <2>3. progress' \in [ClientRuns -> Stages]
    BY <1>6 DEF ClientStart, ClientAcknowledged, ClientFails, ClientInv, Stages
  <2>4. \A q \in ClientRuns : /\ progress'[q] = "sealed" => progress[q] = "sealed"
                              /\ progress'[q] = "challenged" =>
                                    progress[q] = "challenged" \/ MayUse(policyOf[q])
    BY <1>6 DEF ClientStart, ClientAcknowledged, ClientFails, ClientInv
  <2>5. ClientInv'
    BY <2>1, <2>3, <2>4, JustifiedStays DEF ClientInv, MayUse, RequirePolicy
  <2>. QED
    BY <2>2, <2>5
<1>7. ASSUME NEW r \in ClientRuns, ClientProvision(r) PROVE DeploymentInv'
  <2>1. PICK report \in signedReports, key \in Guests :
            Appraised(r, report, key) /\ sealedFor' = [sealedFor EXCEPT ![r] = key]
    BY <1>7 DEF ClientProvision
  <2>2. Justified(r, key)
    BY <1>7, <2>1 DEF ClientProvision, Justified, ClientInv
  <2>3. GuestInv' /\ ApprovalInv' /\ ReportInv' /\ EnvelopeInv'
    BY <1>7, JustifiedStays
    DEF ClientProvision, GuestInv, ConfigurationMatches, ApprovalInv, ReportInv, ReportOf, EnvelopeInv
  <2>4. /\ progress' \in [ClientRuns -> Stages] /\ sealedFor' \in [ClientRuns -> Guests \cup {NoGuest}]
        /\ \A q \in ClientRuns : /\ progress'[q] = "challenged" => progress[q] = "challenged"
                                 /\ progress'[q] = "sealed" =>
                                      \/ q = r /\ sealedFor'[q] = key
                                      \/ progress[q] = "sealed" /\ sealedFor'[q] = sealedFor[q]
    BY <1>7, <2>1 DEF ClientProvision, ClientInv, Stages
  <2>5. ClientInv'
    BY <1>7, <2>2, <2>4, JustifiedStays DEF ClientProvision, ClientInv, MayUse, RequirePolicy
  <2>. QED
    BY <2>3, <2>5
<1>8. ASSUME NEW r \in ClientRuns, ClientPost(r) PROVE DeploymentInv'
  <2>1. Justified(r, sealedFor[r])
    BY <1>8 DEF ClientPost, ClientInv
  <2>2. GuestInv' /\ ApprovalInv' /\ ReportInv' /\ EnvelopeInv'
    BY <1>8, <2>1, JustifiedStays
    DEF ClientPost, GuestInv, ConfigurationMatches, ApprovalInv, ReportInv, ReportOf, EnvelopeInv
  <2>3. /\ progress' \in [ClientRuns -> Stages]
        /\ \A q \in ClientRuns : progress'[q] \in {"challenged", "sealed"} => progress'[q] = progress[q]
    BY <1>8 DEF ClientPost, ClientInv, Stages
  <2>4. ClientInv'
    BY <1>8, <2>3, JustifiedStays DEF ClientPost, ClientInv, MayUse, RequirePolicy
  <2>. QED
    BY <2>2, <2>4
<1>9. CASE UNCHANGED deploymentVars
  <2>1. GuestInv' /\ ApprovalInv' /\ ReportInv'
    BY <1>9 DEF deploymentVars, GuestInv, ConfigurationMatches, ApprovalInv, ReportInv, ReportOf
  <2>2. ClientInv' /\ EnvelopeInv'
    BY <1>9, JustifiedStays DEF deploymentVars, ClientInv, EnvelopeInv, MayUse, RequirePolicy
  <2>. QED
    BY <2>1, <2>2
<1>. QED
  BY <1>1, <1>2, <1>3, <1>4, <1>5, <1>6, <1>7, <1>8, <1>9 DEF DeploymentNext

\* A key is where its envelope was sealed to; the appraised report was signed for a guest
\* of the reviewed image, so it describes the holder of that transport key.
LEMMA JustifiedKeysArrive == DeploymentInv => KeyReachesApproved
<1>. SUFFICES ASSUME DeploymentInv, NEW g \in Guests, guest[g].key # NoRun
             PROVE  /\ pin # NoApproval => policyOf[guest[g].key] = ReviewedPolicy
                    /\ policyOf[guest[g].key].image = Reviewed =>
                         /\ guest[g].is.image = Reviewed
                         /\ guest[g].is.config = policyOf[guest[g].key].config
                         /\ guest[g].is.guest = policyOf[guest[g].key].guest
                         /\ "debug" \notin guest[g].is.guest /\ guest[g].is.vmpl = 0
                         /\ policyOf[guest[g].key].required \subseteq guest[g].is.on
                         /\ policyOf[guest[g].key].forbidden \subseteq guest[g].is.off
                         /\ \A i \in DOMAIN policyOf[guest[g].key].tcb :
                              guest[g].is.tcb[i] >= policyOf[guest[g].key].tcb[i]
  BY DEF KeyReachesApproved
<1>1. Justified(guest[g].key, g)
  BY DEF DeploymentInv, EnvelopeInv
<1>2. ASSUME pin # NoApproval PROVE policyOf[guest[g].key] = ReviewedPolicy
  BY <1>1, <1>2 DEF Justified, MayUse, RequirePolicy, DeploymentInv, ApprovalInv
<1>3. ASSUME policyOf[guest[g].key].image = Reviewed
      PROVE  /\ guest[g].is.image = Reviewed
             /\ guest[g].is.config = policyOf[guest[g].key].config
             /\ guest[g].is.guest = policyOf[guest[g].key].guest
             /\ "debug" \notin guest[g].is.guest /\ guest[g].is.vmpl = 0
             /\ policyOf[guest[g].key].required \subseteq guest[g].is.on
             /\ policyOf[guest[g].key].forbidden \subseteq guest[g].is.off
             /\ \A i \in DOMAIN policyOf[guest[g].key].tcb :
                  guest[g].is.tcb[i] >= policyOf[guest[g].key].tcb[i]
  <2>1. PICK report \in signedReports : Appraised(guest[g].key, report, g)
    BY <1>1 DEF Justified
  <2>2. report = ReportOf(g, report.nonce, guest[g].is.told, g)
    BY <1>3, <2>1 DEF Appraised, DeploymentInv, ReportInv
  <2>3. /\ report.is = [f \in {"image", "version", "guest", "vmpl", "tcb", "on", "off"} |->
                          guest[g].is[f]]
        /\ report.policy = guest[g].is.told
    BY <2>2 DEF ReportOf
  <2>4. /\ report.is.image = guest[g].is.image /\ report.is.guest = guest[g].is.guest
        /\ report.is.vmpl = guest[g].is.vmpl /\ report.is.tcb = guest[g].is.tcb
        /\ report.is.on = guest[g].is.on /\ report.is.off = guest[g].is.off
    BY <2>3
  <2>5. guest[g].is.image = Reviewed /\ guest[g].is.told = policyOf[guest[g].key]
    BY <1>3, <2>1, <2>3, <2>4 DEF Appraised
  <2>6. guest[g].is.config = policyOf[guest[g].key].config
    BY <2>5 DEF DeploymentInv, GuestInv, ConfigurationMatches
  <2>. QED
    BY <2>1, <2>4, <2>5, <2>6 DEF Appraised, TcbMeets
<1>. QED
  BY <1>2, <1>3

\* For any guests, runs, profiles and policies, and any number of reports: a key under a
\* policy for the reviewed image is held only by a guest that is what the policy asks for,
\* and a pinned approval fixes the policy (OwnerProvisioner.provision, BrokerReceiver.install,
\* DeploymentApproval.require_policy).
THEOREM KeysReachApproved == DeploymentSpec => []KeyReachesApproved
<1>1. DeploymentInit => DeploymentInv
  BY DEF DeploymentInit, DeploymentInv, GuestInv, GuestStates, ConfigurationMatches, NotBooted,
         Reviewed, ApprovalInv, DeriveApproval, ReportInv, ClientInv, Stages, EnvelopeInv
<1>. QED
  BY <1>1, DeploymentInductive, JustifiedKeysArrive, PTL DEF DeploymentSpec

-----------------------------------------------------------------------------
(* The conformance suite                                                   *)

LEMMA OrdersAreSequences ==
    ASSUME NEW kind \in {"signature", "lineage"}
    PROVE  DOMAIN CodeOrder(kind) = 1 .. Len(CodeOrder(kind)) /\ Len(CodeOrder(kind)) \in Nat
<1>1. CASE kind = "signature"
  BY <1>1 DEF CodeOrder
<1>2. CASE kind = "lineage"
  BY <1>2 DEF CodeOrder
<1>. QED
  BY <1>1, <1>2

LEMMA CodesAreDistinct ==
    ASSUME NEW kind \in {"signature", "lineage"}, NEW i \in DOMAIN CodeOrder(kind)
    PROVE  /\ CodeOrder(kind)[i] # NoDefect
           /\ \A j \in 1 .. (i - 1) : CodeOrder(kind)[j] # CodeOrder(kind)[i]
<1>. DEFINE order == CodeOrder(kind)
<1>1. CASE kind = "signature"
  <2>1. /\ DOMAIN order = 1 .. 5 /\ Len(order) = 5
        /\ order[1] = "untrusted-key" /\ order[2] = "algorithm-mismatch" /\ order[3] = "bad-signature"
        /\ order[4] = "no-sovereign-signer" /\ order[5] = "missing-role"
    BY <1>1 DEF CodeOrder
  <2>. HIDE DEF order
  <2>2. i \in {1, 2, 3, 4, 5}
    BY <2>1 DEF order
  <2>3. order[i] # NoDefect /\ \A j \in 1 .. (i - 1) : order[j] # order[i]
    BY <2>1, <2>2 DEF NoDefect
  <2>. QED
    BY <2>3 DEF order
<1>2. CASE kind = "lineage"
  <2>1. /\ DOMAIN order = 1 .. 6 /\ Len(order) = 6
        /\ order[1] = "cycle" /\ order[2] = "missing-parent" /\ order[3] = "forbidden"
        /\ order[4] = "widened" /\ order[5] = "revoked" /\ order[6] = "not-logged"
    BY <1>2 DEF CodeOrder
  <2>. HIDE DEF order
  <2>2. i \in {1, 2, 3, 4, 5, 6}
    BY <2>1 DEF order
  <2>3. order[i] # NoDefect /\ \A j \in 1 .. (i - 1) : order[j] # order[i]
    BY <2>1, <2>2 DEF NoDefect
  <2>. QED
    BY <2>3 DEF order
<1>. QED
  BY <1>1, <1>2

\* _first_code names the noticed defect that comes first.
LEMMA FirstCodeIsFirst ==
    ASSUME NEW kind \in {"signature", "lineage"}, NEW noticed, NEW i \in DOMAIN CodeOrder(kind),
           CodeOrder(kind)[i] \in noticed, \A j \in 1 .. (i - 1) : CodeOrder(kind)[j] \notin noticed
    PROVE  FirstCode(kind, noticed) = CodeOrder(kind)[i]
<1>. DEFINE order == CodeOrder(kind)
            First(k) == order[k] \in noticed /\ \A j \in 1 .. (k - 1) : order[j] \notin noticed
            first == CHOOSE k \in DOMAIN order : First(k)
<1>1. DOMAIN order = 1 .. Len(order) /\ Len(order) \in Nat
  BY OrdersAreSequences
<1>2. FirstCode(kind, noticed) = order[first]
  BY DEF FirstCode
<1>3. first \in DOMAIN order /\ First(first)
  <2>1. First(i)
    OBVIOUS
  <2>. HIDE DEF First
  <2>. QED
    BY <2>1
<1>. HIDE DEF first, order
<1>4. first = i
  BY <1>1, <1>3 DEF order
<1>. QED
  BY <1>2, <1>4 DEF order

\* Whatever is noticed, the code reported is that of something noticed.
LEMMA FirstCodeIsNoticed ==
    ASSUME NEW kind \in {"signature", "lineage"}, NEW noticed \in SUBSET Range(CodeOrder(kind)), noticed # {}
    PROVE  FirstCode(kind, noticed) \in noticed
<1>. DEFINE order == CodeOrder(kind)
            T == {i \in DOMAIN order : order[i] \in noticed}
<1>1. DOMAIN order = 1 .. Len(order) /\ Len(order) \in Nat
  BY OrdersAreSequences
<1>2. T \in SUBSET Nat /\ T # {}
  <2>. HIDE DEF order
  <2>1. Range(order) = {order[i] : i \in DOMAIN order}
    BY DEF Range
  <2>2. noticed \subseteq Range(order)
    BY DEF order
  <2>. QED
    BY <1>1, <2>1, <2>2
<1>3. PICK i \in T : \A j \in T : i <= j
  BY <1>2, LeastNatural
<1>4. i \in DOMAIN order /\ order[i] \in noticed /\ \A j \in 1 .. (i - 1) : order[j] \notin noticed
  <2>. HIDE DEF order
  <2>. QED
    BY <1>1, <1>3
<1>. QED
  BY <1>1, <1>4, FirstCodeIsFirst

\* A verifier that looks for everything reports the planted defect: what a defect entails
\* comes later in the order.
LEMMA PlantedIsFirst ==
    ASSUME task = "document", SuiteTypes, checks = Range(CodeOrder(document.kind))
    PROVE  IF document.defect = NoDefect THEN Noticed = {}
           ELSE Noticed # {} /\ FirstCode(document.kind, Noticed) = document.defect
<1>1. PICK k, d, a : /\ k \in {"signature", "lineage"} /\ d \in Range(CodeOrder(k)) \cup {NoDefect}
                     /\ a \in Entailed(k, d) /\ document = [kind |-> k, defect |-> d, also |-> a]
  BY DEF SuiteTypes, DocumentVectors
<1>. DEFINE order == CodeOrder(k)
<1>2. document.kind = k /\ document.defect = d /\ document.also = a
  BY <1>1
<1>3. CASE d = NoDefect
  <2>1. a = {}
    BY <1>1, <1>3 DEF Entailed
  <2>2. NoDefect \notin Range(order)
    BY <1>1, CodesAreDistinct DEF Range
  <2>. QED
    BY <1>2, <1>3, <2>1, <2>2 DEF Noticed
<1>4. CASE d # NoDefect
  <2>1. PICK i \in DOMAIN order : d = order[i]
    BY <1>1, <1>4 DEF Range
  <2>2. d \in Noticed
    BY <1>1, <1>2, <1>4 DEF Noticed
  <2>3. \A j \in 1 .. (i - 1) : order[j] # d /\ order[j] \notin a
    <3>1. \A j \in 1 .. (i - 1) : order[j] # d
      BY <1>1, <2>1, CodesAreDistinct
    <3>2. CASE k = "lineage"
      <4>1. a = {}
        BY <1>1, <3>2 DEF Entailed
      <4>. QED
        BY <3>1, <4>1
    <3>3. CASE k = "signature"
      <4>1. a \subseteq {"missing-role", "no-sovereign-signer"}
        BY <1>1, <1>4, <3>3 DEF Entailed
      <4>2. d = "no-sovereign-signer" => a = {"missing-role"}
        BY <1>1, <1>4, <3>3 DEF Entailed, NoDefect
      <4>3. d = "missing-role" => a = {}
        BY <1>1, <1>4, <3>3 DEF Entailed
      <4>4. /\ DOMAIN order = 1 .. 5 /\ Len(order) = 5
            /\ order[1] = "untrusted-key" /\ order[2] = "algorithm-mismatch" /\ order[3] = "bad-signature"
            /\ order[4] = "no-sovereign-signer" /\ order[5] = "missing-role"
        BY <3>3 DEF CodeOrder
      <4>. HIDE DEF order
      <4>5. i \in {1, 2, 3, 4, 5}
        BY <2>1, <4>4
      <4>6. \A j \in 1 .. (i - 1) : order[j] \notin a
        BY <2>1, <4>1, <4>2, <4>3, <4>4, <4>5
      <4>. QED
        BY <3>1, <4>6
    <3>. QED
      BY <1>1, <3>2, <3>3
  <2>4. \A j \in 1 .. (i - 1) : order[j] \notin Noticed
    BY <1>2, <2>3 DEF Noticed
  <2>5. FirstCode(k, Noticed) = order[i]
    BY <1>1, <2>1, <2>2, <2>4, FirstCodeIsFirst
  <2>. QED
    BY <1>2, <1>4, <2>1, <2>2, <2>5
<1>. QED
  BY <1>3, <1>4

\* What a refusal for a reason says of the checks, and what no refusal says of the facts.
LEMMA RefusalsTell ==
    ASSUME NEW facts, NEW asked
    PROVE  /\ \A check \in AllChecks : FirstRefusal(facts, asked) = check => check \in checks
           /\ FirstRefusal(facts, asked) = "ok" /\ checks = AllChecks =>
                facts["validity"] /\ facts["anchor"] /\ facts["signature"] /\ (asked => facts["binding"])
BY DEF FirstRefusal, AllChecks

\* The first spoilt fact is the reason, when every check is made.
LEMMA FirstSpoiltIsRefused ==
    ASSUME NEW facts, NEW asked, checks = AllChecks
    PROVE  /\ ~facts["validity"] => FirstRefusal(facts, asked) = "validity"
           /\ facts["validity"] /\ ~facts["anchor"] => FirstRefusal(facts, asked) = "anchor"
           /\ facts["validity"] /\ facts["anchor"] /\ ~facts["signature"] =>
                FirstRefusal(facts, asked) = "signature"
           /\ facts["validity"] /\ facts["anchor"] /\ facts["signature"] /\ asked /\ ~facts["binding"] =>
                FirstRefusal(facts, asked) = "binding"
           /\ facts["validity"] /\ facts["anchor"] /\ facts["signature"] /\ (asked => facts["binding"]) =>
                FirstRefusal(facts, asked) = "ok"
BY DEF FirstRefusal, AllChecks

\* The bytes that _mutate flips are signed bytes and signature bytes of every format.
LEMMA FlipsSpoil ==
    ASSUME NEW format \in Formats
    PROVE  /\ ~SurvivesFlip(format, SignedBodyOffset(format))
           /\ ~SurvivesFlip(format, SignatureOffset(format))
<1>1. CASE format = "sev-snp-report"
  BY <1>1 DEF SurvivesFlip, SignedBodyOffset, SignatureOffset, SignedBytes, SignatureBytes, Size
<1>2. CASE format = "tdx-quote"
  BY <1>2 DEF SurvivesFlip, SignedBodyOffset, SignatureOffset, SignedBytes, SignatureBytes, Size
<1>3. CASE format = "nvidia-attestation-report"
  BY <1>3 DEF SurvivesFlip, SignedBodyOffset, SignatureOffset, SignedBytes, SignatureBytes, Size
<1>. QED
  BY <1>1, <1>2, <1>3 DEF Formats

\* In the matrix every case is refused for its reason by a verifier that makes all checks, on
\* a capture in date that binds what it claims where it claims.
LEMMA MatrixIsRefused ==
    ASSUME NEW c \in Captures, Usable(c), checks = AllChecks, c.now <= c.expiry, c.nonce => c.bound,
           ~NonceMisplaced(c), NEW case \in Cases
    PROVE  MatrixRefusal(c, case) = DeclaredReason(case)
<1>. DEFINE when == IF case = "expired-at-now" THEN c.notAfter + 1 ELSE c.now
            facts == Intact(c, when)
            asked == c.nonce \/ case = "wrong-binding"
<1>0. /\ c.format \in Formats /\ c.now \in Nat /\ c.expiry \in Nat /\ c.notAfter = c.expiry
      /\ c.nonce \in BOOLEAN /\ c.bound \in BOOLEAN
  BY SuiteAssumption DEF Captures, Usable
<1>a. facts["anchor"] = TRUE /\ facts["signature"] = TRUE
  BY DEF Intact
<1>b. facts["validity"] = (when <= c.expiry) /\ facts["binding"] = c.bound
  BY DEF Intact
<1>c. when <= c.expiry <=> case # "expired-at-now"
  <2>1. CASE case = "expired-at-now"
    BY <1>0, <2>1
  <2>2. CASE case # "expired-at-now"
    BY <1>0, <2>2
  <2>. QED
    BY <2>1, <2>2
<1>1. /\ facts["validity"] <=> case # "expired-at-now"
      /\ facts["anchor"] /\ facts["signature"] /\ (c.nonce => facts["binding"])
  BY <1>a, <1>b, <1>c, Zenon
<1>2. facts = [validity |-> facts["validity"], anchor |-> facts["anchor"],
               signature |-> facts["signature"], binding |-> facts["binding"]]
  BY DEF Intact
<1>. HIDE DEF facts
<1>3. CASE case = "wrong-binding"
  <2>. DEFINE spoilt == [facts EXCEPT !.binding = FALSE]
  <2>1. MatrixRefusal(c, case) = FirstRefusal(spoilt, TRUE)
    BY <1>3 DEF MatrixRefusal, VendorRefusal, facts
  <2>2. spoilt["validity"] /\ spoilt["anchor"] /\ spoilt["signature"] /\ ~spoilt["binding"]
    BY <1>1, <1>2, <1>3
  <2>. HIDE DEF spoilt
  <2>. QED
    BY <1>3, <2>1, <2>2, FirstSpoiltIsRefused DEF DeclaredReason
<1>4. CASE case \in {"tampered-report", "tampered-signature"}
  <2>. DEFINE spoilt == [facts EXCEPT !.signature = FALSE]
  <2>0. /\ SurvivesFlip(c.format, SignedBodyOffset(c.format)) = FALSE
        /\ SurvivesFlip(c.format, SignatureOffset(c.format)) = FALSE
    BY <1>0, FlipsSpoil, Zenon DEF SurvivesFlip
  <2>1. MatrixRefusal(c, case) = FirstRefusal(spoilt, asked)
    <3>1. CASE case = "tampered-report"
      BY <2>0, <3>1 DEF MatrixRefusal, VendorRefusal, facts
    <3>2. CASE case = "tampered-signature"
      BY <2>0, <3>2 DEF MatrixRefusal, VendorRefusal, facts
    <3>. QED
      BY <1>4, <3>1, <3>2
  <2>2. spoilt["validity"] /\ spoilt["anchor"] /\ ~spoilt["signature"]
    BY <1>1, <1>2, <1>4
  <2>. HIDE DEF spoilt
  <2>. QED
    BY <1>4, <2>1, <2>2, FirstSpoiltIsRefused DEF DeclaredReason
<1>5. CASE case \in {"stripped-chain", "out-of-chain-root"}
  <2>. DEFINE spoilt == [facts EXCEPT !.anchor = FALSE]
  <2>1. MatrixRefusal(c, case) = FirstRefusal(spoilt, asked)
    BY <1>5 DEF MatrixRefusal, VendorRefusal, facts
  <2>2. spoilt["validity"] /\ ~spoilt["anchor"]
    BY <1>1, <1>2, <1>5
  <2>. HIDE DEF spoilt
  <2>. QED
    BY <1>5, <2>1, <2>2, FirstSpoiltIsRefused DEF DeclaredReason
<1>6. CASE case = "expired-at-now"
  <2>1. MatrixRefusal(c, case) = FirstRefusal(facts, asked)
    BY <1>6 DEF MatrixRefusal, VendorRefusal, facts
  <2>. QED
    BY <1>1, <1>6, <2>1, FirstSpoiltIsRefused DEF DeclaredReason
<1>. QED
  BY <1>3, <1>4, <1>5, <1>6 DEF Cases

\* A verifier that passes the matrix makes all the checks.
LEMMA MatrixAsksAll ==
    ASSUME NEW c, checks \in SUBSET AllChecks,
           \A case \in Cases : MatrixRefusal(c, case) = DeclaredReason(case)
    PROVE  checks = AllChecks
<1>1. ASSUME NEW case \in Cases PROVE DeclaredReason(case) \in checks
  <2>1. DeclaredReason(case) \in AllChecks
    BY DEF DeclaredReason, AllChecks
  <2>2. \E facts, asked : MatrixRefusal(c, case) = VendorRefusal(c, facts, asked)
    BY Zenon DEF MatrixRefusal
  <2>3. MatrixRefusal(c, case) # "offset"
    BY <2>1 DEF AllChecks
  <2>4. \E facts, asked : MatrixRefusal(c, case) = FirstRefusal(facts, asked)
    BY <2>2, <2>3, Zenon DEF VendorRefusal
  <2>. QED
    BY <2>1, <2>4, RefusalsTell
<1>2. "wrong-binding" \in Cases /\ "tampered-report" \in Cases /\ "stripped-chain" \in Cases
      /\ "expired-at-now" \in Cases
  BY DEF Cases
<1>3. "binding" \in checks /\ "signature" \in checks /\ "anchor" \in checks /\ "validity" \in checks
  BY <1>1, <1>2 DEF DeclaredReason
<1>. QED
  BY <1>3 DEF AllChecks

\* A vendor capture passes exactly when it should.
LEMMA VendorsAreEarned ==
    ASSUME SuiteTypes, EvaluateVendor
    PROVE  PassIsEarned'
<1>. DEFINE c == capture
            passes == /\ Usable(c)
                      /\ VendorRefusal(c, Intact(c, c.now), c.nonce) = "ok"
                      /\ \A case \in Cases : MatrixRefusal(c, case) = DeclaredReason(case)
<1>1. /\ task = "vendor" /\ task' = task /\ capture' = capture /\ checks' = checks
      /\ judged' = {[ok |-> passes, code |-> NoCode]}
  BY DEF EvaluateVendor
<1>2. c \in Captures /\ checks \in SUBSET AllChecks
  BY <1>1 DEF SuiteTypes
<1>3. /\ checks = AllChecks /\ Usable(c) /\ c.now <= c.expiry /\ (c.nonce => c.bound)
      /\ ~NonceMisplaced(c)
      => passes
  <2>. HAVE /\ checks = AllChecks /\ Usable(c) /\ c.now <= c.expiry /\ (c.nonce => c.bound)
            /\ ~NonceMisplaced(c)
  <2>1. \A case \in Cases : MatrixRefusal(c, case) = DeclaredReason(case)
    BY <1>2, MatrixIsRefused
  <2>. DEFINE facts == Intact(c, c.now)
  <2>2. /\ facts["validity"] = (c.now <= c.expiry) /\ facts["anchor"] = TRUE
        /\ facts["signature"] = TRUE /\ facts["binding"] = c.bound
    BY DEF Intact
  <2>. HIDE DEF facts
  <2>3. facts["validity"] /\ facts["anchor"] /\ facts["signature"] /\ (c.nonce => facts["binding"])
    BY <2>2, Zenon
  <2>4. FirstRefusal(facts, c.nonce) = "ok"
    BY <2>3, FirstSpoiltIsRefused, Zenon
  <2>5. VendorRefusal(c, facts, c.nonce) = "ok"
    BY <2>4, Zenon DEF VendorRefusal
  <2>. QED
    BY <2>1, <2>5 DEF facts
<1>4. passes => /\ checks = AllChecks
                /\ c.now <= c.expiry /\ c.staged /\ (c.kind \in NonceKinds => c.bound)
                /\ ~NonceMisplaced(c)
  <2>. HAVE passes
  <2>1. checks = AllChecks
    BY <1>2, MatrixAsksAll
  <2>. DEFINE facts == Intact(c, c.now)
  <2>2. facts["validity"] = (c.now <= c.expiry) /\ facts["binding"] = c.bound
    BY DEF Intact
  <2>. HIDE DEF facts
  <2>6. VendorRefusal(c, facts, c.nonce) = "ok"
    BY DEF facts
  <2>3. FirstRefusal(facts, c.nonce) = "ok" /\ ~NonceMisplaced(c)
    BY <2>6 DEF VendorRefusal
  <2>4. facts["validity"] /\ (c.nonce => facts["binding"])
    BY <2>1, <2>3, RefusalsTell, Zenon
  <2>5. c.staged /\ (c.kind \in NonceKinds => c.nonce)
    BY Zenon DEF Usable, ShapeOk
  <2>. QED
    BY <2>1, <2>2, <2>3, <2>4, <2>5, Zenon
<1>. HIDE DEF passes
<1>5. \A j \in judged' : j.ok = passes
  BY <1>1
<1>6. (Usable(c) <=> Usable(capture')) /\ (NonceMisplaced(c) <=> NonceMisplaced(capture'))
  BY <1>1, Zenon
<1>. QED
  BY <1>1, <1>3, <1>4, <1>5, <1>6 DEF PassIsEarned, AllChecks, NonceKinds

\* A document passes only for a verifier that looks for its defect.
LEMMA DocumentsAreEarned ==
    ASSUME SuiteTypes, EvaluateDocument
    PROVE  PassIsEarned'
<1>. DEFINE passes == IF document.defect = NoDefect THEN Noticed = {}
                      ELSE Noticed # {} /\ FirstCode(document.kind, Noticed) = document.defect
<1>1. /\ task = "document" /\ task' = task /\ document' = document /\ checks' = checks
      /\ judged' = {[ok |-> passes, code |-> NoCode]}
  BY DEF EvaluateDocument
<1>2. PICK k, d, a : /\ k \in {"signature", "lineage"} /\ d \in Range(CodeOrder(k)) \cup {NoDefect}
                     /\ a \in Entailed(k, d) /\ document = [kind |-> k, defect |-> d, also |-> a]
  BY <1>1 DEF SuiteTypes, DocumentVectors
<1>3. document.kind = k /\ document.defect = d /\ checks \in SUBSET Range(CodeOrder(k))
  BY <1>1, <1>2 DEF SuiteTypes
<1>4. checks = Range(CodeOrder(document.kind)) => passes
  BY <1>1, PlantedIsFirst
<1>5. passes => document.defect \in checks \cup {NoDefect}
  <2>. SUFFICES ASSUME passes, document.defect # NoDefect PROVE document.defect \in checks
    OBVIOUS
  <2>1. Noticed # {} /\ FirstCode(k, Noticed) = document.defect
    BY <1>3
  <2>2. Noticed \in SUBSET Range(CodeOrder(k)) /\ Noticed \subseteq checks
    BY <1>3 DEF Noticed
  <2>3. FirstCode(k, Noticed) \in Noticed
    BY <1>2, <2>1, <2>2, FirstCodeIsNoticed
  <2>. QED
    BY <2>1, <2>2, <2>3
<1>. HIDE DEF passes
<1>6. \A j \in judged' : j.ok = passes
  BY <1>1
<1>. QED
  BY <1>1, <1>4, <1>5, <1>6 DEF PassIsEarned, NoDefect

\* A step of a scenario ends it as declared, or leaves it as expected.
LEMMA StepsAreEarned ==
    ASSUME SuiteTypes, TraceInv, RunStep
    PROVE  TraceInv' /\ PassIsEarned'
<1>. DEFINE n == Len(trace) + 1
            kind == script[n].kind
            atEnd == n = Len(script)
<1>1. /\ task = "scenario" /\ judged = {} /\ Len(trace) < Len(script)
      /\ task' = task /\ script' = script
  BY DEF RunStep
<1>2. PICK doing \in Doings(kind) :
        /\ trace' = Append(trace, doing)
        /\ judged' = {[ok |-> v = Expectation, code |-> v.code] : v \in StepVerdict(kind, doing, atEnd)}
  BY DEF RunStep
<1>3. /\ script \in Seq([kind : StepKinds, code : Codes])
      /\ trace \in Seq({"ok", "wrong"} \cup Codes)
      /\ \A i \in DOMAIN trace : script[i].kind # "refuse" /\ Behaved(script[i].kind, trace[i])
  BY <1>1 DEF SuiteTypes, TraceInv
<1>4. doing \in {"ok", "wrong"} \cup Codes
  BY <1>2 DEF Doings
<1>5. /\ trace' \in Seq({"ok", "wrong"} \cup Codes) /\ Len(trace') = n /\ n \in Nat /\ n <= Len(script)
      /\ DOMAIN trace' = 1 .. n /\ trace'[n] = doing /\ DOMAIN trace = 1 .. (n - 1)
      /\ \A i \in 1 .. (n - 1) : trace'[i] = trace[i]
  BY <1>1, <1>2, <1>3, <1>4
<1>. HIDE DEF n
<1>6. Behaved(kind, doing) => \A i \in DOMAIN trace' : Behaved(script[i].kind, trace'[i])
  <2>. HAVE Behaved(kind, doing)
  <2>. TAKE i \in DOMAIN trace'
  <2>1. CASE i = n
    BY <1>5, <2>1
  <2>2. CASE i # n
    <3>1. i \in 1 .. (n - 1) /\ i \in DOMAIN trace /\ trace'[i] = trace[i]
      BY <1>5, <2>2
    <3>. QED
      BY <1>3, <3>1
  <2>. QED
    BY <2>1, <2>2
<1>7. TraceInv'
  <2>. SUFFICES ASSUME judged' = {}
                PROVE  /\ trace' \in Seq({"ok", "wrong"} \cup Codes) /\ Len(trace') <= Len(script)
                       /\ \A i \in DOMAIN trace' : script[i].kind # "refuse"
                                                 /\ Behaved(script[i].kind, trace'[i])
    BY <1>1 DEF TraceInv
  <2>1. StepVerdict(kind, doing, atEnd) = {}
    <3>. SUFFICES ASSUME NEW v \in StepVerdict(kind, doing, atEnd) PROVE FALSE
      OBVIOUS
    <3>1. [ok |-> v = Expectation, code |-> v.code] \in judged'
      BY <1>2, Zenon
    <3>. QED
      BY <3>1, Zenon
  <2>2. Behaved(kind, doing) /\ ~(kind = "refuse" /\ doing \in Codes)
    BY <2>1 DEF StepVerdict
  <2>3. kind # "refuse"
    BY <2>2 DEF Behaved
  <2>4. \A i \in DOMAIN trace' : script[i].kind # "refuse"
    <3>. TAKE i \in DOMAIN trace'
    <3>1. i = n \/ i \in DOMAIN trace
      BY <1>5
    <3>. QED
      BY <1>3, <2>3, <3>1
  <2>. QED
    BY <1>5, <1>6, <2>2, <2>4
<1>8. ASSUME StepVerdict(kind, doing, atEnd) # {}, Expectation \in StepVerdict(kind, doing, atEnd)
      PROVE  IF Expectation.verdict = "accept"
             THEN \A i \in DOMAIN script : i \in DOMAIN trace' /\ Behaved(script[i].kind, trace'[i])
             ELSE trace'[Len(trace')] = Expectation.code
  <2>1. CASE Expectation.verdict = "accept"
    <3>1. Behaved(kind, doing) /\ atEnd
      BY <1>8, <2>1 DEF StepVerdict
    <3>2. DOMAIN script = 1 .. n
      BY <1>3, <3>1
    <3>. QED
      BY <1>5, <1>6, <2>1, <3>1, <3>2
  <2>2. CASE Expectation.verdict # "accept"
    <3>1. \E i \in DOMAIN script : script[i].kind = "refuse"
      BY <2>2 DEF Expectation
    <3>2. Expectation.code \in Codes
      <4>. DEFINE T == {i \in DOMAIN script : script[i].kind = "refuse"}
                  First(i) == script[i].kind = "refuse" /\ \A j \in 1 .. (i - 1) : script[j].kind # "refuse"
                  first == CHOOSE i \in DOMAIN script : First(i)
      <4>1. DOMAIN script = 1 .. Len(script) /\ Len(script) \in Nat
        BY <1>3
      <4>2. T \in SUBSET Nat /\ T # {}
        BY <3>1, <4>1
      <4>3. PICK i \in T : \A j \in T : i <= j
        BY <4>2, LeastNatural
      <4>4. i \in DOMAIN script /\ First(i)
        BY <4>1, <4>3
      <4>5. first \in DOMAIN script
        BY <4>4, Zenon
      <4>6. Expectation.code = script[first].code
        BY <3>1 DEF Expectation
      <4>. HIDE DEF first
      <4>. DEFINE Steps == [kind : StepKinds, code : Codes]
      <4>7. script[first] \in Steps
        <5>1. script \in Seq(Steps)
          BY <1>3
        <5>. HIDE DEF Steps
        <5>. QED
          BY <4>5, <5>1
      <4>. QED
        BY <4>6, <4>7
    <3>3. Expectation.code = doing
      BY <1>8, <2>2, <3>2, SuiteAssumption DEF StepVerdict
    <3>. QED
      BY <1>5, <2>2, <3>3
  <2>. QED
    BY <2>1, <2>2
<1>9. PassIsEarned'
  <2>1. Expectation' = Expectation
    BY <1>1 DEF Expectation
  <2>2. (\E j \in judged' : j.ok) => Expectation \in StepVerdict(kind, doing, atEnd)
    <3>. SUFFICES ASSUME NEW j \in judged', j.ok PROVE Expectation \in StepVerdict(kind, doing, atEnd)
      OBVIOUS
    <3>1. PICK v \in StepVerdict(kind, doing, atEnd) : j = [ok |-> v = Expectation, code |-> v.code]
      BY <1>2, Zenon
    <3>2. j.ok = (v = Expectation)
      BY <3>1
    <3>. QED
      BY <3>2
  <2>. QED
    BY <1>1, <1>8, <2>1, <2>2 DEF PassIsEarned
<1>. QED
  BY <1>7, <1>9

LEMMA SuiteInductive ==
    ASSUME SuiteTypes, TraceInv, PassIsEarned, [SuiteNext]_suiteVars
    PROVE  SuiteTypes' /\ TraceInv' /\ PassIsEarned'
<1>1. SuiteTypes'
  <2>1. UNCHANGED <<task, document, checks, script, capture>>
    BY DEF SuiteNext, ReportEntry, ScoreResults, EvaluateDocument, RunStep, EvaluateVendor, suiteVars
  <2>. QED
    BY <2>1 DEF SuiteTypes
<1>2. CASE ReportEntry
  <2>1. task = "external" /\ task' = task /\ judged' = {}
    BY <1>2 DEF ReportEntry
  <2>. QED
    BY <1>1, <2>1 DEF TraceInv, PassIsEarned
<1>3. CASE ScoreResults
  <2>1. /\ task = "external" /\ judged' = {[ok |-> SuiteOk, code |-> NoCode]}
        /\ task' = task /\ scope' = scope /\ reported' = reported
    BY <1>3 DEF ScoreResults
  <2>2. (\E j \in judged' : j.ok) => SuiteOk
    BY <2>1
  <2>3. InScope' = InScope
    BY <2>1 DEF InScope
  <2>4. SuiteOk => \A v \in InScope : Answered(v)
    BY DEF SuiteOk, VectorPassed, Scored, Answered
  <2>5. \A v : Answered(v)' <=> Answered(v)
    BY <2>1 DEF Answered
  <2>6. TraceInv'
    BY <2>1 DEF TraceInv
  <2>7. PassIsEarned'
    BY <2>1, <2>2, <2>3, <2>4, <2>5 DEF PassIsEarned
  <2>. QED
    BY <1>1, <2>6, <2>7
<1>4. CASE EvaluateDocument
  <2>1. task' = "document"
    BY <1>4 DEF EvaluateDocument
  <2>. QED
    BY <1>1, <1>4, <2>1, DocumentsAreEarned DEF TraceInv
<1>5. CASE RunStep
  BY <1>1, <1>5, StepsAreEarned
<1>6. CASE EvaluateVendor
  <2>1. task' = "vendor"
    BY <1>6 DEF EvaluateVendor
  <2>. QED
    BY <1>1, <1>6, <2>1, VendorsAreEarned DEF TraceInv
<1>7. CASE UNCHANGED suiteVars
  <2>1. /\ task' = task /\ scope' = scope /\ reported' = reported /\ document' = document
        /\ script' = script /\ trace' = trace /\ checks' = checks /\ capture' = capture
        /\ judged' = judged
    BY <1>7 DEF suiteVars
  <2>2. InScope' = InScope /\ Expectation' = Expectation
    BY <2>1 DEF InScope, Expectation
  <2>. QED
    BY <1>1, <2>1, <2>2 DEF TraceInv, PassIsEarned, Answered
<1>. QED
  BY <1>2, <1>3, <1>4, <1>5, <1>6, <1>7 DEF SuiteNext

\* A pass of the suite is earned, for every corpus, every set of codes and scenarios of every
\* length (score_results, _eval_signature, _eval_lineage, _eval_gate, _eval_custody,
\* _eval_vendor with its refusal matrix).
THEOREM PassesAreEarned == ConformanceSpec => []PassIsEarned
<1>1. SuiteInit => SuiteTypes /\ TraceInv /\ PassIsEarned
  <2>. SUFFICES ASSUME SuiteInit PROVE SuiteTypes /\ TraceInv /\ PassIsEarned
    OBVIOUS
  <2>1. judged = {} /\ trace = <<>>
    BY DEF SuiteInit
  <2>2. SuiteTypes
    <3>1. task = "document" => /\ document \in DocumentVectors
                               /\ checks \in SUBSET Range(CodeOrder(document.kind))
      BY DEF SuiteInit
    <3>2. task = "vendor" => capture \in Captures /\ checks \in SUBSET AllChecks
      BY DEF SuiteInit
    <3>3. ASSUME task = "scenario" PROVE script \in Seq([kind : StepKinds, code : Codes])
      <4>. DEFINE Steps == [kind : StepKinds, code : Codes]
      <4>1. PICK n \in 1 .. MaxSteps : script \in [1 .. n -> Steps]
        BY <3>3 DEF SuiteInit
      <4>. HIDE DEF Steps
      <4>2. script \in Seq(Steps)
        BY <4>1, SuiteAssumption
      <4>. QED
        BY <4>2 DEF Steps
    <3>. QED
      BY <3>1, <3>2, <3>3 DEF SuiteTypes
  <2>3. TraceInv
    BY <2>1, <2>2 DEF TraceInv, SuiteTypes
  <2>4. PassIsEarned
    BY <2>1 DEF PassIsEarned
  <2>. QED
    BY <2>2, <2>3, <2>4
<1>2. SuiteTypes /\ TraceInv /\ PassIsEarned /\ [SuiteNext]_suiteVars
        => SuiteTypes' /\ TraceInv' /\ PassIsEarned'
  BY SuiteInductive
<1>. QED
  BY <1>1, <1>2, PTL DEF ConformanceSpec

-----------------------------------------------------------------------------
(* The memory sweep                                                        *)

\* Division with remainder.
LEMMA Remainder ==
    ASSUME NEW a \in Nat, NEW n \in Nat \ {0}
    PROVE  /\ a \div n \in Nat /\ a % n \in 0 .. (n - 1) /\ a = n * (a \div n) + (a % n)
<1>1. a \div n \in Int /\ a % n \in 0 .. (n - 1)
  OBVIOUS
<1>2. a = n * (a \div n) + (a % n)
  OBVIOUS
<1>. DEFINE q == a \div n
<1>3. q >= 0
  <2>. HIDE DEF q
  <2>1. q < 0 => n * q <= -n
    BY <1>1 DEF q
  <2>. QED
    BY <1>1, <1>2, <2>1 DEF q
<1>. QED
  BY <1>1, <1>2, <1>3

\* A remainder is determined by what it leaves.
LEMMA RemainderIs ==
    ASSUME NEW n \in Nat \ {0}, NEW q \in Nat, NEW r \in 0 .. (n - 1)
    PROVE  (n * q + r) % n = r
<1>. DEFINE x == n * q + r
            p == x \div n
            t == x % n
<1>1. x \in Nat
  OBVIOUS
<1>2. p \in Nat /\ t \in 0 .. (n - 1) /\ x = n * p + t
  BY <1>1, Remainder
<1>. HIDE DEF p, t
<1>3. \A d \in Nat \ {0} : n * d >= n
  OBVIOUS
<1>4. p = q
  <2>1. CASE p > q
    <3>. DEFINE d == p - q
    <3>1. d \in Nat \ {0} /\ n * d >= n
      BY <1>2, <1>3, <2>1
    <3>2. n * p = n * q + n * d
      BY <1>2
    <3>. HIDE DEF d
    <3>. QED
      BY <1>2, <3>1, <3>2
  <2>2. CASE p < q
    <3>. DEFINE d == q - p
    <3>1. d \in Nat \ {0} /\ n * d >= n
      BY <1>2, <1>3, <2>2
    <3>2. n * q = n * p + n * d
      BY <1>2
    <3>. HIDE DEF d
    <3>. QED
      BY <1>2, <3>1, <3>2
  <2>. QED
    BY <1>2, <2>1, <2>2
<1>. QED
  BY <1>2, <1>4 DEF t

LEMMA SmallRemainder ==
    ASSUME NEW n \in Nat \ {0}, NEW r \in 0 .. (n - 1)
    PROVE  r % n = r
BY RemainderIs

\* A multiple is one with remainder 0.
LEMMA Multiple ==
    ASSUME NEW n \in Nat \ {0}, NEW a \in Nat
    PROVE  Divides(n, a) <=> \E q \in Nat : a = n * q
<1>1. ASSUME Divides(n, a) PROVE a = n * (a \div n) /\ a \div n \in Nat
  BY <1>1, Remainder DEF Divides
<1>2. ASSUME NEW q \in Nat, a = n * q PROVE Divides(n, a)
  <2>1. (n * q + 0) % n = 0
    BY RemainderIs
  <2>. QED
    BY <1>2, <2>1 DEF Divides
<1>. QED
  BY <1>1, <1>2

\* Euclid: what makes a multiple of n out of a step coprime to n is itself a multiple of n.
\* The least such factor m divides n, and n = m * d would give the common divisor d.
LEMMA CoprimeSteps ==
    ASSUME NEW n \in Nat \ {0}, NEW s \in 1 .. n, Coprime(s, n), NEW m \in 1 .. (n - 1)
    PROVE  ~Divides(n, m * s)
<1>. DEFINE T == {k \in 1 .. (n - 1) : Divides(n, k * s)}
<1>. SUFFICES ASSUME m \in T PROVE FALSE
  OBVIOUS
<1>1. T \in SUBSET Nat /\ T # {}
  <2>1. T \subseteq 1 .. (n - 1)
    BY Zenon
  <2>. HIDE DEF T
  <2>. QED
    BY <2>1
<1>2. PICK k \in T : \A j \in T : k <= j
  BY <1>1, LeastNatural
<1>3. k \in 1 .. (n - 1) /\ k * s \in Nat /\ Divides(n, k * s)
  BY <1>2
<1>4. PICK q \in Nat : k * s = n * q
  BY <1>3, Multiple
<1>. DEFINE d == n \div k
            r == n % k
<1>5. d \in Nat /\ r \in 0 .. (k - 1) /\ n = k * d + r
  <2>1. n \in Nat /\ k \in Nat \ {0}
    BY <1>3
  <2>. QED
    BY <2>1, Remainder, Zenon
<1>. HIDE DEF d, r
<1>6. r = 0
  <2>. SUFFICES ASSUME r # 0 PROVE FALSE
    OBVIOUS
  <2>1. r \in 1 .. (n - 1) /\ r * s \in Nat
    BY <1>3, <1>5
  <2>2. r * s = n * s - (k * d) * s
    BY <1>3, <1>5
  <2>3. (k * d) * s = (k * s) * d
    BY <1>3, <1>5
  <2>4. (k * s) * d = (n * q) * d
    BY <1>4
  <2>5. (n * q) * d = n * (q * d)
    BY <1>4, <1>5
  <2>6. r * s = n * s - n * (q * d)
    BY <2>2, <2>3, <2>4, <2>5
  <2>. DEFINE e == s - q * d
  <2>7. e \in Int /\ n * s - n * (q * d) = n * e
    BY <1>4, <1>5
  <2>. HIDE DEF e
  <2>8. e \in Nat
    BY <2>1, <2>6, <2>7
  <2>9. r \in T
    BY <2>1, <2>6, <2>7, <2>8, Multiple
  <2>. QED
    BY <1>2, <1>5, <2>9
<1>7. n = k * d /\ d \in 2 .. n
  <2>1. n = k * d
    BY <1>3, <1>5, <1>6
  <2>2. d # 0 /\ d # 1
    BY <1>3, <1>5, <2>1
  <2>3. k * d >= d
    BY <1>3, <1>5
  <2>. QED
    BY <1>5, <2>1, <2>2, <2>3
<1>8. s = d * q
  <2>1. k * s = k * (d * q)
    <3>1. (k * d) * q = k * (d * q)
      BY <1>3, <1>4, <1>5
    <3>. QED
      BY <1>4, <1>7, <3>1
  <2>. DEFINE x == d * q
  <2>2. x \in Nat
    BY <1>4, <1>5
  <2>. HIDE DEF x
  <2>3. k * (s - x) = 0
    BY <1>3, <2>1, <2>2 DEF x
  <2>4. s - x = 0
    BY <1>3, <2>2, <2>3
  <2>. QED
    BY <2>2, <2>4 DEF x
<1>9. Divides(d, s) /\ Divides(d, n)
  <2>1. n = d * k
    BY <1>3, <1>5, <1>7
  <2>. QED
    <3>1. Divides(d, s)
      BY <1>4, <1>7, <1>8, Multiple
    <3>2. Divides(d, n)
      BY <1>3, <1>7, <2>1, Multiple
    <3>. QED
      BY <3>1, <3>2
<1>. QED
  BY <1>7, <1>9 DEF Coprime

\* The loop that looks for a step: where it goes from a step, and where it ends.
NextStep(n, s) == IF Coprime(s, n) THEN s ELSE OrOne((s + 1) % n)

LEMMA OneIsCoprime ==
    ASSUME NEW n \in Nat \ {0}
    PROVE  Coprime(1, n)
<1>. SUFFICES ASSUME NEW d \in 2 .. n PROVE ~Divides(d, 1)
  BY DEF Coprime
<1>1. d \in Nat \ {0} /\ 1 \in 0 .. (d - 1)
  OBVIOUS
<1>2. 1 % d = 1
  BY <1>1, SmallRemainder
<1>. QED
  BY <1>2 DEF Divides

\* One turn of the loop stays in the range, and goes up by one until it meets a step that
\* is coprime; at the end of the range it comes to 1, which is.
LEMMA NextStepGoesUp ==
    ASSUME NEW n \in Nat \ {0}, NEW s \in 1 .. n
    PROVE  /\ NextStep(n, s) \in 1 .. n
           /\ Coprime(s, n) => NextStep(n, s) = s
           /\ ~Coprime(s, n) => NextStep(n, s) = s + 1 \/ Coprime(NextStep(n, s), n)
<1>1. CASE Coprime(s, n)
  BY <1>1 DEF NextStep
<1>2. CASE ~Coprime(s, n) /\ s + 1 \in 0 .. (n - 1)
  <2>1. (s + 1) % n = s + 1
    BY <1>2, SmallRemainder
  <2>2. NextStep(n, s) = s + 1
    BY <1>2, <2>1 DEF NextStep, OrOne
  <2>. QED
    BY <1>2, <2>2
<1>3. CASE ~Coprime(s, n) /\ s + 1 = n
  <2>1. (n * 1 + 0) % n = 0
    BY RemainderIs
  <2>2. (s + 1) % n = 0
    BY <1>3, <2>1
  <2>3. NextStep(n, s) = 1
    BY <1>3, <2>2 DEF NextStep, OrOne
  <2>. QED
    BY <1>3, <2>3, OneIsCoprime
<1>4. CASE ~Coprime(s, n) /\ s = n
  <2>1. CASE n = 1
    BY <1>4, <2>1, OneIsCoprime
  <2>2. CASE n # 1
    <3>1. 1 \in 0 .. (n - 1)
      BY <2>2
    <3>2. (n * 1 + 1) % n = 1
      BY <3>1, RemainderIs
    <3>3. (s + 1) % n = 1
      BY <1>4, <3>2
    <3>4. NextStep(n, s) = 1
      BY <1>4, <3>3 DEF NextStep, OrOne
    <3>. QED
      BY <1>4, <3>4, OneIsCoprime
  <2>. QED
    BY <2>1, <2>2
<1>. QED
  BY <1>1, <1>2, <1>3, <1>4

\* The loop ends: the step is coprime to the number of pages.
LEMMA StepIsCoprime ==
    ASSUME NEW n \in Nat \ {0}, NEW drawn \in Nat
    PROVE  Step(n, drawn) \in 1 .. n /\ Coprime(Step(n, drawn), n)
<1>. DEFINE a == OrOne(drawn % n)
            S == 1 .. n
            P(f) == f = [tries \in 0 .. n |->
                            IF tries = 0 THEN a
                            ELSE IF Coprime(f[tries - 1], n) THEN f[tries - 1]
                                 ELSE OrOne((f[tries - 1] + 1) % n)]
            walk == CHOOSE f : P(f)
            step == [s \in S |-> NextStep(n, s)]
<1>1. Step(n, drawn) = walk[n]
  BY Zenon DEF Step
<1>2. a \in S /\ step \in [S -> S]
  <2>1. drawn % n \in 0 .. (n - 1)
    BY Remainder
  <2>2. a \in S
    BY <2>1 DEF OrOne
  <2>. QED
    BY <2>2, NextStepGoesUp
<1>. HIDE DEF a
<1>3. PICK f : f \in [0 .. n -> S] /\ f[0] = a /\ \A k \in 1 .. n : f[k] = step[f[k - 1]]
  <2>. HIDE DEF S, step
  <2>1. \E f : IsWalk(f, S, a, step, n)
    BY <1>2, WalkExists
  <2>. QED
    BY <2>1, Zenon DEF IsWalk
<1>4. P(f)
  <2>1. \A k \in 1 .. n : f[k - 1] \in S /\ f[k] = NextStep(n, f[k - 1])
    <3>1. \A x \in S : step[x] = NextStep(n, x)
      OBVIOUS
    <3>2. \A k \in 1 .. n : f[k - 1] \in S /\ f[k] = step[f[k - 1]]
      <4>. HIDE DEF step
      <4>1. \A k \in 1 .. n : k - 1 \in 0 .. n
        OBVIOUS
      <4>. HIDE DEF S
      <4>. QED
        BY <1>3, <4>1, Zenon
    <3>. HIDE DEF step
    <3>. QED
      BY <3>1, <3>2, Zenon
  <2>2. \A k \in 0 .. n : k = 0 \/ k \in 1 .. n
    OBVIOUS
  <2>3. \A k \in 0 .. n : f[k] = IF k = 0 THEN a
                                 ELSE IF Coprime(f[k - 1], n) THEN f[k - 1]
                                      ELSE OrOne((f[k - 1] + 1) % n)
    BY <1>3, <2>1, <2>2, Zenon DEF NextStep
  <2>4. f = [k \in 0 .. n |-> f[k]]
    BY <1>3
  <2>. QED
    BY <2>3, <2>4, Zenon
<1>5. P(walk)
  <2>. HIDE DEF P
  <2>. QED
    BY <1>4
<1>. HIDE DEF walk
<1>6. walk[0] = a /\ \A k \in 1 .. n : walk[k] = NextStep(n, walk[k - 1])
  <2>1. \A k \in 0 .. n : walk[k] = IF k = 0 THEN a
                                    ELSE IF Coprime(walk[k - 1], n) THEN walk[k - 1]
                                         ELSE OrOne((walk[k - 1] + 1) % n)
    BY <1>5, Zenon
  <2>2. 0 \in 0 .. n /\ \A k \in 1 .. n : k \in 0 .. n /\ k # 0
    OBVIOUS
  <2>. QED
    BY <2>1, <2>2, Zenon DEF NextStep
<1>. HIDE DEF P
\* Until it is coprime, the step has gone up by one in every turn.
<1>. DEFINE T == {k \in Nat : walk[k] \in S /\ (~Coprime(walk[k], n) => walk[k] > k)}
<1>7. 0 \in T
  BY <1>2, <1>6
<1>8. ASSUME NEW k \in 1 .. n, k - 1 \in T PROVE k \in T
  <2>1. walk[k] = NextStep(n, walk[k - 1]) /\ walk[k - 1] \in 1 .. n
        /\ (~Coprime(walk[k - 1], n) => walk[k - 1] > k - 1)
    BY <1>6, <1>8
  <2>2. walk[k] \in 1 .. n
    BY <2>1, NextStepGoesUp
  <2>3. ~Coprime(walk[k], n) => ~Coprime(walk[k - 1], n) /\ walk[k] = walk[k - 1] + 1
    BY <2>1, NextStepGoesUp
  <2>. QED
    BY <2>1, <2>2, <2>3
<1>. HIDE DEF T
<1>9. \A k \in 0 .. n : k \in T
  BY <1>7, <1>8, BoundedInduction
<1>10. walk[n] \in 1 .. n /\ (~Coprime(walk[n], n) => walk[n] > n)
  BY <1>9 DEF T
<1>. QED
  BY <1>1, <1>10

\* An order visits every page: two visits of one page would be a multiple of the step apart
\* that is a multiple of the count.
LEMMA OrderIsPermutation ==
    ASSUME NEW n \in Nat \ {0}, NEW drawn \in (0 .. (n - 1)) \X (0 .. (n - 1))
    PROVE  /\ DOMAIN Order(n, drawn) = 1 .. n
           /\ \A k \in 1 .. n : Order(n, drawn)[k] \in 0 .. (n - 1)
           /\ \A i \in 0 .. (n - 1) : \E k \in 1 .. n : Order(n, drawn)[k] = i
<1>. DEFINE order == Order(n, drawn)
            s == Step(n, drawn[2])
            b == drawn[1] % n
<1>1. drawn[1] \in Nat /\ drawn[2] \in Nat
  OBVIOUS
<1>2. s \in 1 .. n /\ Coprime(s, n) /\ b \in 0 .. (n - 1)
  BY <1>1, StepIsCoprime, Remainder
<1>3. order = [k \in 1 .. n |-> (b + (k - 1) * s) % n]
  BY DEF Order
<1>. HIDE DEF s, b
<1>4. ASSUME NEW k \in 1 .. n PROVE b + (k - 1) * s \in Nat
  BY <1>2
<1>5. order \in [1 .. n -> 0 .. (n - 1)]
  <2>1. ASSUME NEW k \in 1 .. n PROVE (b + (k - 1) * s) % n \in 0 .. (n - 1)
    BY <1>4, Remainder
  <2>. QED
    BY <1>3, <2>1
<1>6. ASSUME NEW j \in 1 .. n, NEW k \in 1 .. n, j < k, order[j] = order[k] PROVE FALSE
  <2>. DEFINE x == b + (j - 1) * s
              y == b + (k - 1) * s
              p == x \div n
              q == y \div n
              t == x % n
  <2>1. x \in Nat /\ y \in Nat
    BY <1>4
  <2>2. x % n = y % n
    BY <1>3, <1>6
  <2>3. y - x = (k - j) * s
    BY <1>2
  <2>. HIDE DEF x, y
  <2>4. p \in Nat /\ q \in Nat /\ t \in 0 .. (n - 1) /\ x = n * p + t /\ y = n * q + t
    BY <2>1, <2>2, Remainder
  <2>. HIDE DEF p, q, t
  <2>. DEFINE e == q - p
              d == k - j
  <2>5. e \in Int /\ d \in 1 .. (n - 1) /\ n * q - n * p = n * e
    BY <1>6, <2>4
  <2>6. d * s = n * e
    BY <2>3, <2>4, <2>5
  <2>. HIDE DEF e, d
  <2>7. d * s \in Nat /\ d * s > 0
    BY <1>2, <2>5
  <2>8. e \in Nat
    BY <2>5, <2>6, <2>7
  <2>9. Divides(n, d * s)
    BY <2>6, <2>7, <2>8, Multiple
  <2>. QED
    BY <1>2, <2>5, <2>9, CoprimeSteps
<1>7. order \in Injection(1 .. n, 0 .. (n - 1))
  <2>. HIDE DEF order
  <2>1. \A j, k \in 1 .. n : order[j] = order[k] => j = k
    BY <1>6
  <2>. QED
    BY <1>5, <2>1, Zenon DEF Injection, IsInjective
<1>8. /\ IsFiniteSet(1 .. n) /\ IsFiniteSet(0 .. (n - 1))
      /\ Cardinality(1 .. n) = n /\ Cardinality(0 .. (n - 1)) = n
  BY FS_Interval
<1>9. order \in Surjection(1 .. n, 0 .. (n - 1))
  BY <1>7, <1>8, FS_Injection, Zenon
<1>10. \A i \in 0 .. (n - 1) : \E k \in 1 .. n : order[k] = i
  BY <1>9, Zenon DEF Surjection
<1>. HIDE DEF order
<1>11. DOMAIN order = 1 .. n /\ \A k \in 1 .. n : order[k] \in 0 .. (n - 1)
  BY <1>5
<1>. QED
  BY <1>10, <1>11, Zenon DEF order

\* After the writing every page's memory holds the value of a page mapped onto it.
LEMMA WrittenHolds ==
    ASSUME CellsInv, NEW drawn \in Drawn
    PROVE  LET new == Written(Order(count, drawn))
           IN  /\ new \in [Pages -> Int]
               /\ \A i \in Pages : new[backing[i]] \in Pages /\ backing[new[backing[i]]] = backing[i]
<1>. DEFINE order == Order(count, drawn)
            new == Written(order)
            Hits(p) == {k \in DOMAIN order : backing[order[k]] = p}
            Final(p) == CHOOSE k \in Hits(p) : \A j \in Hits(p) : j <= k
<1>1. count \in Nat \ {0} /\ backing \in [Pages -> Pages] /\ cells \in [Pages -> Int]
  BY DEF CellsInv
<1>2. /\ DOMAIN order = 1 .. count /\ \A k \in 1 .. count : order[k] \in Pages
      /\ \A i \in Pages : \E k \in 1 .. count : order[k] = i
  BY <1>1, OrderIsPermutation DEF Drawn, Pages
<1>3. new = [p \in Pages |-> IF Hits(p) = {} THEN cells[p] ELSE order[Final(p)]]
  BY <1>1, Zenon DEF Written
<1>. HIDE DEF order, new
<1>4. ASSUME NEW p, Hits(p) # {} PROVE Final(p) \in 1 .. count /\ backing[order[Final(p)]] = p
  <2>. DEFINE T == {count - k : k \in Hits(p)}
              Latest(k) == \A j \in Hits(p) : j <= k
  <2>1. Hits(p) \subseteq 1 .. count
    BY <1>2
  <2>2. T \in SUBSET Nat /\ T # {}
    <3>. HIDE DEF Hits
    <3>. QED
      BY <1>1, <1>4, <2>1
  <2>3. PICK t \in T : \A u \in T : t <= u
    BY <2>2, LeastNatural
  <2>4. PICK k \in Hits(p) : t = count - k
    BY <2>3
  <2>5. Latest(k)
    <3>. HIDE DEF Hits
    <3>. SUFFICES ASSUME NEW j \in Hits(p) PROVE j <= k
      OBVIOUS
    <3>1. count - j \in T
      OBVIOUS
    <3>2. t <= count - j
      BY <2>3, <3>1
    <3>3. j \in 1 .. count /\ k \in 1 .. count
      BY <2>1, <2>4
    <3>. HIDE DEF T
    <3>. QED
      BY <1>1, <2>4, <3>2, <3>3
  <2>6. Final(p) \in Hits(p)
    <3>. HIDE DEF Hits, Latest
    <3>1. Final(p) = CHOOSE j \in Hits(p) : Latest(j)
      BY Zenon DEF Latest
    <3>. QED
      BY <2>4, <2>5, <3>1
  <2>. HIDE DEF Final
  <2>. QED
    BY <2>1, <2>6
<1>. HIDE DEF Final
<1>5. ASSUME NEW i \in Pages PROVE new[backing[i]] \in Pages /\ backing[new[backing[i]]] = backing[i]
  <2>1. PICK k \in 1 .. count : order[k] = i
    BY <1>2
  <2>2. Hits(backing[i]) # {} /\ backing[i] \in Pages
    BY <1>1, <1>2, <2>1
  <2>. HIDE DEF Hits
  <2>3. new[backing[i]] = order[Final(backing[i])]
    BY <1>3, <2>2
  <2>. QED
    BY <1>2, <1>4, <2>2, <2>3
<1>6. new \in [Pages -> Int]
  <2>1. ASSUME NEW p \in Pages PROVE new[p] \in Int
    <3>. HIDE DEF Hits
    <3>1. CASE Hits(p) = {}
      BY <1>1, <1>3, <3>1
    <3>2. CASE Hits(p) # {}
      <4>1. new[p] = order[Final(p)]
        BY <1>3, <3>2
      <4>2. order[Final(p)] \in Pages
        BY <1>2, <1>4, <3>2
      <4>3. Pages \subseteq Int
        BY <1>1 DEF Pages
      <4>. QED
        BY <4>1, <4>2, <4>3, Zenon
    <3>. QED
      BY <3>1, <3>2
  <2>. HIDE DEF Hits
  <2>2. new = [p \in Pages |-> new[p]]
    BY <1>3
  <2>. QED
    BY <2>1, <2>2
<1>. QED
  BY <1>5, <1>6 DEF new, order

SweepInv == CellsInv /\ TranscriptInv /\ VerdictInv

\* Nothing but the memory and its mapping decides what a transcript says.
LEMMA TranscriptsStay ==
    ASSUME UNCHANGED <<count, backing, cells>>
    PROVE  Pages' = Pages /\ Differs' = Differs /\ \A r : Complete(r)' <=> Complete(r)
<1>1. Pages' = Pages
  BY DEF Pages
<1>2. Differs' = Differs
  BY <1>1, Zenon DEF Differs
<1>. QED
  BY <1>1, <1>2 DEF Complete

LEMMA CellsStay ==
    ASSUME CellsInv, UNCHANGED <<count, backing, cells, overwritten>>, phase # "write",
           phase' \in {"read", "signed", "done"}
    PROVE  CellsInv'
<1>1. Pages' = Pages
  BY DEF Pages
<1>. QED
  BY <1>1 DEF CellsInv

LEMMA WriteKeeps == SweepInv /\ WriteAll => SweepInv'
<1>. SUFFICES ASSUME SweepInv, WriteAll PROVE SweepInv'
  OBVIOUS
<1>1. PICK drawn \in Drawn : cells' = Written(Order(count, drawn))
  BY DEF WriteAll
<1>2. /\ phase = "write" /\ phase' = "read" /\ count' = count /\ backing' = backing
      /\ overwritten' = overwritten /\ confirmed' = confirmed
  BY DEF WriteAll
<1>3. /\ cells' \in [Pages -> Int]
      /\ \A i \in Pages : cells'[backing[i]] \in Pages /\ backing[cells'[backing[i]]] = backing[i]
  BY <1>1, WrittenHolds DEF SweepInv
<1>4. Pages' = Pages
  BY <1>2 DEF Pages
<1>5. CellsInv'
  BY <1>2, <1>3, <1>4 DEF CellsInv, SweepInv
<1>6. TranscriptInv' /\ VerdictInv'
  BY <1>2 DEF TranscriptInv, VerdictInv, SweepInv
<1>. QED
  BY <1>5, <1>6 DEF SweepInv

LEMMA OverwriteKeeps == SweepInv /\ OverwritePage => SweepInv'
<1>. SUFFICES ASSUME SweepInv, OverwritePage PROVE SweepInv'
  OBVIOUS
<1>1. PICK p \in DOMAIN cells : cells' = [cells EXCEPT ![p] = Blank]
  BY DEF OverwritePage
<1>2. /\ phase = "read" /\ phase' = "read" /\ count' = count /\ backing' = backing
      /\ overwritten' = TRUE /\ confirmed' = confirmed
  BY DEF OverwritePage
<1>3. Pages' = Pages
  BY <1>2 DEF Pages
<1>4. CellsInv'
  <2>1. count \in Nat \ {0} /\ backing \in [Pages -> Pages] /\ cells \in [Pages -> Int]
    BY DEF CellsInv, SweepInv
  <2>2. cells' \in [Pages -> Int]
    BY <1>1, <2>1 DEF Blank
  <2>3. ASSUME NEW i \in Pages
        PROVE  \/ cells'[backing[i]] \in Pages /\ backing[cells'[backing[i]]] = backing[i]
               \/ cells'[backing[i]] = Blank
    <3>1. \/ cells[backing[i]] \in Pages /\ backing[cells[backing[i]]] = backing[i]
          \/ cells[backing[i]] = Blank
      BY <1>2 DEF CellsInv, SweepInv
    <3>2. cells'[backing[i]] = Blank \/ cells'[backing[i]] = cells[backing[i]]
      BY <1>1, <2>1
    <3>. QED
      BY <3>1, <3>2
  <2>. QED
    BY <1>2, <1>3, <2>1, <2>2, <2>3 DEF CellsInv
<1>5. TranscriptInv' /\ VerdictInv'
  BY <1>2 DEF TranscriptInv, VerdictInv, SweepInv
<1>. QED
  BY <1>4, <1>5 DEF SweepInv

LEMMA ReadKeeps == SweepInv /\ ReadAll => SweepInv'
<1>. SUFFICES ASSUME SweepInv, ReadAll PROVE SweepInv'
  OBVIOUS
<1>1. /\ phase = "read" /\ phase' = "signed" /\ count' = count /\ backing' = backing
      /\ cells' = cells /\ overwritten' = overwritten /\ confirmed' = confirmed
  BY DEF ReadAll
<1>2. Pages' = Pages /\ Differs' = Differs /\ \A r : Complete(r)' <=> Complete(r)
  BY <1>1, TranscriptsStay
<1>3. CellsInv' /\ VerdictInv'
  <2>1. CellsInv'
    BY <1>1, CellsStay DEF SweepInv
  <2>2. VerdictInv'
    BY <1>1 DEF VerdictInv, SweepInv
  <2>. QED
    BY <2>1, <2>2
<1>4. count \in Nat \ {0}
  BY DEF CellsInv, SweepInv
<1>5. TranscriptInv'
  <2>. DEFINE Actual(order) == [k \in DOMAIN order |-> cells[backing[order[k]]]]
              Transcript(order) ==
                [length   |-> count,
                 written  |-> count,
                 read     |-> count,
                 aliasing |-> \E k \in DOMAIN order : Actual(order)[k] # order[k],
                 readback |-> [k \in DOMAIN order |-> <<order[k], Actual(order)[k]>>],
                 key      |-> "sweep"]
  <2>1. PICK drawn \in Drawn : result' = <<Transcript(Order(count, drawn))>>
    BY DEF ReadAll
  <2>. DEFINE order == Order(count, drawn)
              r == Transcript(order)
  <2>2. /\ DOMAIN order = 1 .. count /\ \A k \in 1 .. count : order[k] \in Pages
        /\ \A i \in Pages : \E k \in 1 .. count : order[k] = i
    BY <1>4, OrderIsPermutation DEF Drawn, Pages
  <2>. HIDE DEF order
  <2>3. /\ r.length = count /\ r.written = count /\ r.read = count /\ r.key = "sweep"
        /\ r.readback = [k \in DOMAIN order |-> <<order[k], Actual(order)[k]>>]
        /\ "readback" \in DOMAIN r
    OBVIOUS
  <2>4. r.aliasing = (\E k \in DOMAIN order : cells[backing[order[k]]] # order[k])
    <3>1. r.aliasing = (\E k \in DOMAIN order : Actual(order)[k] # order[k])
      OBVIOUS
    <3>2. \A k \in DOMAIN order : Actual(order)[k] = cells[backing[order[k]]]
      OBVIOUS
    <3>. HIDE DEF Actual, Transcript
    <3>. QED
      BY <3>1, <3>2, Zenon
  <2>5. r.aliasing = Differs
    <3>1. (\E k \in DOMAIN order : cells[backing[order[k]]] # order[k])
            <=> \E i \in Pages : cells[backing[i]] # i
      BY <2>2, Zenon
    <3>. QED
      BY <2>4, <3>1, Zenon DEF Differs
  <2>6. DOMAIN r.readback = 1 .. count
    BY <2>2, <2>3
  <2>7. \A k \in 1 .. count : r.readback[k][1] = order[k]
    BY <2>2, <2>3
  <2>. HIDE DEF r
  <2>8. Complete(r)
    BY <2>2, <2>3, <2>5, <2>6, <2>7 DEF Complete
  <2>9. result'[1] = r
    BY <2>1 DEF r, order
  <2>. QED
    BY <1>2, <2>8, <2>9, Zenon DEF TranscriptInv
<1>. QED
  BY <1>3, <1>5 DEF SweepInv

LEMMA VerifyKeeps == SweepInv /\ VerifyAll => SweepInv'
<1>. SUFFICES ASSUME SweepInv, VerifyAll PROVE SweepInv'
  OBVIOUS
<1>. DEFINE r == result[1]
            changed == [r EXCEPT !.readback = <<>>]
<1>1. /\ phase = "signed" /\ phase' = "done" /\ count' = count /\ backing' = backing
      /\ cells' = cells /\ overwritten' = overwritten /\ result' = result
  BY DEF VerifyAll
<1>2. confirmed' = [confirmed EXCEPT !["signed"]    = VerifySweep(r, r, "sweep"),
                                     !["tampered"]  = VerifySweep(changed, r, "sweep"),
                                     !["other-key"] = VerifySweep(r, r, "other")]
  BY DEF VerifyAll
<1>3. CellsInv'
  BY <1>1, CellsStay DEF SweepInv
<1>4. TranscriptInv'
  <2>1. Complete(r)
    BY <1>1 DEF TranscriptInv, SweepInv
  <2>2. Complete(r)'
    BY <1>1, <2>1 DEF Complete, Differs, Pages
  <2>. QED
    BY <1>1, <2>2 DEF TranscriptInv
<1>5. /\ count \in Nat \ {0} /\ r.length = count /\ r.written = count /\ r.read = count
      /\ r.key = "sweep" /\ DOMAIN r.readback = 1 .. count
  BY <1>1 DEF CellsInv, TranscriptInv, Complete, SweepInv
<1>6. VerifySweep(r, r, "sweep") = TRUE /\ VerifySweep(r, r, "other") = FALSE
  <2>. HIDE DEF r
  <2>1. VerifySweep(r, r, "sweep") /\ ~VerifySweep(r, r, "other")
    BY <1>5 DEF VerifySweep
  <2>. QED
    BY <2>1, Zenon DEF VerifySweep
<1>7. VerifySweep(changed, r, "sweep") = FALSE
  <2>1. r.readback # <<>>
    BY <1>5
  <2>2. ~VerifySweep(changed, r, "sweep")
    <3>. SUFFICES ASSUME changed = r PROVE FALSE
      BY Zenon DEF VerifySweep
    <3>1. "readback" \in DOMAIN r
      BY <1>1 DEF TranscriptInv, Complete, SweepInv
    <3>. HIDE DEF r
    <3>2. changed.readback = <<>>
      BY <3>1
    <3>. HIDE DEF changed
    <3>. QED
      BY <2>1, <3>2, Zenon
  <2>. QED
    BY <2>2, Zenon DEF VerifySweep
<1>. HIDE DEF changed, r
<1>8. VerdictInv'
  <2>1. confirmed \in [{"signed", "tampered", "other-key"} -> BOOLEAN]
    BY DEF VerdictInv, SweepInv
  <2>2. confirmed' = [confirmed EXCEPT !["signed"] = TRUE, !["tampered"] = FALSE, !["other-key"] = FALSE]
    BY <1>2, <1>6, <1>7, Zenon
  <2>3. /\ confirmed' \in [{"signed", "tampered", "other-key"} -> BOOLEAN]
        /\ confirmed'["signed"] = TRUE /\ confirmed'["tampered"] = FALSE /\ confirmed'["other-key"] = FALSE
    BY <2>1, <2>2
  <2>. QED
    BY <2>3 DEF VerdictInv
<1>. QED
  BY <1>3, <1>4, <1>8 DEF SweepInv

LEMMA SweepInductive == SweepInv /\ [SweepNext]_sweepVars => SweepInv'
<1>1. ASSUME SweepInv, UNCHANGED sweepVars PROVE SweepInv'
  <2>1. /\ count' = count /\ backing' = backing /\ cells' = cells /\ phase' = phase
        /\ overwritten' = overwritten /\ result' = result /\ confirmed' = confirmed
    BY <1>1 DEF sweepVars
  <2>2. Pages' = Pages /\ \A r : Complete(r)' <=> Complete(r)
    BY <2>1, TranscriptsStay
  <2>3. CellsInv'
    BY <1>1, <2>1, <2>2 DEF CellsInv, SweepInv
  <2>4. TranscriptInv'
    BY <1>1, <2>1, <2>2, Zenon DEF TranscriptInv, SweepInv
  <2>5. VerdictInv'
    BY <1>1, <2>1 DEF VerdictInv, SweepInv
  <2>. QED
    BY <2>3, <2>4, <2>5 DEF SweepInv
<1>. QED
  BY <1>1, WriteKeeps, OverwriteKeeps, ReadKeeps, VerifyKeeps DEF SweepNext

\* A cell holds one value: of two pages that share it, at most one reads back its own.
LEMMA TranscriptsTell == SweepInv => SweepFindsAliases
<1>. SUFFICES ASSUME SweepInv, phase = "done" PROVE SweepFindsAliases
  BY DEF SweepFindsAliases
<1>. DEFINE injective == \A i, j \in DOMAIN backing : backing[i] = backing[j] => i = j
<1>1. /\ count \in Nat \ {0} /\ backing \in [Pages -> Pages]
      /\ result[1].aliasing = Differs
  BY DEF SweepInv, CellsInv, TranscriptInv, Complete
<1>8. {result[1].readback[k][1] : k \in 1 .. count} = Pages
  BY DEF SweepInv, TranscriptInv, Complete
<1>2. ASSUME NEW i \in Pages
      PROVE  \/ cells[backing[i]] \in Pages /\ backing[cells[backing[i]]] = backing[i]
             \/ cells[backing[i]] = Blank /\ overwritten
  BY DEF SweepInv, CellsInv
<1>3. ~injective => Differs
  BY <1>1 DEF Differs
<1>4. ~overwritten /\ injective => ~Differs
  BY <1>1, <1>2 DEF Differs
<1>5. confirmed = [shown \in DOMAIN confirmed |-> shown = "signed"]
  <2>1. /\ confirmed \in [{"signed", "tampered", "other-key"} -> BOOLEAN]
        /\ confirmed["signed"] /\ ~confirmed["tampered"] /\ ~confirmed["other-key"]
    BY DEF SweepInv, VerdictInv
  <2>2. confirmed["signed"] = TRUE /\ confirmed["tampered"] = FALSE /\ confirmed["other-key"] = FALSE
    BY <2>1
  <2>3. \A shown \in DOMAIN confirmed : confirmed[shown] = (shown = "signed")
    BY <2>1, <2>2
  <2>4. confirmed = [shown \in DOMAIN confirmed |-> confirmed[shown]]
    BY <2>1
  <2>. QED
    BY <2>3, <2>4, Zenon
<1>. HIDE DEF injective
<1>6. /\ ~overwritten => result[1].aliasing = ~injective
      /\ ~injective => result[1].aliasing
  BY <1>1, <1>3, <1>4, Zenon DEF Differs, injective
<1>7. Pages = 0 .. (count - 1)
  BY DEF Pages
<1>. QED
  BY <1>8, <1>5, <1>6, <1>7, Zenon DEF SweepFindsAliases, injective

\* An undisturbed sweep reports aliasing exactly when two pages share a physical page, its
\* transcript has read every page, and only that transcript verifies, for any number of pages
\* (run_memory_sweep, _order, verify_memory_sweep).
THEOREM SweepsFindAliases == SweepSpec => []SweepFindsAliases
<1>1. SweepInit => SweepInv
  <2>. SUFFICES ASSUME SweepInit PROVE SweepInv
    OBVIOUS
  <2>1. count \in Nat \ {0}
    BY SweepAssumption DEF SweepInit
  <2>2. CellsInv
    <3>1. backing \in [Pages -> Pages] /\ cells \in [Pages -> Int]
      BY <2>1 DEF SweepInit, Pages, Blank
    <3>2. overwritten \in BOOLEAN /\ phase = "write"
      BY DEF SweepInit
    <3>. QED
      BY <2>1, <3>1, <3>2 DEF CellsInv
  <2>3. TranscriptInv
    BY DEF SweepInit, TranscriptInv
  <2>4. VerdictInv
    BY DEF SweepInit, VerdictInv
  <2>. QED
    BY <2>2, <2>3, <2>4 DEF SweepInv
<1>. QED
  BY <1>1, SweepInductive, TranscriptsTell, PTL DEF SweepSpec

-----------------------------------------------------------------------------
(* The log: powers of two                                                  *)

\* Induction over the numbers from 1 to a bound, from all smaller ones.
LEMMA BoundedStrongInduction ==
    ASSUME NEW N \in Nat, NEW T, \A n \in 1 .. N : (\A m \in 1 .. (n - 1) : m \in T) => n \in T
    PROVE  \A n \in 1 .. N : n \in T
<1>. DEFINE Missing == {n \in 1 .. N : n \notin T}
<1>. SUFFICES ASSUME Missing # {} PROVE FALSE
  OBVIOUS
<1>1. Missing \in SUBSET Nat
  OBVIOUS
<1>2. PICK n \in Missing : \A m \in Missing : n <= m
  BY <1>1, LeastNatural
<1>3. \A m \in 1 .. (n - 1) : m \in 1 .. N /\ m \notin Missing
  BY <1>2
<1>. QED
  BY <1>2, <1>3

\* The recursive definition of Pow2 has a solution.
LEMMA Pow2Equations ==
    /\ Pow2[0] = 1
    /\ \A e \in Nat : Pow2[e + 1] = 2 * Pow2[e]
    /\ \A e \in Nat : Pow2[e] \in Nat
<1>. DEFINE double == [x \in Nat |-> 2 * x]
            W(f, n) == IsWalk(f, Nat, 1, double, n)
            G(f, n) == f[0] = 1 /\ \A k \in 1 .. n : f[k] = 2 * f[k - 1]
            P(f) == f = [e \in Nat |-> IF e = 0 THEN 1 ELSE 2 * f[e - 1]]
<1>1. \A n \in Nat : \E f : f \in [0 .. n -> Nat] /\ G(f, n)
  <2>. SUFFICES ASSUME NEW n \in Nat PROVE \E f : f \in [0 .. n -> Nat] /\ G(f, n)
    OBVIOUS
  <2>1. double \in [Nat -> Nat] /\ 1 \in Nat
    OBVIOUS
  <2>2. \E f : IsWalk(f, Nat, 1, double, n)
    <3>. HIDE DEF double
    <3>. QED
      BY <2>1, WalkExists
  <2>3. PICK f : IsWalk(f, Nat, 1, double, n)
    BY <2>2
  <2>4. f \in [0 .. n -> Nat] /\ f[0] = 1 /\ \A k \in 1 .. n : f[k] = double[f[k - 1]]
    <3>. HIDE DEF double
    <3>. QED
      BY <2>3, Zenon DEF IsWalk
  <2>5. \A k \in 1 .. n : f[k] = 2 * f[k - 1]
    <3>1. \A k \in 1 .. n : f[k - 1] \in Nat
      BY <2>4
    <3>2. \A x \in Nat : double[x] = 2 * x
      OBVIOUS
    <3>. HIDE DEF double
    <3>. QED
      BY <2>4, <3>1, <3>2, Zenon
  <2>. QED
    BY <2>4, <2>5
<1>. DEFINE w == [n \in Nat |-> CHOOSE f : f \in [0 .. n -> Nat] /\ G(f, n)]
<1>2. \A n \in Nat : w[n] \in [0 .. n -> Nat] /\ G(w[n], n)
  BY <1>1
<1>. HIDE DEF w
<1>3. ASSUME NEW n \in Nat PROVE w[n + 1][n] = w[n][n]
  <2>. DEFINE T == {k \in Nat : w[n + 1][k] = w[n][k]}
  <2>1. 0 \in T
    BY <1>2
  <2>2. \A k \in 1 .. n : k - 1 \in T => k \in T
    <3>. SUFFICES ASSUME NEW k \in 1 .. n, k - 1 \in T PROVE k \in T
      OBVIOUS
    <3>1. k \in 1 .. (n + 1) /\ k \in Nat /\ n + 1 \in Nat
      OBVIOUS
    <3>2. w[n + 1][k] = 2 * w[n + 1][k - 1] /\ w[n][k] = 2 * w[n][k - 1]
      <4>. HIDE DEF T
      <4>. QED
        BY <1>2, <3>1, Zenon
    <3>3. w[n + 1][k - 1] = w[n][k - 1]
      OBVIOUS
    <3>. QED
      BY <3>1, <3>2, <3>3
  <2>. HIDE DEF T
  <2>3. \A k \in 0 .. n : k \in T
    BY <2>1, <2>2, BoundedInduction
  <2>4. n \in T
    BY <2>3
  <2>. QED
    BY <2>4 DEF T
<1>. DEFINE p == [n \in Nat |-> w[n][n]]
<1>4. \A e \in Nat : p[e] = IF e = 0 THEN 1 ELSE 2 * p[e - 1]
  <2>. SUFFICES ASSUME NEW e \in Nat PROVE p[e] = IF e = 0 THEN 1 ELSE 2 * p[e - 1]
    OBVIOUS
  <2>1. CASE e = 0
    BY <2>1, <1>2
  <2>2. CASE e # 0
    <3>1. e - 1 \in Nat /\ (e - 1) + 1 = e
      BY <2>2
    <3>2. w[e][e - 1] = w[e - 1][e - 1]
      BY <3>1, <1>3
    <3>3. w[e][e] = 2 * w[e][e - 1]
      BY <1>2, <2>2
    <3>. QED
      BY <2>2, <3>1, <3>2, <3>3
  <2>. QED
    BY <2>1, <2>2
<1>5. P(p)
  <2>. HIDE DEF p
  <2>1. p = [e \in Nat |-> p[e]]
    BY DEF p
  <2>. QED
    BY <2>1, <1>4, Zenon
<1>6. Pow2 = CHOOSE f : P(f)
  BY Zenon DEF Pow2
<1>7. P(Pow2)
  <2>. HIDE DEF P
  <2>. QED
    BY <1>5, <1>6
<1>8. \A e \in Nat : Pow2[e] = IF e = 0 THEN 1 ELSE 2 * Pow2[e - 1]
  BY <1>7, Zenon
<1>. HIDE DEF P
<1>9. Pow2[0] = 1 /\ \A e \in Nat : Pow2[e + 1] = 2 * Pow2[e]
  BY <1>8
<1>10. ASSUME NEW e \in Nat PROVE Pow2[e] \in Nat
  <2>. DEFINE T == {k \in Nat : Pow2[k] \in Nat}
  <2>1. 0 \in T
    BY <1>9
  <2>2. \A k \in 1 .. e : k - 1 \in T => k \in T
    BY <1>9
  <2>. HIDE DEF T
  <2>3. \A k \in 0 .. e : k \in T
    BY <2>1, <2>2, BoundedInduction
  <2>4. e \in T
    BY <2>3
  <2>. QED
    BY <2>4 DEF T
<1>. QED
  BY <1>9, <1>10

\* Powers are positive and grow, and a smaller one is at most half of a larger one.
LEMMA Pow2Grows ==
    /\ \A e \in Nat : e < Pow2[e]
    /\ \A a, b \in Nat : a < b => 2 * Pow2[a] <= Pow2[b]
<1>. USE Pow2Equations
<1>1. ASSUME NEW e \in Nat PROVE e < Pow2[e]
  <2>. DEFINE T == {k \in Nat : k < Pow2[k]}
  <2>1. 0 \in T
    OBVIOUS
  <2>2. \A k \in 1 .. e : k - 1 \in T => k \in T
    <3>. SUFFICES ASSUME NEW k \in 1 .. e, k - 1 \in T PROVE k \in T
      OBVIOUS
    <3>1. k - 1 \in Nat /\ (k - 1) + 1 = k
      OBVIOUS
    <3>2. Pow2[k] = 2 * Pow2[k - 1]
      BY <3>1
    <3>. QED
      BY <3>1, <3>2
  <2>. HIDE DEF T
  <2>3. \A k \in 0 .. e : k \in T
    BY <2>1, <2>2, BoundedInduction
  <2>4. e \in T
    BY <2>3
  <2>. QED
    BY <2>4 DEF T
<1>2. ASSUME NEW a \in Nat, NEW b \in Nat, a < b PROVE 2 * Pow2[a] <= Pow2[b]
  <2>. DEFINE T == {k \in Nat : 2 * Pow2[a] <= Pow2[a + 1 + k]}
  <2>1. 0 \in T
    OBVIOUS
  <2>2. \A k \in 1 .. b : k - 1 \in T => k \in T
    <3>. SUFFICES ASSUME NEW k \in 1 .. b, k - 1 \in T PROVE k \in T
      OBVIOUS
    <3>1. a + 1 + (k - 1) \in Nat /\ (a + 1 + (k - 1)) + 1 = a + 1 + k
      OBVIOUS
    <3>2. Pow2[a + 1 + k] = 2 * Pow2[a + 1 + (k - 1)]
      BY <3>1
    <3>. QED
      BY <3>1, <3>2
  <2>. HIDE DEF T
  <2>3. b - a - 1 \in T
    <3>1. b - a - 1 \in 0 .. b
      BY <1>2
    <3>. QED
      BY <2>1, <2>2, <3>1, BoundedInduction
  <2>. QED
    BY <1>2, <2>3 DEF T
<1>. QED
  BY <1>1, <1>2

\* Powers multiply by adding exponents.
LEMMA Pow2Product ==
    ASSUME NEW a \in Nat, NEW b \in Nat
    PROVE  Pow2[a + b] = Pow2[a] * Pow2[b]
<1>. USE Pow2Equations
<1>. DEFINE T == {k \in Nat : Pow2[a + k] = Pow2[a] * Pow2[k]}
<1>1. 0 \in T
  OBVIOUS
<1>2. \A k \in 1 .. b : k - 1 \in T => k \in T
  <2>. SUFFICES ASSUME NEW k \in 1 .. b, k - 1 \in T PROVE k \in T
    OBVIOUS
  <2>1. k - 1 \in Nat /\ (k - 1) + 1 = k /\ a + (k - 1) \in Nat /\ (a + (k - 1)) + 1 = a + k
    OBVIOUS
  <2>2. Pow2[k] = 2 * Pow2[k - 1] /\ Pow2[a + k] = 2 * Pow2[a + (k - 1)]
    BY <2>1
  <2>3. \A x, y \in Nat : x * (2 * y) = 2 * (x * y)
    OBVIOUS
  <2>. QED
    BY <2>1, <2>2, <2>3
<1>. HIDE DEF T
<1>3. \A k \in 0 .. b : k \in T
  BY <1>1, <1>2, BoundedInduction
<1>4. b \in T
  BY <1>3
<1>. QED
  BY <1>4 DEF T

\* What the proofs use of a power of two.
IsPower(P) == \E e \in Nat : P = Pow2[e]

\* A product of powers is one, and no power is zero.
LEMMA PowerFacts ==
    /\ IsPower(1)
    /\ \A P : IsPower(P) => P \in Nat /\ P >= 1 /\ PowerOfTwo(P) /\ IsPower(2 * P)
    /\ \A P : PowerOfTwo(P) /\ P \in Nat => IsPower(P)
    /\ \A P, Q : IsPower(P) /\ IsPower(Q) => IsPower(P * Q)
    /\ \A P, Q : IsPower(P) /\ IsPower(Q) /\ P < Q => 2 * P <= Q
<1>. USE Pow2Equations, Pow2Grows DEF IsPower
<1>1. IsPower(1)
  <2>1. Pow2[0] = 1 /\ 0 \in Nat
    OBVIOUS
  <2>. QED
    BY <2>1
<1>2. ASSUME NEW P, IsPower(P) PROVE P \in Nat /\ P >= 1 /\ PowerOfTwo(P) /\ IsPower(2 * P)
  <2>1. PICK e \in Nat : P = Pow2[e]
    BY <1>2
  <2>2. P \in Nat /\ e < P
    BY <2>1
  <2>3. e \in 0 .. P
    BY <2>2
  <2>4. 2 * P = Pow2[e + 1] /\ e + 1 \in Nat
    BY <2>1
  <2>. QED
    BY <2>1, <2>2, <2>3, <2>4 DEF PowerOfTwo
<1>3. ASSUME NEW P, PowerOfTwo(P), P \in Nat PROVE IsPower(P)
  BY <1>3 DEF PowerOfTwo
<1>4. ASSUME NEW P, NEW Q, IsPower(P), IsPower(Q) PROVE IsPower(P * Q)
  <2>1. PICK a \in Nat : P = Pow2[a]
    BY <1>4
  <2>2. PICK b \in Nat : Q = Pow2[b]
    BY <1>4
  <2>3. P * Q = Pow2[a + b] /\ a + b \in Nat
    BY <2>1, <2>2, Pow2Product
  <2>. QED
    BY <2>3
<1>5. ASSUME NEW P, NEW Q, IsPower(P), IsPower(Q), P < Q PROVE 2 * P <= Q
  <2>1. PICK a \in Nat : P = Pow2[a]
    BY <1>5
  <2>2. PICK b \in Nat : Q = Pow2[b]
    BY <1>5
  <2>3. a # b
    BY <1>5, <2>1, <2>2
  <2>4. ~(b < a)
    <3>. SUFFICES ASSUME b < a PROVE FALSE
      OBVIOUS
    <3>1. 2 * Q <= P
      BY <2>1, <2>2
    <3>2. P \in Nat /\ Q \in Nat /\ Q >= 1
      BY <2>1, <2>2
    <3>. QED
      BY <1>5, <3>1, <3>2
  <2>. QED
    BY <2>1, <2>2, <2>3, <2>4
<1>. QED
  BY <1>1, <1>2, <1>3, <1>4, <1>5

\* _split_point: there is one power of two k with k < n <= 2 * k.
LEMMA SplitExists ==
    ASSUME NEW n \in Nat, n >= 2
    PROVE  /\ SplitPoint(n) \in 1 .. (n - 1) /\ n <= 2 * SplitPoint(n)
           /\ \A k : IsPower(k) /\ k < n /\ n <= 2 * k => SplitPoint(n) = k
<1>. DEFINE S(k) == PowerOfTwo(k) /\ n <= 2 * k
<1>1. \E k \in 1 .. (n - 1) : S(k)
  <2>. DEFINE T == {e \in Nat : n <= Pow2[e]}
  <2>1. n \in T
    BY Pow2Grows, Pow2Equations
  <2>2. PICK e \in T : \A d \in T : e <= d
    BY <2>1, LeastNatural
  <2>3. e # 0
    BY <2>2, Pow2Equations
  <2>4. e - 1 \in Nat /\ (e - 1) + 1 = e /\ e - 1 \notin T
    BY <2>2, <2>3
  <2>5. Pow2[e - 1] \in Nat /\ Pow2[e - 1] < n /\ n <= 2 * Pow2[e - 1]
    BY <2>2, <2>4, Pow2Equations
  <2>6. IsPower(Pow2[e - 1])
    BY <2>4 DEF IsPower
  <2>. QED
    BY <2>5, <2>6, PowerFacts
<1>2. SplitPoint(n) \in 1 .. (n - 1) /\ S(SplitPoint(n))
  <2>. HIDE DEF S
  <2>1. SplitPoint(n) = CHOOSE k \in 1 .. (n - 1) : S(k)
    BY DEF SplitPoint, S
  <2>. QED
    BY <1>1, <2>1
<1>3. ASSUME NEW k, IsPower(k), k < n, n <= 2 * k PROVE SplitPoint(n) = k
  <2>. DEFINE s == SplitPoint(n)
  <2>. HIDE DEF s
  <2>1. s \in Nat /\ IsPower(s) /\ s < n /\ n <= 2 * s
    BY <1>2, PowerFacts DEF s
  <2>2. k \in Nat
    BY <1>3, PowerFacts
  <2>3. ~(s < k) /\ ~(k < s)
    <3>1. s < k => 2 * s <= k
      BY <1>3, <2>1, PowerFacts
    <3>2. k < s => 2 * k <= s
      BY <1>3, <2>1, PowerFacts
    <3>. QED
      BY <1>3, <2>1, <2>2, <3>1, <3>2
  <2>. QED
    BY <2>1, <2>2, <2>3 DEF s
<1>. QED
  BY <1>2, <1>3

\* LowZeros: a positive number is an odd one times a power of two.
LEMMA LowZerosSplits ==
    ASSUME NEW n \in Nat, n >= 1
    PROVE  /\ LowZeros(n) \in Nat
           /\ \E o \in Nat : Odd(o) /\ n = o * Pow2[LowZeros(n)]
<1>. DEFINE Z(m, z) == \E o \in 1 .. m : Odd(o) /\ m = o * Pow2[z]
            T == {m \in Nat : \E z \in 0 .. m : Z(m, z)}
<1>1. \A m \in 1 .. n : (\A l \in 1 .. (m - 1) : l \in T) => m \in T
  <2>. SUFFICES ASSUME NEW m \in 1 .. n, \A l \in 1 .. (m - 1) : l \in T PROVE m \in T
    OBVIOUS
  <2>1. CASE Odd(m)
    <3>1. m = m * Pow2[0] /\ m \in 1 .. m /\ 0 \in 0 .. m
      BY Pow2Equations
    <3>. QED
      BY <2>1, <3>1
  <2>2. CASE ~Odd(m)
    <3>. DEFINE l == m \div 2
    <3>1. l \in 1 .. (m - 1) /\ m = 2 * l
      BY <2>2 DEF Odd
    <3>. HIDE DEF l
    <3>2. PICK z \in 0 .. l : Z(l, z)
      BY <3>1
    <3>3. PICK o \in 1 .. l : Odd(o) /\ l = o * Pow2[z]
      BY <3>2
    <3>4. m = o * Pow2[z + 1]
      <4>1. Pow2[z + 1] = 2 * Pow2[z] /\ Pow2[z] \in Nat
        BY <3>1, Pow2Equations
      <4>2. \A x, y \in Nat : x * (2 * y) = 2 * (x * y)
        OBVIOUS
      <4>. QED
        BY <3>1, <3>3, <4>1, <4>2
    <3>5. z + 1 \in 0 .. m /\ o \in 1 .. m
      BY <3>1
    <3>. QED
      BY <3>3, <3>4, <3>5
  <2>. QED
    BY <2>1, <2>2
<1>2. n \in T
  <2>. HIDE DEF T
  <2>. QED
    BY <1>1, BoundedStrongInduction
<1>3. LowZeros(n) \in 0 .. n /\ Z(n, LowZeros(n))
  <2>1. \E z \in 0 .. n : Z(n, z)
    BY <1>2
  <2>2. LowZeros(n) = CHOOSE z \in 0 .. n : Z(n, z)
    <3>1. n # 0
      OBVIOUS
    <3>. QED
      BY <3>1, Zenon DEF LowZeros
  <2>. HIDE DEF Z
  <2>. QED
    BY <2>1, <2>2
<1>. QED
  BY <1>3

-----------------------------------------------------------------------------
(* The log: the tree                                                       *)

\* _mth: the recursion has a solution, since both parts are smaller than the whole.
LEMMA MthEquations ==
    ASSUME NEW S, NEW es \in Seq(S)
    PROVE  \A n \in 1 .. Len(es) : \A lo \in 0 .. (Len(es) - n) :
             Mth(es)[n][lo] =
               IF n = 1 THEN LeafHash(es[lo + 1])
               ELSE Node(Mth(es)[SplitPoint(n)][lo],
                         Mth(es)[n - SplitPoint(n)][lo + SplitPoint(n)])
<1>. DEFINE N == Len(es)
            Cell(f, n, lo) == IF n = 1 THEN LeafHash(es[lo + 1])
                              ELSE Node(f[SplitPoint(n)][lo],
                                        f[n - SplitPoint(n)][lo + SplitPoint(n)])
            Row(f, n) == [lo \in 0 .. (N - n) |-> Cell(f, n, lo)]
            Solves(f, top) == f = [n \in 1 .. top |-> Row(f, n)]
            T == {n \in Nat : \E f : Solves(f, n)}
<1>1. N \in Nat
  OBVIOUS
<1>2. 0 \in T
  <2>1. Solves([n \in 1 .. 0 |-> n], 0)
    OBVIOUS
  <2>. HIDE DEF Solves
  <2>. QED
    BY <2>1
<1>3. ASSUME NEW m \in 1 .. N, m - 1 \in T PROVE m \in T
  <2>1. PICK f : Solves(f, m - 1)
    BY <1>3
  <2>. DEFINE g == [n \in 1 .. m |-> IF n = m THEN Row(f, m) ELSE f[n]]
  <2>2. ASSUME NEW n \in 1 .. m PROVE Row(g, n) = Row(f, n)
    <3>1. CASE n = 1
      BY <3>1
    <3>2. CASE n # 1
      <4>1. SplitPoint(n) \in 1 .. (n - 1)
        BY <3>2, <1>1, SplitExists, SMTT(30)
      <4>2. /\ SplitPoint(n) \in 1 .. m /\ SplitPoint(n) # m
            /\ n - SplitPoint(n) \in 1 .. m /\ n - SplitPoint(n) # m
        BY <4>1
      <4>3. g[SplitPoint(n)] = f[SplitPoint(n)] /\ g[n - SplitPoint(n)] = f[n - SplitPoint(n)]
        <5>. HIDE DEF Row
        <5>. QED
          BY <4>2, Zenon
      <4>. HIDE DEF g
      <4>. QED
        BY <4>3, Zenon
    <3>. QED
      BY <3>1, <3>2
  <2>3. \A n \in 1 .. m : g[n] = Row(g, n)
    <3>. HIDE DEF Row
    <3>1. \A n \in 1 .. m : n # m => n \in 1 .. (m - 1)
      OBVIOUS
    <3>2. \A n \in 1 .. (m - 1) : f[n] = Row(f, n)
      BY <2>1, Zenon
    <3>3. \A n \in 1 .. m : g[n] = Row(f, n)
      BY <3>1, <3>2, Zenon
    <3>. HIDE DEF g
    <3>. QED
      BY <2>2, <3>3, Zenon
  <2>4. Solves(g, m)
    <3>1. g = [n \in 1 .. m |-> g[n]]
      <4>. HIDE DEF Row
      <4>. QED
        OBVIOUS
    <3>. HIDE DEF g, Row
    <3>. QED
      BY <2>3, <3>1, Zenon
  <2>. HIDE DEF Solves
  <2>5. m \in Nat
    BY <1>1
  <2>. QED
    BY <2>4, <2>5
<1>4. N \in T
  <2>. HIDE DEF T, N
  <2>1. \A n \in 0 .. N : n \in T
    BY <1>1, <1>2, <1>3, BoundedInduction
  <2>. QED
    BY <1>1, <2>1
<1>5. ASSUME NEW f, Solves(f, N), NEW n \in 1 .. N, NEW lo \in 0 .. (N - n)
      PROVE  f[n][lo] = Cell(f, n, lo)
  <2>. HIDE DEF Cell, N
  <2>1. f[n] = Row(f, n)
    <3>. HIDE DEF Row
    <3>. QED
      BY <1>5, Zenon
  <2>2. Row(f, n)[lo] = Cell(f, n, lo)
    BY Zenon
  <2>. QED
    BY <2>1, <2>2, Zenon
<1>6. Mth(es) = CHOOSE f : Solves(f, N)
  BY Zenon DEF Mth
<1>7. Solves(Mth(es), N)
  <2>. HIDE DEF Solves, N
  <2>. QED
    BY <1>4, <1>6, Zenon
<1>8. \A n \in 1 .. N : \A lo \in 0 .. (N - n) : Mth(es)[n][lo] = Cell(Mth(es), n, lo)
  <2>. HIDE DEF Cell, Solves, N
  <2>. QED
    BY <1>5, <1>7, Zenon
<1>. HIDE DEF Cell, N
<1>. QED
  BY <1>8, Zenon DEF Cell, N

\* _audit_path: the path of every subtree from that of its part with the leaf.
LEMMA AuditPathEquations ==
    ASSUME NEW S, NEW es \in Seq(S), NEW index
    PROVE  \E path :
             /\ AuditPath(es, index) = path[Len(es)][0]
             /\ \A n \in 1 .. Len(es) : \A lo \in 0 .. (Len(es) - n) :
                  path[n][lo] =
                    IF n = 1 THEN <<>>
                    ELSE IF index < lo + SplitPoint(n)
                    THEN Append(path[SplitPoint(n)][lo],
                                Mth(es)[n - SplitPoint(n)][lo + SplitPoint(n)])
                    ELSE Append(path[n - SplitPoint(n)][lo + SplitPoint(n)],
                                Mth(es)[SplitPoint(n)][lo])
<1>. DEFINE N == Len(es)
            Cell(f, n, lo) == IF n = 1 THEN <<>>
                              ELSE IF index < lo + SplitPoint(n)
                              THEN Append(f[SplitPoint(n)][lo],
                                          Mth(es)[n - SplitPoint(n)][lo + SplitPoint(n)])
                              ELSE Append(f[n - SplitPoint(n)][lo + SplitPoint(n)],
                                          Mth(es)[SplitPoint(n)][lo])
            Row(f, n) == [lo \in 0 .. (N - n) |-> Cell(f, n, lo)]
            Solves(f, top) == f = [n \in 1 .. top |-> Row(f, n)]
            T == {n \in Nat : \E f : Solves(f, n)}
<1>1. N \in Nat
  OBVIOUS
<1>2. 0 \in T
  <2>1. Solves([n \in 1 .. 0 |-> n], 0)
    OBVIOUS
  <2>. HIDE DEF Solves
  <2>. QED
    BY <2>1
<1>3. ASSUME NEW m \in 1 .. N, m - 1 \in T PROVE m \in T
  <2>1. PICK f : Solves(f, m - 1)
    BY <1>3
  <2>. DEFINE g == [n \in 1 .. m |-> IF n = m THEN Row(f, m) ELSE f[n]]
  <2>2. ASSUME NEW n \in 1 .. m PROVE Row(g, n) = Row(f, n)
    <3>1. CASE n = 1
      BY <3>1
    <3>2. CASE n # 1
      <4>1. SplitPoint(n) \in 1 .. (n - 1)
        BY <3>2, <1>1, SplitExists, SMTT(30)
      <4>2. /\ SplitPoint(n) \in 1 .. m /\ SplitPoint(n) # m
            /\ n - SplitPoint(n) \in 1 .. m /\ n - SplitPoint(n) # m
        BY <4>1
      <4>3. g[SplitPoint(n)] = f[SplitPoint(n)] /\ g[n - SplitPoint(n)] = f[n - SplitPoint(n)]
        <5>. HIDE DEF Row
        <5>. QED
          BY <4>2, Zenon
      <4>. HIDE DEF g
      <4>. QED
        BY <4>3, Zenon
    <3>. QED
      BY <3>1, <3>2
  <2>3. \A n \in 1 .. m : g[n] = Row(g, n)
    <3>. HIDE DEF Row
    <3>1. \A n \in 1 .. m : n # m => n \in 1 .. (m - 1)
      OBVIOUS
    <3>2. \A n \in 1 .. (m - 1) : f[n] = Row(f, n)
      BY <2>1, Zenon
    <3>3. \A n \in 1 .. m : g[n] = Row(f, n)
      BY <3>1, <3>2, Zenon
    <3>. HIDE DEF g
    <3>. QED
      BY <2>2, <3>3, Zenon
  <2>4. Solves(g, m)
    <3>1. g = [n \in 1 .. m |-> g[n]]
      <4>. HIDE DEF Row
      <4>. QED
        OBVIOUS
    <3>. HIDE DEF g, Row
    <3>. QED
      BY <2>3, <3>1, Zenon
  <2>. HIDE DEF Solves
  <2>5. m \in Nat
    BY <1>1
  <2>. QED
    BY <2>4, <2>5
<1>4. N \in T
  <2>. HIDE DEF T, N
  <2>1. \A n \in 0 .. N : n \in T
    BY <1>1, <1>2, <1>3, BoundedInduction
  <2>. QED
    BY <1>1, <2>1
<1>5. ASSUME NEW f, Solves(f, N), NEW n \in 1 .. N, NEW lo \in 0 .. (N - n)
      PROVE  f[n][lo] = Cell(f, n, lo)
  <2>. HIDE DEF Cell, N
  <2>1. f[n] = Row(f, n)
    <3>. HIDE DEF Row
    <3>. QED
      BY <1>5, Zenon
  <2>2. Row(f, n)[lo] = Cell(f, n, lo)
    BY Zenon
  <2>. QED
    BY <2>1, <2>2, Zenon
<1>6. AuditPath(es, index) = (CHOOSE f : Solves(f, N))[N][0]
  BY Zenon DEF AuditPath
<1>. DEFINE h == CHOOSE f : Solves(f, N)
<1>7. Solves(h, N)
  <2>. HIDE DEF Solves, N
  <2>. QED
    BY <1>4, Zenon
<1>8. \A n \in 1 .. N : \A lo \in 0 .. (N - n) : h[n][lo] = Cell(h, n, lo)
  <2>. HIDE DEF Cell, Solves, N, h
  <2>. QED
    BY <1>5, <1>7, Zenon
<1>9. AuditPath(es, index) = h[N][0]
  <2>. HIDE DEF Solves, N
  <2>. QED
    BY <1>6, Zenon
<1>. HIDE DEF Cell, N, h
<1>. QED
  BY <1>8, <1>9, Zenon DEF Cell, N

\* _subproof: the proof of every subtree from that of its part with the end of the old log.
LEMMA ConsistencyProofEquations ==
    ASSUME NEW S, NEW es \in Seq(S), NEW first \in Nat
    PROVE  \E sub :
             /\ ConsistencyProof(es, first) = IF first = Len(es) THEN <<>> ELSE sub[Len(es)][0]
             /\ \A n \in 1 .. Len(es) : \A lo \in 0 .. (first - 1) :
                  sub[n][lo] =
                    IF lo + n <= first THEN (IF lo = 0 THEN <<>> ELSE <<Mth(es)[n][lo]>>)
                    ELSE IF first <= lo + SplitPoint(n)
                    THEN Append(sub[SplitPoint(n)][lo],
                                Mth(es)[n - SplitPoint(n)][lo + SplitPoint(n)])
                    ELSE Append(sub[n - SplitPoint(n)][lo + SplitPoint(n)],
                                Mth(es)[SplitPoint(n)][lo])
<1>. DEFINE N == Len(es)
            Cell(f, n, lo) == IF lo + n <= first THEN (IF lo = 0 THEN <<>> ELSE <<Mth(es)[n][lo]>>)
                              ELSE IF first <= lo + SplitPoint(n)
                              THEN Append(f[SplitPoint(n)][lo],
                                          Mth(es)[n - SplitPoint(n)][lo + SplitPoint(n)])
                              ELSE Append(f[n - SplitPoint(n)][lo + SplitPoint(n)],
                                          Mth(es)[SplitPoint(n)][lo])
            Row(f, n) == [lo \in 0 .. (first - 1) |-> Cell(f, n, lo)]
            Solves(f, top) == f = [n \in 1 .. top |-> Row(f, n)]
            T == {n \in Nat : \E f : Solves(f, n)}
<1>1. N \in Nat
  OBVIOUS
<1>2. 0 \in T
  <2>1. Solves([n \in 1 .. 0 |-> n], 0)
    OBVIOUS
  <2>. HIDE DEF Solves
  <2>. QED
    BY <2>1
<1>3. ASSUME NEW m \in 1 .. N, m - 1 \in T PROVE m \in T
  <2>1. PICK f : Solves(f, m - 1)
    BY <1>3
  <2>. DEFINE g == [n \in 1 .. m |-> IF n = m THEN Row(f, m) ELSE f[n]]
  <2>2. ASSUME NEW n \in 1 .. m PROVE Row(g, n) = Row(f, n)
    <3>1. CASE n = 1
      <4>1. \A lo \in 0 .. (first - 1) : lo + n <= first
        BY <3>1
      <4>2. \A lo \in 0 .. (first - 1) : Cell(g, n, lo) = Cell(f, n, lo)
        <5>. HIDE DEF g
        <5>. QED
          BY <4>1, Zenon
      <4>. HIDE DEF Cell, g
      <4>. QED
        BY <4>2, Zenon
    <3>2. CASE n # 1
      <4>1. SplitPoint(n) \in 1 .. (n - 1)
        BY <3>2, <1>1, SplitExists, SMTT(30)
      <4>2. /\ SplitPoint(n) \in 1 .. m /\ SplitPoint(n) # m
            /\ n - SplitPoint(n) \in 1 .. m /\ n - SplitPoint(n) # m
        BY <4>1
      <4>3. g[SplitPoint(n)] = f[SplitPoint(n)] /\ g[n - SplitPoint(n)] = f[n - SplitPoint(n)]
        <5>. HIDE DEF Row
        <5>. QED
          BY <4>2, Zenon
      <4>. HIDE DEF g
      <4>. QED
        BY <4>3, Zenon
    <3>. QED
      BY <3>1, <3>2
  <2>3. \A n \in 1 .. m : g[n] = Row(g, n)
    <3>. HIDE DEF Row
    <3>1. \A n \in 1 .. m : n # m => n \in 1 .. (m - 1)
      OBVIOUS
    <3>2. \A n \in 1 .. (m - 1) : f[n] = Row(f, n)
      BY <2>1, Zenon
    <3>3. \A n \in 1 .. m : g[n] = Row(f, n)
      BY <3>1, <3>2, Zenon
    <3>. HIDE DEF g
    <3>. QED
      BY <2>2, <3>3, Zenon
  <2>4. Solves(g, m)
    <3>1. g = [n \in 1 .. m |-> g[n]]
      <4>. HIDE DEF Row
      <4>. QED
        OBVIOUS
    <3>. HIDE DEF g, Row
    <3>. QED
      BY <2>3, <3>1, Zenon
  <2>. HIDE DEF Solves
  <2>5. m \in Nat
    BY <1>1
  <2>. QED
    BY <2>4, <2>5
<1>4. N \in T
  <2>. HIDE DEF T, N
  <2>1. \A n \in 0 .. N : n \in T
    BY <1>1, <1>2, <1>3, BoundedInduction
  <2>. QED
    BY <1>1, <2>1
<1>5. ASSUME NEW f, Solves(f, N), NEW n \in 1 .. N, NEW lo \in 0 .. (first - 1)
      PROVE  f[n][lo] = Cell(f, n, lo)
  <2>. HIDE DEF Cell, N
  <2>1. f[n] = Row(f, n)
    <3>. HIDE DEF Row
    <3>. QED
      BY <1>5, Zenon
  <2>2. Row(f, n)[lo] = Cell(f, n, lo)
    BY Zenon
  <2>. QED
    BY <2>1, <2>2, Zenon
<1>6. ConsistencyProof(es, first) = IF first = N THEN <<>> ELSE (CHOOSE f : Solves(f, N))[N][0]
  BY Zenon DEF ConsistencyProof
<1>. DEFINE h == CHOOSE f : Solves(f, N)
<1>7. Solves(h, N)
  <2>. HIDE DEF Solves, N
  <2>. QED
    BY <1>4, Zenon
<1>8. \A n \in 1 .. N : \A lo \in 0 .. (first - 1) : h[n][lo] = Cell(h, n, lo)
  <2>. HIDE DEF Cell, Solves, N, h
  <2>. QED
    BY <1>5, <1>7, Zenon
<1>9. ConsistencyProof(es, first) = IF first = N THEN <<>> ELSE h[N][0]
  <2>. HIDE DEF Solves, N
  <2>. QED
    BY <1>6, Zenon
<1>. HIDE DEF Cell, N, h
<1>. QED
  BY <1>8, <1>9, Zenon DEF Cell, N

\* compute_root_from_proof: the loop takes the steps of the path one by one.
LEMMA RootWalkEquations ==
    ASSUME NEW start, NEW path, Len(path) \in Nat
    PROVE  LET w == RootWalk(start, path)
           IN  /\ Len(path) >= 0 => w[0] = start
               /\ \A t \in 1 .. Len(path) : w[t] = RootStep(w[t - 1], path[t])
<1>. DEFINE N == Len(path)
            Cell(f, t) == IF t = 0 THEN start ELSE RootStep(f[t - 1], path[t])
            Solves(f, top) == f = [t \in 0 .. top |-> Cell(f, t)]
            T == {n \in Nat : \E f : Solves(f, n)}
<1>1. N \in Nat
  OBVIOUS
<1>2. 0 \in T
  <2>1. Solves([t \in 0 .. 0 |-> start], 0)
    OBVIOUS
  <2>. HIDE DEF Solves
  <2>. QED
    BY <2>1
<1>3. ASSUME NEW m \in 1 .. N, m - 1 \in T PROVE m \in T
  <2>1. PICK f : Solves(f, m - 1)
    BY <1>3
  <2>. DEFINE g == [t \in 0 .. m |-> IF t = m THEN Cell(f, m) ELSE f[t]]
  <2>2. ASSUME NEW t \in 0 .. m PROVE Cell(g, t) = Cell(f, t)
    <3>1. CASE t = 0
      BY <3>1
    <3>2. CASE t # 0
      <4>1. t - 1 \in 0 .. m /\ t - 1 # m
        BY <3>2, <1>1
      <4>2. g[t - 1] = f[t - 1]
        <5>. HIDE DEF Cell
        <5>. QED
          BY <4>1, Zenon
      <4>. HIDE DEF g
      <4>. QED
        BY <4>2, Zenon
    <3>. QED
      BY <3>1, <3>2
  <2>3. \A t \in 0 .. m : g[t] = Cell(g, t)
    <3>. HIDE DEF Cell
    <3>1. \A t \in 0 .. m : t # m => t \in 0 .. (m - 1)
      OBVIOUS
    <3>2. \A t \in 0 .. (m - 1) : f[t] = Cell(f, t)
      BY <2>1, Zenon
    <3>3. \A t \in 0 .. m : g[t] = Cell(f, t)
      BY <3>1, <3>2, Zenon
    <3>. HIDE DEF g
    <3>. QED
      BY <2>2, <3>3, Zenon
  <2>4. Solves(g, m)
    <3>1. g = [t \in 0 .. m |-> g[t]]
      <4>. HIDE DEF Cell
      <4>. QED
        OBVIOUS
    <3>. HIDE DEF g, Cell
    <3>. QED
      BY <2>3, <3>1, Zenon
  <2>. HIDE DEF Solves
  <2>5. m \in Nat
    BY <1>1
  <2>. QED
    BY <2>4, <2>5
<1>4. N \in T
  <2>. HIDE DEF T, N
  <2>1. \A n \in 0 .. N : n \in T
    BY <1>1, <1>2, <1>3, BoundedInduction
  <2>. QED
    BY <1>1, <2>1
<1>. DEFINE w == RootWalk(start, path)
<1>5. w = CHOOSE f : Solves(f, N)
  BY Zenon DEF RootWalk
<1>6. Solves(w, N)
  <2>. HIDE DEF Solves, N, w
  <2>. QED
    BY <1>4, <1>5, Zenon
<1>7. \A t \in 0 .. N : w[t] = Cell(w, t)
  <2>. HIDE DEF Cell, N, w
  <2>. QED
    BY <1>6, Zenon
<1>8. N >= 0 => w[0] = start
  <2>1. N >= 0 => 0 \in 0 .. N
    BY <1>1
  <2>. HIDE DEF N, w
  <2>. QED
    BY <1>7, <2>1, Zenon
<1>9. \A t \in 1 .. N : w[t] = RootStep(w[t - 1], path[t])
  <2>1. \A t \in 1 .. N : t \in 0 .. N /\ t # 0
    BY <1>1
  <2>. HIDE DEF N, w
  <2>. QED
    BY <1>7, <2>1, Zenon
<1>. QED
  BY <1>8, <1>9, Zenon

\* _fold_consistency_terms: the loop takes the terms from the second on one by one.
LEMMA TermWalkEquations ==
    ASSUME NEW start, NEW terms, Len(terms) \in Nat
    PROVE  LET w == TermWalk(start, terms)
           IN  /\ Len(terms) >= 1 => w[1] = start
               /\ \A t \in 2 .. Len(terms) : w[t] = TermStep(w[t - 1], terms[t])
<1>. DEFINE N == Len(terms)
            Cell(f, t) == IF t = 1 THEN start ELSE TermStep(f[t - 1], terms[t])
            Solves(f, top) == f = [t \in 1 .. top |-> Cell(f, t)]
            T == {n \in Nat : \E f : Solves(f, n)}
<1>1. N \in Nat
  OBVIOUS
<1>2. 0 \in T
  <2>1. Solves([t \in 1 .. 0 |-> start], 0)
    OBVIOUS
  <2>. HIDE DEF Solves
  <2>. QED
    BY <2>1
<1>3. ASSUME NEW m \in 1 .. N, m - 1 \in T PROVE m \in T
  <2>1. PICK f : Solves(f, m - 1)
    BY <1>3
  <2>. DEFINE g == [t \in 1 .. m |-> IF t = m THEN Cell(f, m) ELSE f[t]]
  <2>2. ASSUME NEW t \in 1 .. m PROVE Cell(g, t) = Cell(f, t)
    <3>1. CASE t = 1
      BY <3>1
    <3>2. CASE t # 1
      <4>1. t - 1 \in 1 .. m /\ t - 1 # m
        BY <3>2, <1>1
      <4>2. g[t - 1] = f[t - 1]
        <5>. HIDE DEF Cell
        <5>. QED
          BY <4>1, Zenon
      <4>. HIDE DEF g
      <4>. QED
        BY <4>2, Zenon
    <3>. QED
      BY <3>1, <3>2
  <2>3. \A t \in 1 .. m : g[t] = Cell(g, t)
    <3>. HIDE DEF Cell
    <3>1. \A t \in 1 .. m : t # m => t \in 1 .. (m - 1)
      OBVIOUS
    <3>2. \A t \in 1 .. (m - 1) : f[t] = Cell(f, t)
      BY <2>1, Zenon
    <3>3. \A t \in 1 .. m : g[t] = Cell(f, t)
      BY <3>1, <3>2, Zenon
    <3>. HIDE DEF g
    <3>. QED
      BY <2>2, <3>3, Zenon
  <2>4. Solves(g, m)
    <3>1. g = [t \in 1 .. m |-> g[t]]
      <4>. HIDE DEF Cell
      <4>. QED
        OBVIOUS
    <3>. HIDE DEF g, Cell
    <3>. QED
      BY <2>3, <3>1, Zenon
  <2>. HIDE DEF Solves
  <2>5. m \in Nat
    BY <1>1
  <2>. QED
    BY <2>4, <2>5
<1>4. N \in T
  <2>. HIDE DEF T, N
  <2>1. \A n \in 0 .. N : n \in T
    BY <1>1, <1>2, <1>3, BoundedInduction
  <2>. QED
    BY <1>1, <2>1
<1>. DEFINE w == TermWalk(start, terms)
<1>5. w = CHOOSE f : Solves(f, N)
  BY Zenon DEF TermWalk
<1>6. Solves(w, N)
  <2>. HIDE DEF Solves, N, w
  <2>. QED
    BY <1>4, <1>5, Zenon
<1>7. \A t \in 1 .. N : w[t] = Cell(w, t)
  <2>. HIDE DEF Cell, N, w
  <2>. QED
    BY <1>6, Zenon
<1>8. N >= 1 => w[1] = start
  <2>1. N >= 1 => 1 \in 1 .. N
    BY <1>1
  <2>. HIDE DEF N, w
  <2>. QED
    BY <1>7, <2>1, Zenon
<1>9. \A t \in 2 .. N : w[t] = TermStep(w[t - 1], terms[t])
  <2>1. \A t \in 2 .. N : t \in 1 .. N /\ t # 1
    BY <1>1
  <2>. HIDE DEF N, w
  <2>. QED
    BY <1>7, <2>1, Zenon
<1>. QED
  BY <1>8, <1>9, Zenon

\* The hash of the subtree over the positions lo .. hi - 1.
SubRoot(es, lo, hi) == Mth(es)[hi - lo][lo]

\* Hashes are free terms: what was hashed can be told from the hash.
LEMMA HashesAreFree ==
    /\ \A e, f : LeafHash(e) = LeafHash(f) <=> e = f
    /\ \A w, x, y, z : Node(w, x) = Node(y, z) <=> w = y /\ x = z
BY DEF LeafHash, Node

\* The equations of _mth, by the ends of the subtrees: a leaf.
LEMMA SubRootOfLeaf ==
    ASSUME NEW S, NEW es \in Seq(S), NEW lo \in Nat, lo < Len(es)
    PROVE  SubRoot(es, lo, lo + 1) = LeafHash(es[lo + 1])
<1>1. (lo + 1) - lo = 1 /\ 1 \in 1 .. Len(es) /\ lo \in 0 .. (Len(es) - 1)
  OBVIOUS
<1>2. Mth(es)[1][lo] = LeafHash(es[lo + 1])
  BY <1>1, MthEquations
<1>. QED
  BY <1>1, <1>2 DEF SubRoot

\* An inner node.
LEMMA SubRootOfNode ==
    ASSUME NEW S, NEW es \in Seq(S), NEW lo \in Nat, NEW mid \in Nat, NEW hi \in Nat,
           lo < mid, mid < hi, hi <= Len(es), SplitPoint(hi - lo) = mid - lo
    PROVE  SubRoot(es, lo, hi) = Node(SubRoot(es, lo, mid), SubRoot(es, mid, hi))
<1>1. hi - lo \in 1 .. Len(es) /\ hi - lo # 1 /\ lo \in 0 .. (Len(es) - (hi - lo))
  OBVIOUS
<1>2. Mth(es)[hi - lo][lo] = Node(Mth(es)[SplitPoint(hi - lo)][lo],
                                  Mth(es)[hi - lo - SplitPoint(hi - lo)][lo + SplitPoint(hi - lo)])
  BY <1>1, MthEquations
<1>3. hi - lo - (mid - lo) = hi - mid /\ lo + (mid - lo) = mid
  OBVIOUS
<1>. QED
  BY <1>2, <1>3, Zenon DEF SubRoot

\* A hash fixes the leaves under it: the trees over the same positions of two logs have
\* the same hash exactly if the entries at these positions are the same.
LEMMA SubRootsAgree ==
    ASSUME NEW S, NEW es \in Seq(S), NEW fs \in Seq(S), NEW lo \in Nat, NEW hi \in Nat,
           lo < hi, hi <= Len(es), hi <= Len(fs)
    PROVE  SubRoot(es, lo, hi) = SubRoot(fs, lo, hi) <=> \A i \in (lo + 1) .. hi : es[i] = fs[i]
<1>. DEFINE Same(a, b) == \A i \in (a + 1) .. b : es[i] = fs[i]
            Agree(a, b) == SubRoot(es, a, b) = SubRoot(fs, a, b) <=> Same(a, b)
            In(a, b) == a \in Nat /\ b \in Nat /\ a < b /\ b <= Len(es) /\ b <= Len(fs)
            T == {d \in Nat : \A a, b \in Nat : In(a, b) /\ b - a = d => Agree(a, b)}
<1>1. ASSUME NEW d \in 1 .. hi, \A c \in 1 .. (d - 1) : c \in T PROVE d \in T
  <2>. SUFFICES ASSUME NEW a \in Nat, NEW b \in Nat, In(a, b), b - a = d PROVE Agree(a, b)
    OBVIOUS
  <2>1. CASE d = 1
    <3>1. b = a + 1 /\ a < Len(es) /\ a < Len(fs)
      BY <2>1
    <3>2. SubRoot(es, a, b) = LeafHash(es[b]) /\ SubRoot(fs, a, b) = LeafHash(fs[b])
      BY <3>1, SubRootOfLeaf
    <3>3. Same(a, b) <=> es[b] = fs[b]
      BY <3>1
    <3>. QED
      BY <3>2, <3>3, HashesAreFree
  <2>2. CASE d # 1
    <3>. DEFINE k == SplitPoint(d)
                m == a + k
    <3>1. k \in 1 .. (d - 1)
      <4>1. d \in Nat /\ d >= 2
        BY <2>2
      <4>. HIDE DEF T, In, Agree, Same
      <4>. QED
        BY <4>1, SplitExists
    <3>. HIDE DEF k
    <3>2. m \in Nat /\ a < m /\ m < b /\ m - a = k /\ In(a, m) /\ In(m, b) /\ b - m \in 1 .. (d - 1)
      BY <3>1
    <3>3. SplitPoint(b - a) = m - a
      BY <3>2 DEF k
    <3>4. b <= Len(es) /\ b <= Len(fs)
      OBVIOUS
    <3>. HIDE DEF m, Same
    <3>5. /\ SubRoot(es, a, b) = Node(SubRoot(es, a, m), SubRoot(es, m, b))
          /\ SubRoot(fs, a, b) = Node(SubRoot(fs, a, m), SubRoot(fs, m, b))
      <4>. HIDE DEF In
      <4>. QED
        BY <3>2, <3>3, <3>4, SubRootOfNode
    <3>6. Agree(a, m) /\ Agree(m, b)
      <4>. HIDE DEF Agree, In
      <4>1. k \in T /\ b - m \in T
        BY <1>1, <3>1, <3>2, Zenon
      <4>. QED
        BY <3>2, <4>1
    <3>7. Same(a, b) <=> Same(a, m) /\ Same(m, b)
      <4>1. \A i \in Nat : i \in (a + 1) .. b <=> (i \in (a + 1) .. m \/ i \in (m + 1) .. b)
        BY <3>2
      <4>2. /\ \A i \in (a + 1) .. b : i \in Nat
            /\ \A i \in (a + 1) .. m : i \in Nat
            /\ \A i \in (m + 1) .. b : i \in Nat
        BY <3>2
      <4>. QED
        BY <4>1, <4>2, Zenon DEF Same
    <3>8. SubRoot(es, a, b) = SubRoot(fs, a, b) <=>
            SubRoot(es, a, m) = SubRoot(fs, a, m) /\ SubRoot(es, m, b) = SubRoot(fs, m, b)
      <4>1. Node(SubRoot(es, a, m), SubRoot(es, m, b)) = Node(SubRoot(fs, a, m), SubRoot(fs, m, b))
              <=> SubRoot(es, a, m) = SubRoot(fs, a, m) /\ SubRoot(es, m, b) = SubRoot(fs, m, b)
        BY HashesAreFree
      <4>. QED
        BY <3>5, <4>1
    <3>. QED
      BY <3>6, <3>7, <3>8, Zenon
  <2>. QED
    BY <2>1, <2>2
<1>2. \A d \in 1 .. hi : d \in T
  <2>. HIDE DEF T
  <2>. QED
    BY <1>1, BoundedStrongInduction
<1>3. hi - lo \in T
  <2>. HIDE DEF T
  <2>. QED
    BY <1>2
<1>4. Agree(lo, hi)
  <2>. HIDE DEF Agree
  <2>. QED
    BY <1>3
<1>. QED
  BY <1>4, Zenon

-----------------------------------------------------------------------------
(* The log: positions and subtrees                                         *)

\* Products by a positive number, as the steps below use them.
LEMMA Products ==
    ASSUME NEW x \in Nat, NEW y \in Nat, NEW p \in Nat
    PROVE  /\ x * p \in Nat
           /\ x < y => x * p + p <= y * p
           /\ x * (2 * p) = 2 * (x * p)
           /\ (2 * x) * p = 2 * (x * p)
           /\ (2 * x + 1) * p = 2 * (x * p) + p
           /\ (x * y) * p = x * (y * p)
<1>1. x * p \in Nat
  OBVIOUS
<1>2. ASSUME x < y PROVE x * p + p <= y * p
  <2>. DEFINE d == y - x - 1
  <2>1. d \in Nat /\ y = x + d + 1
    BY <1>2
  <2>. HIDE DEF d
  <2>2. (x + d + 1) * p = x * p + d * p + p /\ d * p \in Nat
    BY <2>1
  <2>. QED
    BY <1>1, <2>1, <2>2
<1>3. x * (2 * p) = 2 * (x * p) /\ (2 * x) * p = 2 * (x * p) /\ (2 * x + 1) * p = 2 * (x * p) + p
  OBVIOUS
<1>4. (x * y) * p = x * (y * p)
  OBVIOUS
<1>. QED
  BY <1>1, <1>2, <1>3, <1>4

\* How a quotient is recognised.
LEMMA QuotientIs ==
    ASSUME NEW a \in Nat, NEW b \in Nat, NEW q \in Nat, b >= 1, q * b <= a, a < q * b + b
    PROVE  a \div b = q
<1>. DEFINE c == a \div b
            r == a % b
<1>1. c \in Nat /\ r \in Nat /\ r < b /\ a = b * c + r
  OBVIOUS
<1>. HIDE DEF c, r
<1>2. b * c = c * b
  BY <1>1
<1>3. ~(c < q)
  <2>1. c < q => c * b + b <= q * b
    BY <1>1, Products
  <2>. QED
    BY <1>1, <1>2, <2>1
<1>4. ~(q < c)
  <2>1. q < c => q * b + b <= c * b
    BY <1>1, Products
  <2>. QED
    BY <1>1, <1>2, <2>1
<1>5. c = q
  BY <1>1, <1>3, <1>4
<1>. QED
  BY <1>5 DEF c

\* In a log of n entries, position fn of the level whose subtrees have P leaves, and
\* whose last position is sn, stands for the subtree of the positions lo .. hi - 1.
CoversBy(P, fn, sn, lo, hi, n) ==
    /\ IsPower(P) /\ fn \in Nat /\ sn \in Nat /\ lo \in Nat /\ hi \in Nat /\ n \in Nat
    /\ lo = fn * P /\ lo < n
    /\ sn * P < n /\ n <= sn * P + P
    /\ hi = IF lo + P <= n THEN lo + P ELSE n

Covers(fn, sn, lo, hi, n) == \E P : CoversBy(P, fn, sn, lo, hi, n)

\* What follows of a position that stands for a subtree: on the topmost level for all.
LEMMA CoversFacts ==
    ASSUME NEW fn, NEW sn, NEW lo, NEW hi, NEW n, Covers(fn, sn, lo, hi, n)
    PROVE  /\ fn \in Nat /\ sn \in Nat /\ lo \in Nat /\ hi \in Nat /\ n \in Nat
           /\ lo < hi /\ hi <= n /\ fn <= sn
           /\ sn = 0 => lo = 0 /\ hi = n
<1>1. PICK P : CoversBy(P, fn, sn, lo, hi, n)
  BY DEF Covers
<1>2. P \in Nat /\ P >= 1
  BY <1>1, PowerFacts DEF CoversBy
<1>3. fn \in Nat /\ sn \in Nat /\ lo \in Nat /\ hi \in Nat /\ n \in Nat /\ lo < hi /\ hi <= n
  BY <1>1, <1>2 DEF CoversBy
<1>4. fn <= sn
  <2>1. sn < fn => sn * P + P <= fn * P
    BY <1>2, <1>3, Products
  <2>. QED
    BY <1>1, <1>2, <1>3, <2>1 DEF CoversBy
<1>5. ASSUME sn = 0 PROVE lo = 0 /\ hi = n
  <2>1. fn = 0 /\ 0 * P = 0
    BY <1>2, <1>3, <1>4, <1>5
  <2>. QED
    BY <1>1, <1>2, <1>3, <1>5, <2>1 DEF CoversBy
<1>. QED
  BY <1>3, <1>4, <1>5

\* On the lowest level a position stands for its leaf.
LEMMA CoversLeaf ==
    ASSUME NEW n \in Nat, NEW index \in Nat, index < n
    PROVE  Covers(index, n - 1, index, index + 1, n)
<1>1. CoversBy(1, index, n - 1, index, index + 1, n)
  <2>1. IsPower(1)
    BY PowerFacts
  <2>2. index * 1 = index /\ (n - 1) * 1 = n - 1
    OBVIOUS
  <2>. QED
    BY <2>1, <2>2 DEF CoversBy
<1>. QED
  BY <1>1 DEF Covers

\* One level up, from a position that has a sibling there.
LEMMA UpOneLevel ==
    ASSUME NEW P, NEW fn, NEW sn, NEW lo, NEW hi, NEW n, CoversBy(P, fn, sn, lo, hi, n),
           Odd(fn) \/ fn < sn
    PROVE  /\ Odd(fn) =>
                /\ lo - P \in Nat /\ hi <= lo + P
                /\ CoversBy(2 * P, fn \div 2, sn \div 2, lo - P, hi, n)
           /\ ~Odd(fn) =>
                /\ hi = lo + P
                /\ \E phi \in Nat : /\ hi < phi /\ phi <= lo + 2 * P
                                    /\ CoversBy(2 * P, fn \div 2, sn \div 2, lo, phi, n)
<1>1. /\ P \in Nat /\ P >= 1 /\ IsPower(2 * P) /\ fn \in Nat /\ sn \in Nat /\ lo \in Nat
      /\ hi \in Nat /\ n \in Nat /\ lo = fn * P /\ lo < n /\ sn * P < n /\ n <= sn * P + P
      /\ hi = IF lo + P <= n THEN lo + P ELSE n
  BY PowerFacts DEF CoversBy
<1>. DEFINE g == fn \div 2
            t == sn \div 2
<1>2. g \in Nat /\ t \in Nat /\ (fn = 2 * g \/ fn = 2 * g + 1) /\ (sn = 2 * t \/ sn = 2 * t + 1)
      /\ (Odd(fn) <=> fn = 2 * g + 1)
  BY <1>1 DEF Odd
<1>. HIDE DEF g, t
<1>3. /\ g * P \in Nat /\ t * P \in Nat
      /\ g * (2 * P) = 2 * (g * P) /\ (2 * g) * P = 2 * (g * P) /\ (2 * g + 1) * P = 2 * (g * P) + P
      /\ t * (2 * P) = 2 * (t * P) /\ (2 * t) * P = 2 * (t * P) /\ (2 * t + 1) * P = 2 * (t * P) + P
  BY <1>1, <1>2, Products
<1>. DEFINE G == g * P
            H == t * P
<1>4. t * (2 * P) < n /\ n <= t * (2 * P) + 2 * P
  <2>1. sn * P = 2 * H \/ sn * P = 2 * H + P
    BY <1>2, <1>3
  <2>2. H \in Nat /\ t * (2 * P) = 2 * H
    BY <1>3
  <2>. HIDE DEF H
  <2>. QED
    BY <1>1, <2>1, <2>2
<1>5. ASSUME Odd(fn)
      PROVE  lo - P \in Nat /\ hi <= lo + P /\ CoversBy(2 * P, g, t, lo - P, hi, n)
  <2>1. lo = 2 * G + P /\ G \in Nat /\ g * (2 * P) = 2 * G
    BY <1>1, <1>2, <1>3, <1>5
  <2>. HIDE DEF G
  <2>2. lo - P \in Nat /\ lo - P = g * (2 * P) /\ lo - P < n /\ lo - P + 2 * P = lo + P
    BY <1>1, <2>1
  <2>3. hi = (IF lo - P + 2 * P <= n THEN lo - P + 2 * P ELSE n) /\ hi <= lo + P
    BY <1>1, <2>2
  <2>. QED
    BY <1>1, <1>2, <1>4, <2>2, <2>3 DEF CoversBy
<1>6. ASSUME ~Odd(fn)
      PROVE  /\ hi = lo + P
             /\ \E phi \in Nat : /\ hi < phi /\ phi <= lo + 2 * P
                                 /\ CoversBy(2 * P, g, t, lo, phi, n)
  <2>1. lo = 2 * G /\ g * (2 * P) = 2 * G
    BY <1>1, <1>2, <1>3, <1>6
  <2>2. lo + P < n
    <3>1. fn * P + P <= sn * P
      BY <1>1, <1>6, Products
    <3>2. sn * P \in Nat
      BY <1>1, Products
    <3>. QED
      BY <1>1, <3>1, <3>2
  <2>. DEFINE phi == IF lo + 2 * P <= n THEN lo + 2 * P ELSE n
  <2>3. hi = lo + P /\ phi \in Nat /\ hi < phi /\ phi <= lo + 2 * P
    BY <1>1, <2>2
  <2>4. CoversBy(2 * P, g, t, lo, phi, n)
    BY <1>1, <1>2, <1>4, <2>1, <2>3 DEF CoversBy
  <2>. HIDE DEF phi
  <2>. QED
    BY <2>3, <2>4
<1>. QED
  BY <1>5, <1>6 DEF g, t

\* A last position without a sibling stands for the same subtree on every level up to
\* the first on which it is odd.
LEMMA UpToSibling ==
    ASSUME NEW P, NEW fn, NEW lo, NEW hi, NEW n, NEW o \in Nat, NEW z \in Nat,
           CoversBy(P, fn, fn, lo, hi, n), fn = o * Pow2[z]
    PROVE  CoversBy(Pow2[z] * P, o, o, lo, hi, n)
<1>. DEFINE q == Pow2[z]
            Q == q * P
<1>1. IsPower(q) /\ IsPower(P) /\ q \in Nat /\ q >= 1 /\ P \in Nat /\ P >= 1
  BY Pow2Equations, PowerFacts DEF IsPower, CoversBy
<1>2. fn * P = o * Q /\ o * Q \in Nat
  BY <1>1, Products
<1>3. IsPower(Q) /\ Q \in Nat
  BY <1>1, PowerFacts
<1>4. P <= Q
  <2>1. 0 * P + P <= q * P
    BY <1>1, Products
  <2>. QED
    BY <1>1, <2>1
<1>. HIDE DEF q, Q
<1>5. lo \in Nat /\ hi \in Nat /\ n \in Nat /\ lo = o * Q /\ lo < n /\ n <= lo + P /\ hi = n
  BY <1>1, <1>2 DEF CoversBy
<1>6. n <= o * Q + Q /\ o * Q < n /\ hi = IF lo + Q <= n THEN lo + Q ELSE n
  BY <1>1, <1>3, <1>4, <1>5
<1>7. CoversBy(Q, o, o, lo, hi, n)
  BY <1>3, <1>5, <1>6 DEF CoversBy
<1>. QED
  BY <1>7 DEF q, Q

\* The position above s, and what it stands for: the subtree with its sibling.
UpFn(s) == s.fn \div Pow2[LevelsUp(s)]
UpSn(s) == s.sn \div Pow2[LevelsUp(s)]

\* Whether the sibling is on the left.
OnRight(s) == Odd(s.fn) \/ s.fn = s.sn

\* The subtree from plo on is split at lo, wherever between lo and hi it ends.
SplitAt(plo, lo, hi) == plo < lo /\ \A m \in (lo + 1) .. hi : SplitPoint(m - plo) = lo - plo

\* Past the levels without a sibling, the position above stands for the subtree with the
\* sibling on the left; with a shorter log it would be split at the same place.
LEMMA ClimbRight ==
    ASSUME NEW s, NEW lo, NEW hi, NEW n, Covers(s.fn, s.sn, lo, hi, n), s.sn # 0,
           OnRight(s)
    PROVE  \E plo \in Nat : Covers(UpFn(s), UpSn(s), plo, hi, n) /\ SplitAt(plo, lo, hi)
<1>. USE DEF OnRight
<1>0. s.fn \in Nat /\ s.sn \in Nat /\ lo \in Nat /\ hi \in Nat /\ n \in Nat
  BY CoversFacts
<1>1. PICK P : CoversBy(P, s.fn, s.sn, lo, hi, n)
  BY DEF Covers
<1>2. \E Q, o, t : /\ CoversBy(Q, o, t, lo, hi, n) /\ Odd(o)
                   /\ UpFn(s) = o \div 2 /\ UpSn(s) = t \div 2
  <2>1. CASE Odd(s.fn)
    <3>1. LevelsUp(s) = 1
      BY <2>1 DEF LevelsUp
    <3>2. Pow2[1] = 2
      <4>1. Pow2[0 + 1] = 2 * Pow2[0] /\ Pow2[0] = 1
        BY Pow2Equations
      <4>. QED
        BY <4>1
    <3>. QED
      BY <1>1, <2>1, <3>1, <3>2 DEF UpFn, UpSn
  <2>2. CASE ~Odd(s.fn)
    <3>1. s.fn = s.sn /\ s.fn >= 1
      BY <1>0, <2>2
    <3>. DEFINE z == LowZeros(s.fn)
    <3>2. z \in Nat /\ \E o \in Nat : Odd(o) /\ s.fn = o * Pow2[z]
      BY <1>0, <3>1, LowZerosSplits
    <3>3. LevelsUp(s) = z + 1
      BY <2>2, <3>1 DEF LevelsUp
    <3>. HIDE DEF z
    <3>4. PICK o \in Nat : Odd(o) /\ s.fn = o * Pow2[z]
      BY <3>2
    <3>5. CoversBy(Pow2[z] * P, o, o, lo, hi, n)
      BY <1>1, <3>1, <3>2, <3>4, UpToSibling
    <3>6. s.fn \div Pow2[z + 1] = o \div 2
      <4>. DEFINE q == Pow2[z]
                  g == o \div 2
      <4>1. Pow2[z + 1] = 2 * q /\ q \in Nat /\ q >= 1
        BY <3>2, Pow2Equations, Pow2Grows
      <4>2. g \in Nat /\ o = 2 * g + 1
        BY <3>4 DEF Odd
      <4>. HIDE DEF q, g
      <4>3. s.fn = 2 * (g * q) + q /\ g * (2 * q) = 2 * (g * q) /\ g * q \in Nat
        <5>1. s.fn = (2 * g + 1) * q
          BY <3>4, <4>2 DEF q
        <5>. QED
          BY <4>1, <4>2, <5>1, Products
      <4>4. s.fn \div (2 * q) = g
        <5>1. g * (2 * q) <= s.fn /\ s.fn < g * (2 * q) + 2 * q /\ 2 * q \in Nat /\ 2 * q >= 1
          BY <4>1, <4>3
        <5>. QED
          BY <1>0, <4>2, <5>1, QuotientIs
      <4>. QED
        BY <4>1, <4>4 DEF g
    <3>. QED
      BY <3>1, <3>3, <3>4, <3>5, <3>6 DEF UpFn, UpSn
  <2>. QED
    BY <2>1, <2>2
<1>3. PICK Q, o, t : /\ CoversBy(Q, o, t, lo, hi, n) /\ Odd(o)
                     /\ UpFn(s) = o \div 2 /\ UpSn(s) = t \div 2
  BY <1>2
<1>4. lo - Q \in Nat /\ hi <= lo + Q /\ CoversBy(2 * Q, UpFn(s), UpSn(s), lo - Q, hi, n)
  BY <1>3, UpOneLevel
<1>5. IsPower(Q) /\ Q \in Nat /\ Q >= 1
  BY <1>3, PowerFacts DEF CoversBy
<1>6. ASSUME NEW m \in (lo + 1) .. hi PROVE SplitPoint(m - (lo - Q)) = Q
  <2>1. m - (lo - Q) \in Nat /\ m - (lo - Q) >= 2 /\ Q < m - (lo - Q) /\ m - (lo - Q) <= 2 * Q
    BY <1>0, <1>4, <1>5
  <2>. QED
    BY <1>5, <2>1, SplitExists
<1>7. lo - Q < lo /\ lo - (lo - Q) = Q
  BY <1>0, <1>5
<1>8. Covers(UpFn(s), UpSn(s), lo - Q, hi, n)
  BY <1>4 DEF Covers
<1>9. SplitAt(lo - Q, lo, hi)
  BY <1>6, <1>7, Zenon DEF SplitAt
<1>. QED
  BY <1>4, <1>8, <1>9

\* The same with the sibling on the right.
LEMMA ClimbLeft ==
    ASSUME NEW s, NEW lo, NEW hi, NEW n, Covers(s.fn, s.sn, lo, hi, n),
           ~OnRight(s)
    PROVE  \E phi \in Nat : /\ Covers(UpFn(s), UpSn(s), lo, phi, n) /\ hi < phi
                            /\ SplitPoint(phi - lo) = hi - lo
<1>. USE DEF OnRight
<1>0. s.fn \in Nat /\ s.sn \in Nat /\ lo \in Nat /\ hi \in Nat /\ n \in Nat /\ s.fn < s.sn
  BY CoversFacts
<1>1. PICK P : CoversBy(P, s.fn, s.sn, lo, hi, n)
  BY DEF Covers
<1>2. UpFn(s) = s.fn \div 2 /\ UpSn(s) = s.sn \div 2
  <2>1. LevelsUp(s) = 1
    BY DEF LevelsUp
  <2>2. Pow2[1] = 2
    <3>1. Pow2[0 + 1] = 2 * Pow2[0] /\ Pow2[0] = 1
      BY Pow2Equations
    <3>. QED
      BY <3>1
  <2>. QED
    BY <2>1, <2>2 DEF UpFn, UpSn
<1>3. /\ hi = lo + P
      /\ \E phi \in Nat : /\ hi < phi /\ phi <= lo + 2 * P
                          /\ CoversBy(2 * P, s.fn \div 2, s.sn \div 2, lo, phi, n)
  BY <1>0, <1>1, UpOneLevel
<1>4. PICK phi \in Nat : /\ hi < phi /\ phi <= lo + 2 * P
                         /\ CoversBy(2 * P, s.fn \div 2, s.sn \div 2, lo, phi, n)
  BY <1>3
<1>5. IsPower(P) /\ P \in Nat /\ P >= 1
  BY <1>1, PowerFacts DEF CoversBy
<1>6. SplitPoint(phi - lo) = P
  <2>1. phi - lo \in Nat /\ phi - lo >= 2 /\ P < phi - lo /\ phi - lo <= 2 * P
    BY <1>0, <1>3, <1>4, <1>5
  <2>. QED
    BY <1>5, <2>1, SplitExists
<1>7. Covers(UpFn(s), UpSn(s), lo, phi, n)
  BY <1>2, <1>4, Zenon DEF Covers
<1>8. hi - lo = P
  BY <1>0, <1>3, <1>5
<1>. QED
  BY <1>4, <1>6, <1>7, <1>8

-----------------------------------------------------------------------------
(* The log: inclusion proofs                                               *)

\* A list of hashes, of whatever kind.
IsList(p) == \E H : p \in Seq(H)

\* What the proofs use of lists, without naming what is in them.
LEMMA ListFacts ==
    /\ IsList(<<>>) /\ Len(<<>>) = 0
    /\ \A c : IsList(<<c>>) /\ Len(<<c>>) = 1 /\ <<c>>[1] = c
    /\ \A p : IsList(p) => Len(p) \in Nat /\ (Len(p) = 0 <=> p = <<>>)
    /\ \A p, c : IsList(p) => /\ IsList(Append(p, c)) /\ Len(Append(p, c)) = Len(p) + 1
                              /\ Append(p, c)[Len(p) + 1] = c
                              /\ \A i \in 1 .. Len(p) : Append(p, c)[i] = p[i]
<1>. USE DEF IsList
<1>1. IsList(<<>>) /\ Len(<<>>) = 0
  <2>1. <<>> \in Seq({})
    OBVIOUS
  <2>. QED
    BY <2>1
<1>2. ASSUME NEW c PROVE IsList(<<c>>) /\ Len(<<c>>) = 1 /\ <<c>>[1] = c
  <2>1. <<c>> \in Seq({c})
    OBVIOUS
  <2>. QED
    BY <2>1
<1>3. ASSUME NEW p, IsList(p) PROVE Len(p) \in Nat /\ (Len(p) = 0 <=> p = <<>>)
  <2>1. PICK H : p \in Seq(H)
    BY <1>3
  <2>. QED
    BY <2>1
<1>4. ASSUME NEW p, NEW c, IsList(p)
      PROVE  /\ IsList(Append(p, c)) /\ Len(Append(p, c)) = Len(p) + 1
             /\ Append(p, c)[Len(p) + 1] = c
             /\ \A i \in 1 .. Len(p) : Append(p, c)[i] = p[i]
  <2>1. PICK H : p \in Seq(H)
    BY <1>4
  <2>2. p \in Seq(H \cup {c})
    BY <2>1
  <2>3. Append(p, c) \in Seq(H \cup {c})
    BY <2>2
  <2>. QED
    BY <2>2, <2>3
<1>. QED
  BY <1>1, <1>2, <1>3, <1>4

\* The root of a log is that of its topmost subtree, and never the empty answer.
LEMMA RootsAreHashes ==
    ASSUME NEW S, NEW es \in Seq(S)
    PROVE  /\ TreeRoot(es) # NoRoot
           /\ Len(es) \in Nat
           /\ Len(es) > 0 => TreeRoot(es) = SubRoot(es, 0, Len(es))
<1>1. Len(es) \in Nat
  OBVIOUS
<1>2. CASE es = <<>>
  BY <1>2 DEF TreeRoot, NoRoot, EmptyTree
<1>3. CASE es # <<>>
  <2>1. Len(es) > 0 /\ Len(es) \in 1 .. Len(es) /\ 0 \in 0 .. (Len(es) - Len(es)) /\ Len(es) - 0 = Len(es)
    BY <1>3
  <2>2. TreeRoot(es) = Mth(es)[Len(es)][0]
    BY <1>3, Zenon DEF TreeRoot
  <2>3. \/ Mth(es)[Len(es)][0] = LeafHash(es[0 + 1])
        \/ Mth(es)[Len(es)][0] = Node(Mth(es)[SplitPoint(Len(es))][0],
                             Mth(es)[Len(es) - SplitPoint(Len(es))][0 + SplitPoint(Len(es))])
    BY <2>1, MthEquations
  <2>4. \A x, y : LeafHash(x) # NoRoot /\ Node(x, y) # NoRoot
    BY DEF LeafHash, Node, NoRoot
  <2>5. Mth(es)[Len(es)][0] # NoRoot
    BY <2>3, <2>4, Zenon
  <2>. QED
    BY <2>1, <2>2, <2>5 DEF SubRoot
<1>. QED
  BY <1>1, <1>2, <1>3

\* A state of the loop, and what one step does to it.
RootState(s) == s = [fn |-> s.fn, sn |-> s.sn, r |-> s.r, bad |-> s.bad] /\ s.bad \in BOOLEAN

\* What one step does to each field.
LEMMA RootStepFields ==
    ASSUME NEW s, NEW c, NEW u, RootState(s), u = RootStep(s, c)
    PROVE  /\ RootState(u)
           /\ s.sn = 0 => u.bad = TRUE
           /\ s.sn # 0 => /\ u.bad = s.bad /\ u.fn = UpFn(s) /\ u.sn = UpSn(s)
                          /\ OnRight(s) => u.r = Node(c, s.r)
                          /\ ~OnRight(s) => u.r = Node(s.r, c)
<1>. USE DEF RootState
<1>1. CASE s.sn = 0
  <2>1. u = [fn |-> s.fn, sn |-> s.sn, r |-> s.r, bad |-> TRUE]
    BY <1>1 DEF RootStep
  <2>. QED
    BY <1>1, <2>1
<1>2. CASE s.sn # 0
  <2>. DEFINE up == IF OnRight(s) THEN Node(c, s.r) ELSE Node(s.r, c)
  <2>1. u = Climb([s EXCEPT !.r = up], LevelsUp(s))
    BY <1>2, Zenon DEF RootStep, OnRight
  <2>2. up = IF OnRight(s) THEN Node(c, s.r) ELSE Node(s.r, c)
    OBVIOUS
  <2>. HIDE DEF up
  <2>3. [s EXCEPT !.r = up] = [fn |-> s.fn, sn |-> s.sn, r |-> up, bad |-> s.bad]
    OBVIOUS
  <2>4. u = [fn |-> UpFn(s), sn |-> UpSn(s), r |-> up, bad |-> s.bad]
    BY <2>1, <2>3 DEF Climb, UpFn, UpSn
  <2>5. RootState(u) /\ u.bad = s.bad /\ u.fn = UpFn(s) /\ u.sn = UpSn(s) /\ u.r = up
    BY <2>4
  <2>. QED
    BY <1>2, <2>2, <2>5
<1>. QED
  BY <1>1, <1>2

\* What the loop of compute_root_from_proof has shown when it has come to s: if its hash is
\* that of the subtree its position stands for, the entry is the one of the log.
LeafFixed(es, e, index, s) ==
    /\ RootState(s)
    /\ s.bad = TRUE \/ \E lo, hi \in Nat :
         /\ Covers(s.fn, s.sn, lo, hi, Len(es)) /\ lo <= index /\ index < hi
         /\ s.r = SubRoot(es, lo, hi) => e = es[index + 1]

\* A step keeps what the loop has shown, whatever hash the proof names: the hash above
\* fixes the one below.
LEMMA LeafStaysFixed ==
    ASSUME NEW S, NEW es \in Seq(S), NEW e, NEW index \in Nat, NEW s, NEW c,
           LeafFixed(es, e, index, s)
    PROVE  LeafFixed(es, e, index, RootStep(s, c))
<1>. DEFINE u == RootStep(s, c)
            n == Len(es)
<1>0. n \in Nat /\ n = Len(es)
  OBVIOUS
<1>. HIDE DEF u, n
<1>1. RootState(s) /\ RootState(u) /\ u = RootStep(s, c)
  BY RootStepFields DEF LeafFixed, u
<1>. SUFFICES LeafFixed(es, e, index, u)
  BY DEF u
<1>2. CASE s.sn = 0
  BY <1>1, <1>2, RootStepFields DEF LeafFixed
<1>3. CASE s.sn # 0 /\ s.bad = TRUE
  BY <1>1, <1>3, RootStepFields DEF LeafFixed
<1>4. CASE s.sn # 0 /\ s.bad # TRUE
  <2>0. s.sn # 0
    BY <1>4
  <2>1. PICK lo \in Nat, hi \in Nat :
             /\ Covers(s.fn, s.sn, lo, hi, n) /\ lo <= index /\ index < hi
             /\ s.r = SubRoot(es, lo, hi) => e = es[index + 1]
    BY <1>0, <1>4, Zenon DEF LeafFixed
  <2>2. lo < hi /\ hi <= n
    BY <2>1, CoversFacts
  <2>3. CASE OnRight(s)
    <3>1. u.fn = UpFn(s) /\ u.sn = UpSn(s) /\ u.r = Node(c, s.r)
      BY <1>1, <2>0, <2>3, RootStepFields
    <3>2. PICK plo \in Nat : Covers(UpFn(s), UpSn(s), plo, hi, n) /\ SplitAt(plo, lo, hi)
      <4>1. Covers(s.fn, s.sn, lo, hi, n)
        BY <2>1
      <4>. QED
        BY <2>0, <2>3, <4>1, ClimbRight, Zenon
    <3>3. plo < lo /\ SplitPoint(hi - plo) = lo - plo
      BY <2>2, <3>2 DEF SplitAt
    <3>4. SubRoot(es, plo, hi) = Node(SubRoot(es, plo, lo), SubRoot(es, lo, hi))
      BY <1>0, <2>2, <3>2, <3>3, SubRootOfNode
    <3>5. ASSUME u.r = SubRoot(es, plo, hi) PROVE e = es[index + 1]
      <4>1. Node(c, s.r) = Node(SubRoot(es, plo, lo), SubRoot(es, lo, hi))
        BY <3>1, <3>4, <3>5
      <4>2. s.r = SubRoot(es, lo, hi)
        BY <4>1, HashesAreFree
      <4>. QED
        BY <2>1, <4>2
    <3>6. plo <= index
      BY <2>1, <3>3
    <3>. QED
      BY <1>0, <1>1, <2>1, <3>1, <3>2, <3>5, <3>6 DEF LeafFixed
  <2>4. CASE ~OnRight(s)
    <3>1. u.fn = UpFn(s) /\ u.sn = UpSn(s) /\ u.r = Node(s.r, c)
      BY <1>1, <2>0, <2>4, RootStepFields, ZenonT(60)
    <3>2. PICK phi \in Nat : /\ Covers(UpFn(s), UpSn(s), lo, phi, n) /\ hi < phi
                             /\ SplitPoint(phi - lo) = hi - lo
      BY <2>1, <2>4, ClimbLeft, Zenon
    <3>3. phi <= n
      BY <3>2, CoversFacts
    <3>4. SubRoot(es, lo, phi) = Node(SubRoot(es, lo, hi), SubRoot(es, hi, phi))
      BY <1>0, <2>2, <3>2, <3>3, SubRootOfNode
    <3>5. ASSUME u.r = SubRoot(es, lo, phi) PROVE e = es[index + 1]
      <4>1. Node(s.r, c) = Node(SubRoot(es, lo, hi), SubRoot(es, hi, phi))
        BY <3>1, <3>4, <3>5
      <4>2. s.r = SubRoot(es, lo, hi)
        BY <4>1, HashesAreFree
      <4>. QED
        BY <2>1, <4>2
    <3>6. index < phi
      BY <2>1, <3>2
    <3>. QED
      BY <1>0, <1>1, <2>1, <3>1, <3>2, <3>5, <3>6 DEF LeafFixed
  <2>. QED
    BY <2>3, <2>4
<1>. QED
  BY <1>1, <1>2, <1>3, <1>4

\* An inclusion proof that verifies against the root of a log is of an entry of the log, at
\* the index it names: no list of hashes whatever makes verify_inclusion accept another one.
THEOREM InclusionIsSound ==
    ASSUME NEW S, NEW es \in Seq(S), NEW e, NEW proof,
           IsList(proof.path), proof.index \in Int,
           VerifyInclusion(e, proof, SignedHead(es))
    PROVE  proof.index \in 0 .. (Len(es) - 1) /\ es[proof.index + 1] = e
<1>. DEFINE n == Len(es)
            index == proof.index
            path == proof.path
            start == [fn |-> index, sn |-> n - 1, r |-> LeafHash(e), bad |-> FALSE]
            w == RootWalk(start, path)
            final == w[Len(path)]
<1>1. n \in Nat /\ Len(path) \in Nat
  BY ListFacts
<1>2. ComputeRoot(LeafHash(e), index, n, path) = TreeRoot(es)
  BY DEF VerifyInclusion, SignedHead
<1>3. 0 <= index /\ index < n /\ final.bad # TRUE /\ final.sn = 0 /\ final.r = TreeRoot(es)
  <2>1. TreeRoot(es) # NoRoot
    BY RootsAreHashes
  <2>. HIDE DEF n, index, path
  <2>. QED
    BY <1>2, <2>1, Zenon DEF ComputeRoot
<1>4. index \in Nat /\ n > 0
  BY <1>1, <1>3
<1>5. w[0] = start /\ \A t \in 1 .. Len(path) : w[t] = RootStep(w[t - 1], path[t])
  <2>. HIDE DEF start, path
  <2>1. Len(path) >= 0
    BY <1>1
  <2>. QED
    BY <1>1, <2>1, RootWalkEquations
<1>6. LeafFixed(es, e, index, w[0])
  <2>1. RootState(start) /\ start.fn = index /\ start.sn = n - 1 /\ start.r = LeafHash(e)
    BY DEF RootState
  <2>2. Covers(index, n - 1, index, index + 1, n)
    <3>. HIDE DEF n, index
    <3>. QED
      BY <1>1, <1>3, <1>4, CoversLeaf
  <2>3. SubRoot(es, index, index + 1) = LeafHash(es[index + 1])
    <3>. HIDE DEF index
    <3>. QED
      BY <1>3, <1>4, SubRootOfLeaf
  <2>4. start.r = SubRoot(es, index, index + 1) => e = es[index + 1]
    BY <2>1, <2>3, HashesAreFree
  <2>5. index + 1 \in Nat /\ index <= index /\ index < index + 1
    BY <1>4
  <2>. HIDE DEF start, index, w
  <2>. QED
    BY <1>4, <1>5, <2>1, <2>2, <2>4, <2>5 DEF LeafFixed
<1>. DEFINE T == {t \in Nat : LeafFixed(es, e, index, w[t])}
<1>7. 0 \in T
  BY <1>6
<1>8. ASSUME NEW t \in 1 .. Len(path), t - 1 \in T PROVE t \in T
  <2>. HIDE DEF w, path, index
  <2>1. LeafFixed(es, e, index, RootStep(w[t - 1], path[t]))
    BY <1>4, <1>8, LeafStaysFixed
  <2>2. t \in Nat
    OBVIOUS
  <2>. QED
    BY <1>5, <2>1, <2>2
<1>9. Len(path) \in T
  <2>. HIDE DEF T, path
  <2>1. \A t \in 0 .. Len(path) : t \in T
    BY <1>1, <1>7, <1>8, BoundedInduction
  <2>. QED
    BY <1>1, <2>1
<1>10. LeafFixed(es, e, index, final)
  BY <1>9
<1>. HIDE DEF final, w, path, index
<1>11. PICK lo \in Nat, hi \in Nat :
          /\ Covers(final.fn, final.sn, lo, hi, n) /\ lo <= index /\ index < hi
          /\ final.r = SubRoot(es, lo, hi) => e = es[index + 1]
  BY <1>3, <1>10, Zenon DEF LeafFixed
<1>12. lo = 0 /\ hi = n
  BY <1>3, <1>11, CoversFacts
<1>13. TreeRoot(es) = SubRoot(es, 0, n)
  BY <1>4, RootsAreHashes
<1>14. es[index + 1] = e
  BY <1>3, <1>11, <1>12, <1>13
<1>. QED
  BY <1>1, <1>3, <1>4, <1>14 DEF index

\* One more step of the path is one more step of the loop.
LEMMA RootWalkAppend ==
    ASSUME NEW start, NEW p, NEW c, IsList(p)
    PROVE  RootWalk(start, Append(p, c))[Len(Append(p, c))] = RootStep(RootWalk(start, p)[Len(p)], c)
<1>. DEFINE q == Append(p, c)
            N == Len(p)
            v == RootWalk(start, p)
            w == RootWalk(start, q)
<1>1. N \in Nat /\ Len(q) = N + 1 /\ q[N + 1] = c /\ \A i \in 1 .. N : q[i] = p[i]
  BY ListFacts
<1>2. v[0] = start /\ \A t \in 1 .. N : v[t] = RootStep(v[t - 1], p[t])
  <2>1. Len(p) \in Nat /\ Len(p) >= 0
    BY <1>1
  <2>. QED
    BY <2>1, RootWalkEquations
<1>. HIDE DEF q
<1>3. w[0] = start /\ \A t \in 1 .. (N + 1) : w[t] = RootStep(w[t - 1], q[t])
  <2>1. Len(q) \in Nat /\ Len(q) >= 0
    BY <1>1
  <2>. QED
    BY <1>1, <2>1, RootWalkEquations
<1>. HIDE DEF N, v, w
<1>. DEFINE T == {t \in Nat : v[t] = w[t]}
<1>4. 0 \in T
  BY <1>2, <1>3
<1>5. ASSUME NEW t \in 1 .. N, t - 1 \in T PROVE t \in T
  <2>1. t \in Nat /\ t \in 1 .. (N + 1)
    BY <1>1
  <2>2. v[t] = RootStep(v[t - 1], p[t]) /\ w[t] = RootStep(w[t - 1], q[t]) /\ q[t] = p[t]
    BY <1>1, <1>2, <1>3, <2>1
  <2>. QED
    BY <1>5, <2>1, <2>2
<1>6. N \in T
  <2>. HIDE DEF T
  <2>1. \A t \in 0 .. N : t \in T
    BY <1>1, <1>4, <1>5, BoundedInduction
  <2>. QED
    BY <1>1, <2>1
<1>7. w[N + 1] = RootStep(w[N], c)
  <2>1. N + 1 \in 1 .. (N + 1) /\ (N + 1) - 1 = N
    BY <1>1
  <2>. QED
    BY <1>1, <1>3, <2>1
<1>. QED
  BY <1>1, <1>6, <1>7 DEF q, N, v, w

\* _audit_path, by the ends of the subtrees.
LEMMA AuditPathParts ==
    ASSUME NEW S, NEW es \in Seq(S), NEW index
    PROVE  \E path :
             /\ AuditPath(es, index) = path[Len(es)][0]
             /\ \A lo \in 0 .. (Len(es) - 1) : path[1][lo] = <<>>
             /\ \A lo, mid, hi \in Nat :
                  lo < mid /\ mid < hi /\ hi <= Len(es) /\ SplitPoint(hi - lo) = mid - lo =>
                  path[hi - lo][lo] = IF index < mid
                                      THEN Append(path[mid - lo][lo], SubRoot(es, mid, hi))
                                      ELSE Append(path[hi - mid][mid], SubRoot(es, lo, mid))
<1>. DEFINE m == Mth(es)
            Node1(path, n, lo) ==
              path[n][lo] = IF n = 1 THEN <<>>
                    ELSE IF index < lo + SplitPoint(n)
                    THEN Append(path[SplitPoint(n)][lo],
                                m[n - SplitPoint(n)][lo + SplitPoint(n)])
                    ELSE Append(path[n - SplitPoint(n)][lo + SplitPoint(n)],
                                m[SplitPoint(n)][lo])
<1>1. PICK path : /\ AuditPath(es, index) = path[Len(es)][0]
                  /\ \A n \in 1 .. Len(es) : \A lo \in 0 .. (Len(es) - n) : Node1(path, n, lo)
  BY AuditPathEquations
<1>2. ASSUME NEW lo \in 0 .. (Len(es) - 1) PROVE path[1][lo] = <<>>
  <2>1. 1 \in 1 .. Len(es)
    OBVIOUS
  <2>2. Node1(path, 1, lo)
    <3>. HIDE DEF Node1
    <3>. QED
      BY <1>1, <2>1
  <2>. QED
    BY <2>2, Zenon
<1>3. ASSUME NEW lo \in Nat, NEW mid \in Nat, NEW hi \in Nat, lo < mid, mid < hi,
             hi <= Len(es), SplitPoint(hi - lo) = mid - lo
      PROVE  path[hi - lo][lo] = IF index < mid
                                 THEN Append(path[mid - lo][lo], SubRoot(es, mid, hi))
                                 ELSE Append(path[hi - mid][mid], SubRoot(es, lo, mid))
  <2>1. hi - lo \in 1 .. Len(es) /\ lo \in 0 .. (Len(es) - (hi - lo)) /\ hi - lo # 1
        /\ (hi - lo) - (mid - lo) = hi - mid /\ lo + (mid - lo) = mid
    BY <1>3
  <2>2. Node1(path, hi - lo, lo)
    <3>. HIDE DEF Node1
    <3>. QED
      BY <1>1, <2>1
  <2>3. path[hi - lo][lo] = IF index < mid
                            THEN Append(path[mid - lo][lo], m[hi - mid][mid])
                            ELSE Append(path[hi - mid][mid], m[mid - lo][lo])
    <3>. HIDE DEF m
    <3>. QED
      BY <1>3, <2>1, <2>2, Zenon
  <2>. QED
    BY <2>3, Zenon DEF SubRoot
<1>. HIDE DEF Node1
<1>. QED
  BY <1>1, <1>2, <1>3, ZenonT(60)

\* The state in which compute_root_from_proof begins.
LeafState(es, index) ==
    [fn |-> index, sn |-> Len(es) - 1, r |-> LeafHash(es[index + 1]), bad |-> FALSE]

\* The loop has come to the positions lo .. hi - 1 with the hash of their subtree.
AtNode(es, s, lo, hi) ==
    /\ RootState(s) /\ s.bad = FALSE /\ lo \in Nat /\ hi \in Nat
    /\ Covers(s.fn, s.sn, lo, hi, Len(es)) /\ s.r = SubRoot(es, lo, hi)

\* A step from a position below the root.
LEMMA RootStepMoves ==
    ASSUME NEW s, NEW c, RootState(s), s.sn # 0
    PROVE  /\ RootState(RootStep(s, c)) /\ RootStep(s, c).bad = s.bad
           /\ RootStep(s, c).fn = UpFn(s) /\ RootStep(s, c).sn = UpSn(s)
           /\ RootStep(s, c).r = IF OnRight(s) THEN Node(c, s.r) ELSE Node(s.r, c)
<1>. DEFINE u == RootStep(s, c)
<1>. HIDE DEF u
<1>1. u = RootStep(s, c)
  BY DEF u
<1>2. RootState(u) /\ u.bad = s.bad /\ u.fn = UpFn(s) /\ u.sn = UpSn(s)
  BY <1>1, RootStepFields
<1>3. u.r = IF OnRight(s) THEN Node(c, s.r) ELSE Node(s.r, c)
  BY <1>1, RootStepFields
<1>. QED
  BY <1>1, <1>2, <1>3, Zenon

\* With the hash of the sibling, a step ends with that of the subtree above.
LEMMA StepToParent ==
    ASSUME NEW es, NEW s, NEW c, NEW lo \in Nat, NEW hi \in Nat,
           RootState(s), s.bad = FALSE, s.sn # 0,
           Covers(UpFn(s), UpSn(s), lo, hi, Len(es)),
           SubRoot(es, lo, hi) = IF OnRight(s) THEN Node(c, s.r) ELSE Node(s.r, c)
    PROVE  AtNode(es, RootStep(s, c), lo, hi)
<1>1. /\ RootState(RootStep(s, c)) /\ RootStep(s, c).bad = s.bad
      /\ RootStep(s, c).fn = UpFn(s) /\ RootStep(s, c).sn = UpSn(s)
      /\ RootStep(s, c).r = IF OnRight(s) THEN Node(c, s.r) ELSE Node(s.r, c)
  BY RootStepMoves, Zenon
<1>. QED
  BY <1>1, Zenon DEF AtNode

\* The subtree above, and the sibling that leads there.
LEMMA NodeUp ==
    ASSUME NEW S, NEW es \in Seq(S), NEW s, NEW lo, NEW hi, AtNode(es, s, lo, hi), s.sn # 0
    PROVE  \/ \E plo \in Nat : /\ plo < lo /\ hi <= Len(es) /\ SplitPoint(hi - plo) = lo - plo
                               /\ AtNode(es, RootStep(s, SubRoot(es, plo, lo)), plo, hi)
           \/ \E phi \in Nat : /\ hi < phi /\ phi <= Len(es) /\ SplitPoint(phi - lo) = hi - lo
                               /\ AtNode(es, RootStep(s, SubRoot(es, hi, phi)), lo, phi)
<1>. DEFINE n == Len(es)
<1>0. n \in Nat /\ n = Len(es)
  OBVIOUS
<1>1. /\ lo \in Nat /\ hi \in Nat
      /\ RootState(s) /\ Covers(s.fn, s.sn, lo, hi, n) /\ s.r = SubRoot(es, lo, hi)
  BY Zenon DEF AtNode
<1>2. s.bad = FALSE
  BY Zenon DEF AtNode
<1>. HIDE DEF n
<1>4. lo < hi /\ hi <= n
  BY <1>1, CoversFacts
<1>5. CASE OnRight(s)
  <2>1. PICK plo \in Nat : Covers(UpFn(s), UpSn(s), plo, hi, n) /\ SplitAt(plo, lo, hi)
    BY <1>1, <1>5, ClimbRight
  <2>2. plo < lo /\ SplitPoint(hi - plo) = lo - plo
    <3>1. hi \in (lo + 1) .. hi
      BY <1>1, <1>4
    <3>. QED
      BY <2>1, <3>1, Zenon DEF SplitAt
  <2>3. SubRoot(es, plo, hi) = Node(SubRoot(es, plo, lo), SubRoot(es, lo, hi))
    BY <1>0, <1>1, <1>4, <2>2, SubRootOfNode
  <2>4. SubRoot(es, plo, hi) = IF OnRight(s) THEN Node(SubRoot(es, plo, lo), s.r)
                                             ELSE Node(s.r, SubRoot(es, plo, lo))
    BY <1>1, <1>5, <2>3
  <2>5. AtNode(es, RootStep(s, SubRoot(es, plo, lo)), plo, hi)
    BY <1>0, <1>1, <1>2, <2>1, <2>4, StepToParent, Zenon
  <2>. QED
    BY <1>0, <1>4, <2>2, <2>5
<1>6. CASE ~OnRight(s)
  <2>1. PICK phi \in Nat : /\ Covers(UpFn(s), UpSn(s), lo, phi, n) /\ hi < phi
                           /\ SplitPoint(phi - lo) = hi - lo
    BY <1>1, <1>6, ClimbLeft
  <2>2. phi <= n
    BY <2>1, CoversFacts
  <2>3. SubRoot(es, lo, phi) = Node(SubRoot(es, lo, hi), SubRoot(es, hi, phi))
    BY <1>0, <1>1, <1>4, <2>1, <2>2, SubRootOfNode
  <2>4. SubRoot(es, lo, phi) = IF OnRight(s) THEN Node(SubRoot(es, hi, phi), s.r)
                                             ELSE Node(s.r, SubRoot(es, hi, phi))
    BY <1>1, <1>6, <2>3
  <2>5. AtNode(es, RootStep(s, SubRoot(es, hi, phi)), lo, phi)
    BY <1>0, <1>1, <1>2, <2>1, <2>4, StepToParent, Zenon
  <2>. QED
    BY <1>0, <2>1, <2>2, <2>5
<1>. QED
  BY <1>5, <1>6

\* A path with which compute_root_from_proof comes to the positions lo .. hi - 1.
LeadsTo(es, index, p, lo, hi) ==
    /\ IsList(p) /\ lo <= index /\ index < hi
    /\ AtNode(es, RootWalk(LeafState(es, index), p)[Len(p)], lo, hi)

\* A path to a subtree below the root, prolonged by the sibling, leads to the one above.
LEMMA LeadsFurther ==
    ASSUME NEW S, NEW es \in Seq(S), NEW index \in Nat, NEW p, NEW lo, NEW hi,
           LeadsTo(es, index, p, lo, hi),
           RootWalk(LeafState(es, index), p)[Len(p)].sn # 0
    PROVE  \/ \E plo \in Nat : /\ plo < lo /\ hi <= Len(es) /\ SplitPoint(hi - plo) = lo - plo
                               /\ LeadsTo(es, index, Append(p, SubRoot(es, plo, lo)), plo, hi)
           \/ \E phi \in Nat : /\ hi < phi /\ phi <= Len(es) /\ SplitPoint(phi - lo) = hi - lo
                               /\ LeadsTo(es, index, Append(p, SubRoot(es, hi, phi)), lo, phi)
<1>. DEFINE s == RootWalk(LeafState(es, index), p)[Len(p)]
<1>1. IsList(p) /\ lo <= index /\ index < hi /\ AtNode(es, s, lo, hi) /\ s.sn # 0
  BY Zenon DEF LeadsTo
<1>2. ASSUME NEW c
      PROVE  /\ IsList(Append(p, c))
             /\ RootWalk(LeafState(es, index), Append(p, c))[Len(Append(p, c))] = RootStep(s, c)
  <2>1. IsList(Append(p, c))
    BY <1>1, ListFacts
  <2>. HIDE DEF s
  <2>2. s = RootWalk(LeafState(es, index), p)[Len(p)]
    BY DEF s
  <2>. QED
    BY <1>1, <2>1, <2>2, RootWalkAppend
<1>. HIDE DEF s
<1>3. lo \in Nat /\ hi \in Nat
  BY <1>1, Zenon DEF AtNode
<1>4. \/ \E plo \in Nat : /\ plo < lo /\ hi <= Len(es) /\ SplitPoint(hi - plo) = lo - plo
                          /\ AtNode(es, RootStep(s, SubRoot(es, plo, lo)), plo, hi)
      \/ \E phi \in Nat : /\ hi < phi /\ phi <= Len(es) /\ SplitPoint(phi - lo) = hi - lo
                          /\ AtNode(es, RootStep(s, SubRoot(es, hi, phi)), lo, phi)
  BY <1>1, NodeUp
<1>5. ASSUME NEW plo \in Nat, plo < lo, AtNode(es, RootStep(s, SubRoot(es, plo, lo)), plo, hi)
      PROVE  LeadsTo(es, index, Append(p, SubRoot(es, plo, lo)), plo, hi)
  <2>1. plo <= index
    BY <1>1, <1>3, <1>5
  <2>. QED
    BY <1>1, <1>2, <1>5, <2>1, Zenon DEF LeadsTo
<1>6. ASSUME NEW phi \in Nat, hi < phi, AtNode(es, RootStep(s, SubRoot(es, hi, phi)), lo, phi)
      PROVE  LeadsTo(es, index, Append(p, SubRoot(es, hi, phi)), lo, phi)
  <2>1. index < phi
    BY <1>1, <1>3, <1>6
  <2>. QED
    BY <1>1, <1>2, <1>6, <2>1, Zenon DEF LeadsTo
<1>. QED
  BY <1>4, <1>5, <1>6

\* The audit path of every entry leads from the leaf to the root.
LEMMA AuditPathLeads ==
    ASSUME NEW S, NEW es \in Seq(S), NEW index \in Nat, index < Len(es)
    PROVE  LET p == AuditPath(es, index)
           IN  /\ LeadsTo(es, index, p, 0, Len(es))
               /\ RootWalk(LeafState(es, index), p)[Len(p)].sn = 0
<1>. DEFINE n == Len(es)
            start == LeafState(es, index)
            EndOf(p) == RootWalk(start, p)[Len(p)]
<1>0. n \in Nat /\ n = Len(es)
  OBVIOUS
<1>1. PICK path :
             /\ AuditPath(es, index) = path[n][0]
             /\ \A lo \in 0 .. (n - 1) : path[1][lo] = <<>>
             /\ \A lo, mid, hi \in Nat :
                  lo < mid /\ mid < hi /\ hi <= n /\ SplitPoint(hi - lo) = mid - lo =>
                  path[hi - lo][lo] = IF index < mid
                                      THEN Append(path[mid - lo][lo], SubRoot(es, mid, hi))
                                      ELSE Append(path[hi - mid][mid], SubRoot(es, lo, mid))
  BY AuditPathParts
<1>. DEFINE Good(lo, hi) == LeadsTo(es, index, path[hi - lo][lo], lo, hi)
            T == {d \in Nat : \E lo, hi \in Nat : Good(lo, hi) /\ d = n - (hi - lo)}
<1>2. Good(index, index + 1)
  <2>1. (index + 1) - index = 1 /\ path[1][index] = <<>>
    BY <1>0, <1>1
  <2>2. EndOf(<<>>) = start
    <3>1. Len(<<>>) = 0 /\ Len(<<>>) \in Nat /\ Len(<<>>) >= 0
      OBVIOUS
    <3>. HIDE DEF start
    <3>. QED
      BY <3>1, RootWalkEquations
  <2>3. RootState(start) /\ start.bad = FALSE /\ start.fn = index /\ start.sn = n - 1
        /\ start.r = LeafHash(es[index + 1])
    BY DEF RootState, LeafState
  <2>4. Covers(index, n - 1, index, index + 1, n)
    BY <1>0, CoversLeaf
  <2>5. SubRoot(es, index, index + 1) = LeafHash(es[index + 1])
    BY <1>0, SubRootOfLeaf
  <2>6. index + 1 \in Nat /\ index <= index /\ index < index + 1
    OBVIOUS
  <2>7. IsList(<<>>)
    BY ListFacts
  <2>8. LeadsTo(es, index, <<>>, index, index + 1)
    <3>. HIDE DEF start, n
    <3>. QED
      BY <1>0, <2>2, <2>3, <2>4, <2>5, <2>6, <2>7 DEF LeadsTo, AtNode, start
  <2>. QED
    BY <2>1, <2>8
<1>. HIDE DEF start, n
<1>3. ASSUME NEW lo \in Nat, NEW hi \in Nat, Good(lo, hi)
      PROVE  lo < hi /\ hi <= n /\ (EndOf(path[hi - lo][lo]).sn = 0 => lo = 0 /\ hi = n)
  <2>. DEFINE s == EndOf(path[hi - lo][lo])
  <2>1. Covers(s.fn, s.sn, lo, hi, n)
    BY <1>0, <1>3, Zenon DEF LeadsTo, AtNode, start
  <2>. HIDE DEF s
  <2>2. lo < hi /\ hi <= n /\ (s.sn = 0 => lo = 0 /\ hi = n)
    BY <2>1, CoversFacts
  <2>. QED
    BY <2>2 DEF s
<1>4. \E lo, hi \in Nat : Good(lo, hi) /\ EndOf(path[hi - lo][lo]).sn = 0
  <2>1. T \in SUBSET Nat /\ T # {}
    <3>1. index + 1 \in Nat /\ n - ((index + 1) - index) \in Nat
      BY <1>0
    <3>. HIDE DEF Good
    <3>. QED
      BY <1>2, <3>1
  <2>2. PICK d \in T : \A c \in T : d <= c
    <3>. HIDE DEF T
    <3>. QED
      BY <2>1, LeastNatural
  <2>3. PICK lo \in Nat, hi \in Nat : Good(lo, hi) /\ d = n - (hi - lo)
    <3>. HIDE DEF Good
    <3>. QED
      BY <2>2
  <2>. DEFINE p == path[hi - lo][lo]
  <2>4. lo < hi /\ hi <= n /\ lo <= index /\ index < hi
    BY <1>3, <2>3 DEF LeadsTo
  <2>5. ASSUME NEW a \in Nat, NEW b \in Nat, Good(a, b), b - a > hi - lo PROVE FALSE
    <3>1. a < b /\ b <= n
      <4>. HIDE DEF Good
      <4>. QED
        BY <1>3, <2>5
    <3>2. n - (b - a) \in Nat
      BY <1>0, <3>1
    <3>3. n - (b - a) \in T
      <4>. HIDE DEF Good
      <4>. QED
        BY <2>5, <3>2
    <3>4. d <= n - (b - a)
      <4>. HIDE DEF T
      <4>. QED
        BY <2>2, <3>3
    <3>. HIDE DEF Good, T
    <3>. QED
      BY <1>0, <2>3, <2>5, <3>1, <3>4
  <2>6. ASSUME EndOf(p).sn # 0 PROVE FALSE
    <3>1. LeadsTo(es, index, p, lo, hi)
      BY <2>3
    <3>2. RootWalk(LeafState(es, index), p)[Len(p)].sn # 0
      BY <2>6 DEF start
    <3>4. \/ \E plo \in Nat : /\ plo < lo /\ hi <= n /\ SplitPoint(hi - plo) = lo - plo
                              /\ LeadsTo(es, index, Append(p, SubRoot(es, plo, lo)), plo, hi)
          \/ \E phi \in Nat : /\ hi < phi /\ phi <= n /\ SplitPoint(phi - lo) = hi - lo
                              /\ LeadsTo(es, index, Append(p, SubRoot(es, hi, phi)), lo, phi)
      <4>. HIDE DEF p
      <4>. QED
        BY <1>0, <3>1, <3>2, LeadsFurther
    <3>5. ASSUME NEW plo \in Nat, plo < lo, SplitPoint(hi - plo) = lo - plo,
                 LeadsTo(es, index, Append(p, SubRoot(es, plo, lo)), plo, hi)
          PROVE  FALSE
      <4>1. ~(index < lo)
        BY <2>4
      <4>2. path[hi - plo][plo] = Append(p, SubRoot(es, plo, lo))
        BY <1>1, <2>4, <3>5, <4>1
      <4>3. Good(plo, hi)
        BY <3>5, <4>2
      <4>4. hi - plo > hi - lo
        BY <2>4, <3>5
      <4>. HIDE DEF Good
      <4>. QED
        BY <2>5, <4>3, <4>4
    <3>6. ASSUME NEW phi \in Nat, hi < phi, phi <= n, SplitPoint(phi - lo) = hi - lo,
                 LeadsTo(es, index, Append(p, SubRoot(es, hi, phi)), lo, phi)
          PROVE  FALSE
      <4>1. path[phi - lo][lo] = Append(p, SubRoot(es, hi, phi))
        BY <1>1, <2>4, <3>6
      <4>2. Good(lo, phi)
        BY <3>6, <4>1
      <4>3. phi - lo > hi - lo
        BY <2>4, <3>6
      <4>. HIDE DEF Good
      <4>. QED
        BY <2>5, <4>2, <4>3
    <3>. QED
      BY <3>4, <3>5, <3>6
  <2>. HIDE DEF Good
  <2>. QED
    BY <2>3, <2>6 DEF p
<1>5. PICK lo \in Nat, hi \in Nat : Good(lo, hi) /\ EndOf(path[hi - lo][lo]).sn = 0
  BY <1>4
<1>6. lo = 0 /\ hi = n
  <2>. HIDE DEF Good, EndOf
  <2>. QED
    BY <1>3, <1>5
<1>7. path[hi - lo][lo] = AuditPath(es, index)
  <2>1. n - 0 = n
    BY <1>0
  <2>. QED
    BY <1>1, <1>6, <2>1
<1>8. LeadsTo(es, index, AuditPath(es, index), 0, n) /\ EndOf(AuditPath(es, index)).sn = 0
  BY <1>5, <1>6, <1>7, Zenon
<1>. QED
  BY <1>0, <1>8, Zenon DEF start

\* The proof an honest log makes of an entry verifies, for every size and every index.
THEOREM InclusionIsComplete ==
    ASSUME NEW S, NEW es \in Seq(S), NEW index \in 0 .. (Len(es) - 1)
    PROVE  /\ IsList(AuditPath(es, index))
           /\ VerifyInclusion(es[index + 1], InclusionProof(es, index), SignedHead(es))
<1>. DEFINE p == AuditPath(es, index)
            s == RootWalk(LeafState(es, index), p)[Len(p)]
            proof == InclusionProof(es, index)
            sth == SignedHead(es)
<1>1. index \in Nat /\ index < Len(es) /\ 0 <= index
  OBVIOUS
<1>2. LeadsTo(es, index, p, 0, Len(es)) /\ s.sn = 0
  <2>. HIDE DEF p, s
  <2>. QED
    BY <1>1, AuditPathLeads, Zenon DEF p, s
<1>3. IsList(p) /\ s.bad = FALSE /\ s.r = SubRoot(es, 0, Len(es))
  BY <1>2, Zenon DEF LeadsTo, AtNode
<1>4. TreeRoot(es) = SubRoot(es, 0, Len(es))
  BY <1>1, RootsAreHashes
<1>5. ComputeRoot(LeafHash(es[index + 1]), index, Len(es), p) = s.r
  <2>. HIDE DEF p
  <2>1. ComputeRoot(LeafHash(es[index + 1]), index, Len(es), p) =
          IF s.bad \/ s.sn # 0 THEN NoRoot ELSE s.r
    BY <1>1, Zenon DEF ComputeRoot, LeafState
  <2>. HIDE DEF s
  <2>. QED
    BY <1>2, <1>3, <2>1, Zenon
<1>6. /\ proof.leaf = LeafHash(es[index + 1]) /\ proof.size = Len(es) /\ proof.index = index
      /\ proof.path = p /\ sth.size = Len(es) /\ sth.root = TreeRoot(es)
  <2>. HIDE DEF p
  <2>. QED
    BY DEF InclusionProof, SignedHead, p
<1>. HIDE DEF p, s, proof, sth
<1>7. VerifyInclusion(es[index + 1], proof, sth)
  BY <1>3, <1>4, <1>5, <1>6, Zenon DEF VerifyInclusion
<1>. QED
  BY <1>3, <1>7 DEF p, proof, sth

-----------------------------------------------------------------------------
(* The log: consistency proofs                                             *)

\* A state of the loop of _fold_consistency_terms.
TermState(s) ==
    /\ s = [fn |-> s.fn, sn |-> s.sn, fr |-> s.fr, sr |-> s.sr, bad |-> s.bad]
    /\ s.bad \in BOOLEAN

\* A term too many spoils the proof.
LEMMA TermStepEnds ==
    ASSUME NEW s, NEW c, TermState(s), s.sn = 0
    PROVE  TermState(TermStep(s, c)) /\ TermStep(s, c).bad = TRUE
<1>. DEFINE u == TermStep(s, c)
<1>1. u = [fn |-> s.fn, sn |-> s.sn, fr |-> s.fr, sr |-> s.sr, bad |-> TRUE]
  BY DEF TermStep, TermState
<1>. HIDE DEF u
<1>2. TermState(u) /\ u.bad = TRUE
  BY <1>1 DEF TermState
<1>. QED
  BY <1>2 DEF u

\* A step from a position below the root.
LEMMA TermStepMoves ==
    ASSUME NEW s, NEW c, TermState(s), s.sn # 0
    PROVE  /\ TermState(TermStep(s, c)) /\ TermStep(s, c).bad = s.bad
           /\ TermStep(s, c).fn = UpFn(s) /\ TermStep(s, c).sn = UpSn(s)
           /\ OnRight(s) => TermStep(s, c).fr = Node(c, s.fr) /\ TermStep(s, c).sr = Node(c, s.sr)
           /\ ~OnRight(s) => TermStep(s, c).fr = s.fr /\ TermStep(s, c).sr = Node(s.sr, c)
<1>. DEFINE u == TermStep(s, c)
            fr == IF OnRight(s) THEN Node(c, s.fr) ELSE s.fr
            sr == IF OnRight(s) THEN Node(c, s.sr) ELSE Node(s.sr, c)
            v == IF OnRight(s) THEN [s EXCEPT !.fr = Node(c, @), !.sr = Node(c, @)]
                 ELSE [s EXCEPT !.sr = Node(@, c)]
<1>1. u = Climb(v, LevelsUp(s))
  BY Zenon DEF TermStep, OnRight
<1>2. v = [fn |-> s.fn, sn |-> s.sn, fr |-> fr, sr |-> sr, bad |-> s.bad]
  BY DEF TermState
<1>3. (OnRight(s) => fr = Node(c, s.fr) /\ sr = Node(c, s.sr))
      /\ (~OnRight(s) => fr = s.fr /\ sr = Node(s.sr, c))
  OBVIOUS
<1>. HIDE DEF u, v, fr, sr
<1>4. u = [fn |-> UpFn(s), sn |-> UpSn(s), fr |-> fr, sr |-> sr, bad |-> s.bad]
  BY <1>1, <1>2 DEF Climb, UpFn, UpSn
<1>5. s.bad \in BOOLEAN
  BY DEF TermState
<1>6. TermState(u) /\ u.bad = s.bad /\ u.fn = UpFn(s) /\ u.sn = UpSn(s) /\ u.fr = fr /\ u.sr = sr
  BY <1>4, <1>5 DEF TermState
<1>. QED
  BY <1>3, <1>6 DEF u

\* Where verify_consistency begins: at the last complete subtree of the old log. It is the
\* whole old log exactly if the size of that is a power of two.
LEMMA ConsistencyStart ==
    ASSUME NEW m \in Nat, NEW n \in Nat, m >= 1, m < n
    PROVE  \E P \in Nat :
             /\ P >= 1 /\ P <= m /\ (PowerOfTwo(m) <=> m = P)
             /\ LET fn == (m - 1) \div Pow2[LowOnes(m - 1)]
                    sn == (n - 1) \div Pow2[LowOnes(m - 1)]
                IN  Covers(fn, sn, m - P, m, n) /\ ~Odd(fn) /\ fn # sn
<1>. DEFINE z == LowZeros(m)
            P == Pow2[z]
            sn == (n - 1) \div P
            fn == (m - 1) \div P
<1>1. LowOnes(m - 1) = z
  <2>1. (m - 1) + 1 = m
    OBVIOUS
  <2>. QED
    BY <2>1 DEF LowOnes
<1>2. z \in Nat /\ \E o \in Nat : Odd(o) /\ m = o * P
  BY LowZerosSplits
<1>. HIDE DEF z
<1>3. IsPower(P) /\ P \in Nat /\ P >= 1
  <2>1. IsPower(P)
    BY <1>2 DEF IsPower
  <2>. QED
    BY <2>1, PowerFacts
<1>. HIDE DEF P
<1>4. PICK o \in Nat : Odd(o) /\ m = o * P
  BY <1>2
<1>5. o >= 1 /\ o - 1 \in Nat /\ ~Odd(o - 1)
  BY <1>4 DEF Odd
<1>6. (o - 1) * P + P = m /\ (o - 1) * P \in Nat
  <2>. DEFINE d == o - 1
  <2>1. d \in Nat /\ o = d + 1
    BY <1>5
  <2>. HIDE DEF d
  <2>2. (d + 1) * P = d * P + P /\ d * P \in Nat
    BY <1>3, <2>1
  <2>. QED
    BY <1>4, <2>1, <2>2 DEF d
<1>7. fn = o - 1
  <2>1. m - 1 \in Nat /\ (o - 1) * P <= m - 1 /\ m - 1 < (o - 1) * P + P
    BY <1>3, <1>6
  <2>. QED
    BY <1>3, <1>5, <2>1, QuotientIs
<1>8. sn \in Nat /\ sn * P < n /\ n <= sn * P + P
  <2>. DEFINE r == (n - 1) % P
  <2>1. sn \in Nat /\ r \in Nat /\ r < P /\ n - 1 = P * sn + r
    BY <1>3
  <2>. HIDE DEF sn, r
  <2>2. P * sn = sn * P /\ sn * P \in Nat
    BY <1>3, <2>1
  <2>. QED
    BY <1>3, <2>1, <2>2
<1>. HIDE DEF fn, sn
<1>9. CoversBy(P, fn, sn, m - P, m, n)
  <2>1. m - P \in Nat /\ m - P = fn * P /\ m - P < n /\ (m - P) + P = m
    BY <1>3, <1>6, <1>7
  <2>. QED
    BY <1>3, <1>5, <1>7, <1>8, <2>1 DEF CoversBy
<1>10. fn # sn
  <2>. SUFFICES ASSUME fn = sn PROVE FALSE
    OBVIOUS
  <2>1. n <= (o - 1) * P + P
    BY <1>7, <1>8
  <2>. QED
    BY <1>6, <2>1
<1>11. PowerOfTwo(m) <=> m = P
  <2>1. ASSUME m = P PROVE PowerOfTwo(m)
    BY <1>3, <2>1, PowerFacts
  <2>2. ASSUME PowerOfTwo(m) PROVE m = P
    <3>1. PICK e \in Nat : m = Pow2[e]
      BY <2>2 DEF PowerOfTwo
    <3>2. CASE e < z
      <4>1. 2 * Pow2[e] <= Pow2[z]
        BY <1>2, <3>2, Pow2Grows
      <4>2. P <= m
        BY <1>3, <1>6
      <4>. QED
        BY <1>3, <3>1, <4>1, <4>2 DEF P
    <3>3. CASE e = z
      BY <3>1, <3>3 DEF P
    <3>4. CASE z < e
      <4>. DEFINE d == e - z - 1
                  q == Pow2[d]
      <4>1. d \in Nat /\ z + (d + 1) = e
        BY <1>2, <3>4
      <4>2. q \in Nat /\ Pow2[d + 1] = 2 * q
        BY <4>1, Pow2Equations
      <4>3. Pow2[z + (d + 1)] = Pow2[z] * Pow2[d + 1]
        <5>1. d + 1 \in Nat
          BY <4>1
        <5>. QED
          BY <1>2, <5>1, Pow2Product
      <4>. HIDE DEF d, q
      <4>4. m = P * (2 * q)
        BY <3>1, <4>1, <4>2, <4>3 DEF P
      <4>5. P * (2 * q) = (2 * q) * P
        BY <1>3, <4>2
      <4>6. o # 2 * q
        BY <1>4, <4>2 DEF Odd
      <4>7. o < 2 * q => o * P + P <= (2 * q) * P
        BY <1>3, <4>2, Products
      <4>8. 2 * q < o => (2 * q) * P + P <= o * P
        BY <1>3, <4>2, Products
      <4>. QED
        BY <1>3, <1>4, <4>2, <4>4, <4>5, <4>6, <4>7, <4>8
    <3>. QED
      BY <1>2, <3>2, <3>3, <3>4
  <2>. QED
    BY <2>1, <2>2
<1>12. P <= m
  BY <1>3, <1>6
<1>13. Covers(fn, sn, m - P, m, n) /\ ~Odd(fn)
  BY <1>5, <1>7, <1>9 DEF Covers
<1>14. (m - 1) \div Pow2[LowOnes(m - 1)] = fn /\ (n - 1) \div Pow2[LowOnes(m - 1)] = sn
  BY <1>1, Zenon DEF fn, sn, P
<1>. QED
  BY <1>3, <1>10, <1>11, <1>12, <1>13, <1>14

\* What the loop of _fold_consistency_terms has shown when it has come to s: if its hashes
\* are those of the subtrees from lo on, of the old log es and of the new log fs, the logs
\* agree from lo to the end of the old one.
PrefixFixed(es, fs, s) ==
    /\ TermState(s)
    /\ s.bad = TRUE \/ \E lo, hi \in Nat :
         /\ Covers(s.fn, s.sn, lo, hi, Len(fs)) /\ lo < Len(es) /\ Len(es) <= hi
         /\ s.fr = SubRoot(es, lo, Len(es)) /\ s.sr = SubRoot(fs, lo, hi) =>
              \A i \in (lo + 1) .. Len(es) : es[i] = fs[i]

\* A step keeps what the loop has shown, whatever hash the proof names.
LEMMA PrefixStaysFixed ==
    ASSUME NEW S, NEW es \in Seq(S), NEW fs \in Seq(S), NEW s, NEW c, PrefixFixed(es, fs, s)
    PROVE  PrefixFixed(es, fs, TermStep(s, c))
<1>. DEFINE u == TermStep(s, c)
            m == Len(es)
            n == Len(fs)
            Same(lo) == \A i \in (lo + 1) .. m : es[i] = fs[i]
<1>0. m \in Nat /\ n \in Nat /\ m = Len(es) /\ n = Len(fs)
  OBVIOUS
<1>. HIDE DEF u, m, n
<1>1. TermState(s)
  BY DEF PrefixFixed
<1>2. CASE s.sn = 0
  BY <1>1, <1>2, TermStepEnds, Zenon DEF PrefixFixed
<1>3. CASE s.sn # 0 /\ s.bad = TRUE
  <2>1. TermState(TermStep(s, c)) /\ TermStep(s, c).bad = s.bad
    BY <1>1, <1>3, TermStepMoves, Zenon
  <2>. QED
    BY <1>3, <2>1, Zenon DEF PrefixFixed
<1>4. CASE s.sn # 0 /\ s.bad # TRUE
  <2>0. s.sn # 0
    BY <1>4
  <2>1. PICK lo \in Nat, hi \in Nat :
             /\ Covers(s.fn, s.sn, lo, hi, n) /\ lo < m /\ m <= hi
             /\ s.fr = SubRoot(es, lo, m) /\ s.sr = SubRoot(fs, lo, hi) => Same(lo)
    BY <1>0, <1>4, Zenon DEF PrefixFixed
  <2>2. lo < hi /\ hi <= n
    BY <2>1, CoversFacts
  <2>. HIDE DEF Same
  <2>3. TermState(u) /\ u.fn = UpFn(s) /\ u.sn = UpSn(s)
    BY <1>1, <2>0, TermStepMoves DEF u
  <2>4. CASE OnRight(s)
    <3>1. u.fr = Node(c, s.fr) /\ u.sr = Node(c, s.sr)
      BY <1>1, <2>0, <2>4, TermStepMoves DEF u
    <3>2. PICK plo \in Nat : Covers(UpFn(s), UpSn(s), plo, hi, n) /\ SplitAt(plo, lo, hi)
      <4>1. Covers(s.fn, s.sn, lo, hi, n)
        BY <2>1
      <4>. QED
        BY <2>0, <2>4, <4>1, ClimbRight
    <3>3. plo < lo /\ SplitPoint(hi - plo) = lo - plo /\ SplitPoint(m - plo) = lo - plo
      <4>1. hi \in (lo + 1) .. hi /\ m \in (lo + 1) .. hi
        BY <1>0, <2>1, <2>2
      <4>. QED
        BY <3>2, <4>1, Zenon DEF SplitAt
    <3>4. /\ SubRoot(es, plo, m) = Node(SubRoot(es, plo, lo), SubRoot(es, lo, m))
          /\ SubRoot(fs, plo, hi) = Node(SubRoot(fs, plo, lo), SubRoot(fs, lo, hi))
      <4>1. lo < m /\ m <= Len(es) /\ lo < hi /\ hi <= Len(fs)
        BY <1>0, <2>1, <2>2
      <4>. QED
        BY <1>0, <3>3, <4>1, SubRootOfNode
    <3>5. ASSUME u.fr = SubRoot(es, plo, m), u.sr = SubRoot(fs, plo, hi) PROVE Same(plo)
      <4>1. Node(c, s.fr) = Node(SubRoot(es, plo, lo), SubRoot(es, lo, m))
        BY <3>1, <3>4, <3>5
      <4>2. Node(c, s.sr) = Node(SubRoot(fs, plo, lo), SubRoot(fs, lo, hi))
        BY <3>1, <3>4, <3>5
      <4>3. c = SubRoot(es, plo, lo) /\ s.fr = SubRoot(es, lo, m)
        BY <4>1, HashesAreFree
      <4>4. c = SubRoot(fs, plo, lo) /\ s.sr = SubRoot(fs, lo, hi)
        BY <4>2, HashesAreFree
      <4>5. Same(lo)
        BY <2>1, <4>3, <4>4
      <4>6. SubRoot(es, plo, lo) = SubRoot(fs, plo, lo)
        BY <4>3, <4>4
      <4>7. \A i \in (plo + 1) .. lo : es[i] = fs[i]
        <5>1. lo <= Len(es) /\ lo <= Len(fs)
          BY <1>0, <2>1, <2>2
        <5>. QED
          BY <3>3, <4>6, <5>1, SubRootsAgree
      <4>8. \A i \in (plo + 1) .. m : i \in (plo + 1) .. lo \/ i \in (lo + 1) .. m
        BY <1>0
      <4>. QED
        BY <4>5, <4>7, <4>8, Zenon DEF Same
    <3>. QED
      BY <1>0, <2>1, <2>3, <3>2, <3>3, <3>5 DEF PrefixFixed, Same, u
  <2>5. CASE ~OnRight(s)
    <3>1. u.fr = s.fr /\ u.sr = Node(s.sr, c)
      BY <1>1, <2>0, <2>5, TermStepMoves DEF u
    <3>2. PICK phi \in Nat : /\ Covers(UpFn(s), UpSn(s), lo, phi, n) /\ hi < phi
                             /\ SplitPoint(phi - lo) = hi - lo
      <4>1. Covers(s.fn, s.sn, lo, hi, n)
        BY <2>1
      <4>. QED
        BY <2>5, <4>1, ClimbLeft
    <3>3. phi <= n
      BY <3>2, CoversFacts
    <3>4. SubRoot(fs, lo, phi) = Node(SubRoot(fs, lo, hi), SubRoot(fs, hi, phi))
      BY <1>0, <2>2, <3>2, <3>3, SubRootOfNode
    <3>5. ASSUME u.fr = SubRoot(es, lo, m), u.sr = SubRoot(fs, lo, phi) PROVE Same(lo)
      <4>1. Node(s.sr, c) = Node(SubRoot(fs, lo, hi), SubRoot(fs, hi, phi))
        BY <3>1, <3>4, <3>5
      <4>2. s.sr = SubRoot(fs, lo, hi)
        BY <4>1, HashesAreFree
      <4>. QED
        BY <2>1, <3>1, <3>5, <4>2
    <3>6. m <= phi
      BY <1>0, <2>1, <3>2
    <3>. QED
      BY <1>0, <2>1, <2>3, <3>2, <3>5, <3>6 DEF PrefixFixed, Same, u
  <2>. QED
    BY <2>4, <2>5
<1>5. s.bad \in BOOLEAN
  BY <1>1 DEF TermState
<1>. QED
  BY <1>2, <1>3, <1>4

\* The terms verify_consistency goes through: with the old root in front if its size is a
\* power of two.
TermsOf(root, size, proof) == IF PowerOfTwo(size) THEN <<root>> \o proof ELSE proof

\* The state in which verify_consistency begins.
TermsStart(m, n, terms) ==
    [fn |-> (m - 1) \div Pow2[LowOnes(m - 1)], sn |-> (n - 1) \div Pow2[LowOnes(m - 1)],
     fr |-> terms[1], sr |-> terms[1], bad |-> FALSE]

\* Lists with one more hash in front or at the end, or one less.
LEMMA ConsListFacts ==
    ASSUME NEW c, NEW p, IsList(p)
    PROVE  /\ IsList(<<c>> \o p) /\ Len(<<c>> \o p) = 1 + Len(p) /\ (<<c>> \o p)[1] = c
           /\ \A d : <<c>> \o Append(p, d) = Append(<<c>> \o p, d)
           /\ IsList(p \o <<c>>) /\ (p # <<>> => IsList(Front(p)))
<1>1. PICK H : p \in Seq(H)
  BY DEF IsList
<1>2. p \in Seq(H \cup {c}) /\ <<c>> \in Seq(H \cup {c})
  BY <1>1
<1>3. <<c>> \o p \in Seq(H \cup {c}) /\ p \o <<c>> \in Seq(H \cup {c})
  BY <1>2
<1>4. Len(<<c>> \o p) = 1 + Len(p) /\ (<<c>> \o p)[1] = c
  BY <1>2
<1>5. ASSUME NEW d PROVE <<c>> \o Append(p, d) = Append(<<c>> \o p, d)
  <2>1. p \in Seq(H \cup {c, d}) /\ <<c>> \in Seq(H \cup {c, d}) /\ d \in H \cup {c, d}
    BY <1>1
  <2>. QED
    BY <2>1
<1>6. p # <<>> => Front(p) \in Seq(H)
  BY <1>1 DEF Front
<1>. QED
  BY <1>3, <1>4, <1>5, <1>6 DEF IsList

\* verify_consistency by cases, on the heads of an old log es and a new log fs.
LEMMA VerifyConsistencyCases ==
    ASSUME NEW S, NEW es \in Seq(S), NEW fs \in Seq(S), NEW proof
    PROVE  LET ok == VerifyConsistency(SignedHead(es), SignedHead(fs), proof)
               m == Len(es)
               n == Len(fs)
               terms == TermsOf(TreeRoot(es), m, proof)
               s == TermWalk(TermsStart(m, n, terms), terms)[Len(terms)]
           IN  /\ m > n => ok = FALSE
               /\ m = n => (ok <=> proof = <<>> /\ TreeRoot(es) = TreeRoot(fs))
               /\ m = 0 /\ m # n => (ok <=> proof = <<>>)
               /\ m # 0 /\ m < n => (ok <=> /\ terms # <<>> /\ ~s.bad /\ s.fr = TreeRoot(es)
                                            /\ s.sr = TreeRoot(fs) /\ s.sn = 0)
<1>. DEFINE old == SignedHead(es)
            new == SignedHead(fs)
            m == Len(es)
            n == Len(fs)
            terms == TermsOf(TreeRoot(es), m, proof)
            s == TermWalk(TermsStart(m, n, terms), terms)[Len(terms)]
            Deep == /\ terms # <<>> /\ ~s.bad /\ s.fr = TreeRoot(es)
                    /\ s.sr = TreeRoot(fs) /\ s.sn = 0
<1>1. old.size = m /\ old.root = TreeRoot(es) /\ new.size = n /\ new.root = TreeRoot(fs)
  BY DEF SignedHead
<1>. HIDE DEF old, new, m, n
<1>2. VerifyConsistency(old, new, proof) =
        IF m > n THEN FALSE
        ELSE IF m = n THEN proof = <<>> /\ TreeRoot(es) = TreeRoot(fs)
        ELSE IF m = 0 THEN proof = <<>>
        ELSE Deep
  BY <1>1, Zenon DEF VerifyConsistency, TermsOf, TermsStart
<1>3. m \in Nat /\ n \in Nat
  BY DEF m, n
<1>. HIDE DEF Deep
<1>. DEFINE ok == VerifyConsistency(old, new, proof)
            Equal == proof = <<>> /\ TreeRoot(es) = TreeRoot(fs)
            Unproved == proof = <<>>
<1>. HIDE DEF Equal, Unproved, ok
<1>4. ok = IF m > n THEN FALSE ELSE IF m = n THEN Equal ELSE IF m = 0 THEN Unproved ELSE Deep
  BY <1>2, Zenon DEF Equal, Unproved, ok
<1>5. (m = n => ~(m > n)) /\ (m = 0 => ~(m > n)) /\ (m < n => ~(m > n) /\ m # n)
  BY <1>3
<1>6. m > n => ok = FALSE
  BY <1>4, Zenon
<1>7. m = n => ok = Equal
  BY <1>4, <1>5, Zenon
<1>8. m = 0 /\ m # n => ok = Unproved
  BY <1>4, <1>5, Zenon
<1>9. m # 0 /\ m < n => ok = Deep
  BY <1>4, <1>5, Zenon
<1>. QED
  BY <1>6, <1>7, <1>8, <1>9, Zenon DEF Deep, Equal, Unproved, ok, old, new, m, n

\* A consistency proof that verifies shows that the old log is a prefix of the new one: no
\* list of hashes whatever makes verify_consistency accept a log that was cut or rewritten.
THEOREM ConsistencyIsSound ==
    ASSUME NEW S, NEW es \in Seq(S), NEW fs \in Seq(S), NEW proof, IsList(proof),
           VerifyConsistency(SignedHead(es), SignedHead(fs), proof)
    PROVE  Len(es) <= Len(fs) /\ \A i \in 1 .. Len(es) : es[i] = fs[i]
<1>. DEFINE m == Len(es)
            n == Len(fs)
            terms == TermsOf(TreeRoot(es), m, proof)
            start == TermsStart(m, n, terms)
            w == TermWalk(start, terms)
            s == w[Len(terms)]
<1>1. m \in Nat /\ n \in Nat /\ m = Len(es) /\ n = Len(fs)
  OBVIOUS
<1>2. /\ ~(m > n)
      /\ m = n => TreeRoot(es) = TreeRoot(fs)
      /\ m # 0 /\ m < n => terms # <<>> /\ ~s.bad /\ s.fr = TreeRoot(es) /\ s.sr = TreeRoot(fs) /\ s.sn = 0
  BY VerifyConsistencyCases, Zenon
<1>3. m <= n
  BY <1>1, <1>2
<1>4. CASE m = 0
  BY <1>3, <1>4
<1>5. CASE m # 0 /\ m = n
  <2>1. m > 0 /\ n > 0
    BY <1>1, <1>5
  <2>2. TreeRoot(es) = SubRoot(es, 0, m) /\ TreeRoot(fs) = SubRoot(fs, 0, m)
    BY <1>5, <2>1, RootsAreHashes
  <2>3. SubRoot(es, 0, m) = SubRoot(fs, 0, m)
    BY <1>2, <1>5, <2>2
  <2>4. \A i \in (0 + 1) .. m : es[i] = fs[i]
    BY <1>1, <1>5, <2>1, <2>3, SubRootsAgree
  <2>. QED
    BY <1>1, <1>3, <2>4
<1>6. CASE m # 0 /\ m < n
  <2>1. /\ terms # <<>> /\ s.fr = TreeRoot(es) /\ s.sr = TreeRoot(fs) /\ s.sn = 0
    BY <1>2, <1>6
  <2>2. s.bad # TRUE
    BY <1>2, <1>6, Zenon
  <2>3. IsList(terms) /\ Len(terms) \in Nat /\ Len(terms) >= 1
    <3>1. IsList(terms)
      BY ConsListFacts DEF TermsOf
    <3>. HIDE DEF terms
    <3>. QED
      BY <2>1, <3>1, ListFacts
  <2>. HIDE DEF terms
  <2>4. w[1] = start /\ \A t \in 2 .. Len(terms) : w[t] = TermStep(w[t - 1], terms[t])
    <3>. HIDE DEF start
    <3>. QED
      BY <2>3, TermWalkEquations
  <2>5. PrefixFixed(es, fs, start)
    <3>1. PICK P \in Nat :
             /\ P >= 1 /\ P <= m
             /\ Covers((m - 1) \div Pow2[LowOnes(m - 1)], (n - 1) \div Pow2[LowOnes(m - 1)], m - P, m, n)
      <4>. HIDE DEF m, n
      <4>1. m >= 1
        BY <1>1, <1>6
      <4>. QED
        BY <1>1, <1>6, <4>1, ConsistencyStart
    <3>2. TermState(start) /\ Covers(start.fn, start.sn, m - P, m, n) /\ start.fr = start.sr
      <4>. HIDE DEF m, n
      <4>. QED
        BY <3>1 DEF TermsStart, TermState
    <3>. HIDE DEF start
    <3>3. m - P \in Nat /\ m - P < m /\ m <= m
      BY <1>1, <3>1
    <3>4. ASSUME start.fr = SubRoot(es, m - P, m), start.sr = SubRoot(fs, m - P, m)
          PROVE  \A i \in ((m - P) + 1) .. m : es[i] = fs[i]
      <4>1. SubRoot(es, m - P, m) = SubRoot(fs, m - P, m)
        BY <3>2, <3>4
      <4>2. m <= Len(es) /\ m <= Len(fs)
        BY <1>1, <1>3
      <4>. QED
        BY <1>1, <3>3, <4>1, <4>2, SubRootsAgree
    <3>. QED
      BY <1>1, <3>2, <3>3, <3>4 DEF PrefixFixed
  <2>. DEFINE T == {t \in Nat : PrefixFixed(es, fs, w[t + 1])}
  <2>. HIDE DEF w, start, s
  <2>6. 0 \in T
    BY <2>4, <2>5
  <2>7. ASSUME NEW t \in 1 .. (Len(terms) - 1), t - 1 \in T PROVE t \in T
    <3>1. t \in Nat /\ t + 1 \in 2 .. Len(terms) /\ (t + 1) - 1 = t /\ (t - 1) + 1 = t
      BY <2>3
    <3>2. PrefixFixed(es, fs, w[t])
      BY <2>7, <3>1
    <3>3. PrefixFixed(es, fs, TermStep(w[t], terms[t + 1]))
      BY <3>2, PrefixStaysFixed
    <3>4. w[t + 1] = TermStep(w[t], terms[t + 1])
      BY <2>4, <3>1
    <3>. QED
      BY <3>1, <3>3, <3>4
  <2>8. Len(terms) - 1 \in T
    <3>. HIDE DEF T
    <3>1. Len(terms) - 1 \in Nat
      BY <2>3
    <3>2. \A t \in 0 .. (Len(terms) - 1) : t \in T
      BY <2>6, <2>7, <3>1, BoundedInduction
    <3>. QED
      BY <3>1, <3>2
  <2>9. PrefixFixed(es, fs, s)
    <3>1. (Len(terms) - 1) + 1 = Len(terms)
      BY <2>3
    <3>. QED
      BY <2>8, <3>1 DEF s
  <2>10. PICK lo \in Nat, hi \in Nat :
           /\ Covers(s.fn, s.sn, lo, hi, n) /\ lo < m /\ m <= hi
           /\ s.fr = SubRoot(es, lo, m) /\ s.sr = SubRoot(fs, lo, hi) =>
              \A i \in (lo + 1) .. m : es[i] = fs[i]
    BY <2>2, <2>9, Zenon DEF PrefixFixed
  <2>11. lo = 0 /\ hi = n
    BY <2>1, <2>10, CoversFacts
  <2>12. TreeRoot(es) = SubRoot(es, 0, m) /\ TreeRoot(fs) = SubRoot(fs, 0, n)
    BY <1>1, <1>6, RootsAreHashes
  <2>13. \A i \in (0 + 1) .. m : es[i] = fs[i]
    BY <2>1, <2>10, <2>11, <2>12
  <2>. QED
    BY <1>3, <2>13
<1>. QED
  BY <1>1, <1>3, <1>4, <1>5, <1>6

\* One more term is one more step of the loop.
LEMMA TermWalkAppend ==
    ASSUME NEW start, NEW p, NEW c, IsList(p), p # <<>>
    PROVE  TermWalk(start, Append(p, c))[Len(Append(p, c))] = TermStep(TermWalk(start, p)[Len(p)], c)
<1>. DEFINE q == Append(p, c)
            N == Len(p)
            v == TermWalk(start, p)
            w == TermWalk(start, q)
<1>1. N \in Nat /\ N >= 1 /\ Len(q) = N + 1 /\ q[N + 1] = c /\ \A i \in 1 .. N : q[i] = p[i]
  BY ListFacts
<1>2. v[1] = start /\ \A t \in 2 .. N : v[t] = TermStep(v[t - 1], p[t])
  <2>1. Len(p) \in Nat /\ Len(p) >= 1
    BY <1>1
  <2>. QED
    BY <2>1, TermWalkEquations
<1>. HIDE DEF q
<1>3. w[1] = start /\ \A t \in 2 .. (N + 1) : w[t] = TermStep(w[t - 1], q[t])
  <2>1. Len(q) \in Nat /\ Len(q) >= 1
    BY <1>1
  <2>. QED
    BY <1>1, <2>1, TermWalkEquations
<1>. HIDE DEF N, v, w
<1>. DEFINE T == {t \in Nat : v[t + 1] = w[t + 1]}
<1>4. 0 \in T
  BY <1>2, <1>3
<1>5. ASSUME NEW t \in 1 .. (N - 1), t - 1 \in T PROVE t \in T
  <2>1. t \in Nat /\ t + 1 \in 2 .. N /\ t + 1 \in 2 .. (N + 1) /\ (t + 1) - 1 = t /\ (t - 1) + 1 = t
        /\ t + 1 \in 1 .. N
    BY <1>1
  <2>2. /\ v[t + 1] = TermStep(v[t], p[t + 1]) /\ w[t + 1] = TermStep(w[t], q[t + 1])
        /\ q[t + 1] = p[t + 1]
    BY <1>1, <1>2, <1>3, <2>1
  <2>. QED
    BY <1>5, <2>1, <2>2
<1>6. v[N] = w[N]
  <2>1. N - 1 \in Nat /\ (N - 1) + 1 = N
    BY <1>1
  <2>2. N - 1 \in T
    <3>. HIDE DEF T
    <3>1. \A t \in 0 .. (N - 1) : t \in T
      BY <1>4, <1>5, <2>1, BoundedInduction
    <3>. QED
      BY <2>1, <3>1
  <2>. QED
    BY <2>1, <2>2
<1>7. w[N + 1] = TermStep(w[N], c)
  <2>1. N + 1 \in 2 .. (N + 1) /\ (N + 1) - 1 = N
    BY <1>1
  <2>. QED
    BY <1>1, <1>3, <2>1
<1>. QED
  BY <1>1, <1>6, <1>7 DEF q, N, v, w

\* Where _fold_consistency_terms ends with the proof p, on a log es and its first m entries.
TermsIn(es, m, p) == TermsOf(SubRoot(es, 0, m), m, p)
TermsEnd(es, m, p) ==
    TermWalk(TermsStart(m, Len(es), TermsIn(es, m, p)), TermsIn(es, m, p))[Len(TermsIn(es, m, p))]

\* The same for a proof with one more hash.
LEMMA TermsEndAppend ==
    ASSUME NEW es, NEW m, NEW p, NEW c, IsList(p), TermsIn(es, m, p) # <<>>
    PROVE  /\ IsList(Append(p, c)) /\ TermsIn(es, m, Append(p, c)) # <<>>
           /\ TermsEnd(es, m, Append(p, c)) = TermStep(TermsEnd(es, m, p), c)
<1>. DEFINE q == TermsIn(es, m, p)
            r == TermsIn(es, m, Append(p, c))
<1>1. IsList(Append(p, c))
  BY ListFacts
<1>2. IsList(q)
  BY ConsListFacts DEF TermsIn, TermsOf
<1>3. r = Append(q, c)
  <2>. DEFINE a == SubRoot(es, 0, m)
  <2>1. q = (IF PowerOfTwo(m) THEN <<a>> \o p ELSE p)
        /\ r = (IF PowerOfTwo(m) THEN <<a>> \o Append(p, c) ELSE Append(p, c))
    BY Zenon DEF TermsIn, TermsOf
  <2>. HIDE DEF a, q, r
  <2>2. <<a>> \o Append(p, c) = Append(<<a>> \o p, c)
    BY ConsListFacts
  <2>. QED
    BY <2>1, <2>2, Zenon
<1>. HIDE DEF q, r
<1>4. q # <<>>
  BY DEF q
<1>5. r # <<>> /\ r[1] = q[1]
  <2>1. Len(q) \in Nat /\ Len(q) >= 1 /\ Len(r) = Len(q) + 1 /\ \A i \in 1 .. Len(q) : r[i] = q[i]
    BY <1>2, <1>3, <1>4, ListFacts
  <2>2. Len(<<>>) = 0 /\ 1 \in 1 .. Len(q) /\ Len(r) # 0
    BY <2>1
  <2>. QED
    BY <2>1, <2>2, Zenon
<1>6. TermsStart(m, Len(es), r) = TermsStart(m, Len(es), q)
  BY <1>5, Zenon DEF TermsStart
<1>7. TermWalk(TermsStart(m, Len(es), q), Append(q, c))[Len(Append(q, c))] =
        TermStep(TermWalk(TermsStart(m, Len(es), q), q)[Len(q)], c)
  BY <1>2, <1>4, TermWalkAppend, Zenon
<1>8. TermsEnd(es, m, Append(p, c)) = TermStep(TermsEnd(es, m, p), c)
  BY <1>3, <1>6, <1>7, Zenon DEF TermsEnd, q, r
<1>. QED
  BY <1>1, <1>5, <1>8 DEF r

\* _subproof, by the ends of the subtrees.
LEMMA ConsistencyParts ==
    ASSUME NEW S, NEW es \in Seq(S), NEW m \in Nat, m < Len(es)
    PROVE  \E sub :
             /\ ConsistencyProof(es, m) = sub[Len(es)][0]
             /\ \A lo \in Nat : lo < m =>
                  sub[m - lo][lo] = IF lo = 0 THEN <<>> ELSE <<SubRoot(es, lo, m)>>
             /\ \A lo, mid, hi \in Nat :
                  lo < m /\ m < hi /\ hi <= Len(es) /\ SplitPoint(hi - lo) = mid - lo =>
                  sub[hi - lo][lo] = IF m <= mid
                                     THEN Append(sub[mid - lo][lo], SubRoot(es, mid, hi))
                                     ELSE Append(sub[hi - mid][mid], SubRoot(es, lo, mid))
<1>. DEFINE M == Mth(es)
            Node1(sub, n, lo) ==
              sub[n][lo] =
                    IF lo + n <= m THEN (IF lo = 0 THEN <<>> ELSE <<M[n][lo]>>)
                    ELSE IF m <= lo + SplitPoint(n)
                    THEN Append(sub[SplitPoint(n)][lo],
                                M[n - SplitPoint(n)][lo + SplitPoint(n)])
                    ELSE Append(sub[n - SplitPoint(n)][lo + SplitPoint(n)],
                                M[SplitPoint(n)][lo])
<1>0. Len(es) \in Nat /\ m # Len(es)
  OBVIOUS
<1>1. PICK sub : /\ ConsistencyProof(es, m) = IF m = Len(es) THEN <<>> ELSE sub[Len(es)][0]
                 /\ \A n \in 1 .. Len(es) : \A lo \in 0 .. (m - 1) : Node1(sub, n, lo)
  BY ConsistencyProofEquations
<1>2. ConsistencyProof(es, m) = sub[Len(es)][0]
  BY <1>0, <1>1, Zenon
<1>3. ASSUME NEW lo \in Nat, lo < m
      PROVE  sub[m - lo][lo] = IF lo = 0 THEN <<>> ELSE <<SubRoot(es, lo, m)>>
  <2>1. m - lo \in 1 .. Len(es) /\ lo \in 0 .. (m - 1) /\ lo + (m - lo) <= m
    BY <1>0, <1>3
  <2>2. Node1(sub, m - lo, lo)
    <3>. HIDE DEF Node1
    <3>. QED
      BY <1>1, <2>1
  <2>. QED
    BY <2>1, <2>2, Zenon DEF SubRoot
<1>4. ASSUME NEW lo \in Nat, NEW mid \in Nat, NEW hi \in Nat, lo < m, m < hi,
             hi <= Len(es), SplitPoint(hi - lo) = mid - lo
      PROVE  sub[hi - lo][lo] = IF m <= mid
                                THEN Append(sub[mid - lo][lo], SubRoot(es, mid, hi))
                                ELSE Append(sub[hi - mid][mid], SubRoot(es, lo, mid))
  <2>1. hi - lo \in 1 .. Len(es) /\ lo \in 0 .. (m - 1) /\ ~(lo + (hi - lo) <= m)
        /\ (hi - lo) - (mid - lo) = hi - mid /\ lo + (mid - lo) = mid
    BY <1>0, <1>4
  <2>2. Node1(sub, hi - lo, lo)
    <3>. HIDE DEF Node1
    <3>. QED
      BY <1>1, <2>1
  <2>3. sub[hi - lo][lo] = IF m <= mid
                           THEN Append(sub[mid - lo][lo], M[hi - mid][mid])
                           ELSE Append(sub[hi - mid][mid], M[mid - lo][lo])
    <3>. HIDE DEF M
    <3>. QED
      BY <1>4, <2>1, <2>2, Zenon
  <2>. QED
    BY <2>3, Zenon DEF SubRoot
<1>. HIDE DEF Node1
<1>. QED
  BY <1>2, <1>3, <1>4, SMTT(30)

\* The loop has come to the positions lo .. hi - 1, with the hash of their subtree in the
\* new log and in the old one, which ends at m.
AtNodes(es, m, s, lo, hi) ==
    /\ TermState(s) /\ s.bad = FALSE /\ lo \in Nat /\ hi \in Nat
    /\ Covers(s.fn, s.sn, lo, hi, Len(es)) /\ lo < m /\ m <= hi
    /\ s.fr = SubRoot(es, lo, m) /\ s.sr = SubRoot(es, lo, hi)
    /\ hi = m => ~OnRight(s)

\* With the hash of the sibling, a step ends with those of the subtrees above.
LEMMA StepToParents ==
    ASSUME NEW es, NEW m \in Nat, NEW s, NEW c, NEW lo \in Nat, NEW hi \in Nat,
           TermState(s), s.bad = FALSE, s.sn # 0, lo < m, m < hi,
           Covers(UpFn(s), UpSn(s), lo, hi, Len(es)),
           SubRoot(es, lo, m) = IF OnRight(s) THEN Node(c, s.fr) ELSE s.fr,
           SubRoot(es, lo, hi) = IF OnRight(s) THEN Node(c, s.sr) ELSE Node(s.sr, c)
    PROVE  AtNodes(es, m, TermStep(s, c), lo, hi)
<1>. DEFINE u == TermStep(s, c)
<1>1. /\ TermState(u) /\ u.bad = s.bad /\ u.fn = UpFn(s) /\ u.sn = UpSn(s)
      /\ OnRight(s) => u.fr = Node(c, s.fr) /\ u.sr = Node(c, s.sr)
      /\ ~OnRight(s) => u.fr = s.fr /\ u.sr = Node(s.sr, c)
  BY TermStepMoves, Zenon
<1>. HIDE DEF u
<1>2. u.bad = FALSE
  BY <1>1, Zenon
<1>3. u.fr = SubRoot(es, lo, m) /\ u.sr = SubRoot(es, lo, hi)
  BY <1>1, Zenon
<1>4. m <= hi /\ hi # m
  OBVIOUS
<1>5. AtNodes(es, m, u, lo, hi)
  BY <1>1, <1>2, <1>3, <1>4, Zenon DEF AtNodes
<1>. QED
  BY <1>5 DEF u

\* The subtree above, and the sibling that leads there. Above a subtree that ends with the
\* old log it is on the right.
LEMMA NodesUp ==
    ASSUME NEW S, NEW es \in Seq(S), NEW m \in Nat, NEW s, NEW lo, NEW hi,
           AtNodes(es, m, s, lo, hi), s.sn # 0
    PROVE  \/ \E plo \in Nat : /\ plo < lo /\ m < hi /\ hi <= Len(es)
                               /\ SplitPoint(hi - plo) = lo - plo
                               /\ AtNodes(es, m, TermStep(s, SubRoot(es, plo, lo)), plo, hi)
           \/ \E phi \in Nat : /\ hi < phi /\ phi <= Len(es) /\ SplitPoint(phi - lo) = hi - lo
                               /\ AtNodes(es, m, TermStep(s, SubRoot(es, hi, phi)), lo, phi)
<1>. DEFINE n == Len(es)
<1>0. n \in Nat /\ n = Len(es)
  OBVIOUS
<1>. HIDE DEF n
<1>1. /\ TermState(s) /\ lo \in Nat /\ hi \in Nat
      /\ Covers(s.fn, s.sn, lo, hi, n) /\ lo < m /\ m <= hi
      /\ s.fr = SubRoot(es, lo, m) /\ s.sr = SubRoot(es, lo, hi)
      /\ hi = m => ~OnRight(s)
  BY <1>0, Zenon DEF AtNodes
<1>2. s.bad = FALSE
  BY Zenon DEF AtNodes
<1>4. lo < hi /\ hi <= n
  BY <1>1, CoversFacts
<1>5. CASE OnRight(s)
  <2>1. PICK plo \in Nat : Covers(UpFn(s), UpSn(s), plo, hi, n) /\ SplitAt(plo, lo, hi)
    BY <1>1, <1>5, ClimbRight
  <2>0. m < hi
    BY <1>1, <1>5
  <2>2. plo < lo /\ SplitPoint(hi - plo) = lo - plo /\ SplitPoint(m - plo) = lo - plo
    <3>1. hi \in (lo + 1) .. hi /\ m \in (lo + 1) .. hi
      BY <1>1, <1>4
    <3>. QED
      BY <2>1, <3>1, Zenon DEF SplitAt
  <2>. DEFINE c == SubRoot(es, plo, lo)
  <2>3. SubRoot(es, plo, hi) = Node(c, SubRoot(es, lo, hi))
    BY <1>0, <1>1, <1>4, <2>2, SubRootOfNode
  <2>4. SubRoot(es, plo, m) = Node(c, SubRoot(es, lo, m))
    <3>1. m <= Len(es)
      BY <1>0, <1>1, <1>4
    <3>. QED
      BY <1>1, <2>2, <3>1, SubRootOfNode
  <2>. HIDE DEF c
  <2>5. /\ SubRoot(es, plo, m) = IF OnRight(s) THEN Node(c, s.fr) ELSE s.fr
        /\ SubRoot(es, plo, hi) = IF OnRight(s) THEN Node(c, s.sr) ELSE Node(s.sr, c)
    BY <1>1, <1>5, <2>3, <2>4
  <2>6. plo < m
    BY <1>1, <2>2
  <2>7. AtNodes(es, m, TermStep(s, c), plo, hi)
    BY <1>0, <1>1, <1>2, <2>0, <2>1, <2>5, <2>6, StepToParents, Zenon
  <2>. QED
    BY <1>0, <1>4, <2>0, <2>2, <2>7 DEF c
<1>6. CASE ~OnRight(s)
  <2>1. PICK phi \in Nat : /\ Covers(UpFn(s), UpSn(s), lo, phi, n) /\ hi < phi
                           /\ SplitPoint(phi - lo) = hi - lo
    BY <1>1, <1>6, ClimbLeft
  <2>2. phi <= n
    BY <2>1, CoversFacts
  <2>. DEFINE c == SubRoot(es, hi, phi)
  <2>3. SubRoot(es, lo, phi) = Node(SubRoot(es, lo, hi), c)
    BY <1>0, <1>1, <1>4, <2>1, <2>2, SubRootOfNode
  <2>. HIDE DEF c
  <2>4. /\ SubRoot(es, lo, m) = IF OnRight(s) THEN Node(c, s.fr) ELSE s.fr
        /\ SubRoot(es, lo, phi) = IF OnRight(s) THEN Node(c, s.sr) ELSE Node(s.sr, c)
    BY <1>1, <1>6, <2>3
  <2>5. m < phi
    BY <1>1, <2>1
  <2>6. AtNodes(es, m, TermStep(s, c), lo, phi)
    BY <1>0, <1>1, <1>2, <2>1, <2>4, <2>5, StepToParents, Zenon
  <2>. QED
    BY <1>0, <2>1, <2>2, <2>6 DEF c
<1>. QED
  BY <1>5, <1>6

\* A proof with which _fold_consistency_terms comes to the positions lo .. hi - 1.
BringsTo(es, m, p, lo, hi) ==
    IsList(p) /\ TermsIn(es, m, p) # <<>> /\ AtNodes(es, m, TermsEnd(es, m, p), lo, hi)

\* A proof that brings the loop below the roots, prolonged by the sibling, brings it up.
LEMMA BringsFurther ==
    ASSUME NEW S, NEW es \in Seq(S), NEW m \in Nat, NEW p, NEW lo, NEW hi,
           BringsTo(es, m, p, lo, hi), TermsEnd(es, m, p).sn # 0
    PROVE  \/ \E plo \in Nat : /\ plo < lo /\ m < hi /\ hi <= Len(es)
                               /\ SplitPoint(hi - plo) = lo - plo
                               /\ BringsTo(es, m, Append(p, SubRoot(es, plo, lo)), plo, hi)
           \/ \E phi \in Nat : /\ hi < phi /\ phi <= Len(es) /\ SplitPoint(phi - lo) = hi - lo
                               /\ BringsTo(es, m, Append(p, SubRoot(es, hi, phi)), lo, phi)
<1>. DEFINE s == TermsEnd(es, m, p)
<1>1. IsList(p) /\ TermsIn(es, m, p) # <<>> /\ AtNodes(es, m, s, lo, hi) /\ s.sn # 0
  BY Zenon DEF BringsTo
<1>2. ASSUME NEW c, NEW a, NEW b, AtNodes(es, m, TermStep(s, c), a, b)
      PROVE  BringsTo(es, m, Append(p, c), a, b)
  <2>1. IsList(Append(p, c)) /\ TermsIn(es, m, Append(p, c)) # <<>>
        /\ TermsEnd(es, m, Append(p, c)) = TermStep(s, c)
    BY <1>1, TermsEndAppend
  <2>. HIDE DEF s
  <2>. QED
    BY <1>2, <2>1, Zenon DEF BringsTo
<1>. HIDE DEF s
<1>3. \/ \E plo \in Nat : /\ plo < lo /\ m < hi /\ hi <= Len(es)
                          /\ SplitPoint(hi - plo) = lo - plo
                          /\ AtNodes(es, m, TermStep(s, SubRoot(es, plo, lo)), plo, hi)
      \/ \E phi \in Nat : /\ hi < phi /\ phi <= Len(es) /\ SplitPoint(phi - lo) = hi - lo
                          /\ AtNodes(es, m, TermStep(s, SubRoot(es, hi, phi)), lo, phi)
  BY <1>1, NodesUp
<1>. QED
  BY <1>2, <1>3, Zenon

\* The empty proof, or the hash of the last complete subtree of the old log, brings the
\* loop to that subtree.
LEMMA ProofBegins ==
    ASSUME NEW S, NEW es \in Seq(S), NEW m \in Nat, m >= 1, m < Len(es)
    PROVE  \E lo \in Nat : lo < m /\ BringsTo(es, m, IF lo = 0 THEN <<>> ELSE <<SubRoot(es, lo, m)>>, lo, m)
<1>. DEFINE n == Len(es)
            fn == (m - 1) \div Pow2[LowOnes(m - 1)]
            sn == (n - 1) \div Pow2[LowOnes(m - 1)]
<1>0. n \in Nat /\ n = Len(es) /\ m < n
  OBVIOUS
<1>. HIDE DEF n
<1>1. PICK P \in Nat : /\ P >= 1 /\ P <= m /\ (PowerOfTwo(m) <=> m = P)
                       /\ Covers(fn, sn, m - P, m, n) /\ ~Odd(fn) /\ fn # sn
  BY <1>0, ConsistencyStart
<1>. HIDE DEF fn, sn
<1>. DEFINE lo == m - P
            c == SubRoot(es, lo, m)
            p == IF lo = 0 THEN <<>> ELSE <<c>>
            start == TermsStart(m, n, <<c>>)
<1>2. lo \in Nat /\ lo < m /\ (PowerOfTwo(m) <=> lo = 0)
  BY <1>1
<1>3. Covers(fn, sn, lo, m, n) /\ ~Odd(fn) /\ fn # sn
  BY <1>1
<1>. HIDE DEF lo
<1>4. IsList(p) /\ TermsIn(es, m, p) = <<c>>
  <2>1. CASE lo = 0
    <3>1. p = <<>> /\ PowerOfTwo(m) /\ c = SubRoot(es, 0, m)
      BY <1>2, <2>1
    <3>2. TermsIn(es, m, p) = <<c>> \o <<>>
      BY <3>1, Zenon DEF TermsIn, TermsOf
    <3>3. <<c>> \o <<>> = <<c>>
      <4>. HIDE DEF c
      <4>1. <<c>> \in Seq({c})
        OBVIOUS
      <4>. QED
        BY <4>1
    <3>4. IsList(p)
      BY <3>1, ListFacts, Zenon
    <3>. QED
      BY <3>2, <3>3, <3>4, Zenon
  <2>2. CASE lo # 0
    <3>1. p = <<c>> /\ ~PowerOfTwo(m)
      BY <1>2, <2>2
    <3>. QED
      BY <3>1, ListFacts, Zenon DEF TermsIn, TermsOf
  <2>. QED
    BY <2>1, <2>2
<1>. HIDE DEF c, p
<1>5. Len(<<c>>) = 1 /\ <<c>>[1] = c /\ <<c>> # <<>>
  OBVIOUS
<1>6. TermsEnd(es, m, p) = start
  <2>1. Len(<<c>>) \in Nat /\ Len(<<c>>) >= 1
    BY <1>5
  <2>. HIDE DEF start
  <2>2. TermWalk(start, <<c>>)[1] = start
    BY <2>1, TermWalkEquations
  <2>. QED
    BY <1>0, <1>4, <1>5, <2>2, Zenon DEF TermsEnd, start
<1>7. start = [fn |-> fn, sn |-> sn, fr |-> c, sr |-> c, bad |-> FALSE]
  BY <1>5, Zenon DEF TermsStart, fn, sn
<1>. HIDE DEF start
<1>8. TermState(start) /\ start.fn = fn /\ start.sn = sn /\ start.fr = c /\ start.sr = c
  BY <1>7 DEF TermState
<1>9. start.bad = FALSE
  BY <1>7
<1>10. ~OnRight(start) /\ m <= m
  BY <1>3, <1>8 DEF OnRight
<1>11. AtNodes(es, m, start, lo, m)
  BY <1>0, <1>2, <1>3, <1>8, <1>9, <1>10, Zenon DEF AtNodes, c
<1>12. BringsTo(es, m, p, lo, m)
  BY <1>4, <1>5, <1>6, <1>11, Zenon DEF BringsTo
<1>. QED
  BY <1>2, <1>12, Zenon DEF p, c

\* The consistency proof brings the loop to the roots of both logs.
LEMMA ConsistencyProofBrings ==
    ASSUME NEW S, NEW es \in Seq(S), NEW m \in Nat, m >= 1, m < Len(es)
    PROVE  /\ BringsTo(es, m, ConsistencyProof(es, m), 0, Len(es))
           /\ TermsEnd(es, m, ConsistencyProof(es, m)).sn = 0
<1>. DEFINE n == Len(es)
<1>0. n \in Nat /\ n = Len(es) /\ m < n
  OBVIOUS
<1>1. PICK sub :
             /\ ConsistencyProof(es, m) = sub[n][0]
             /\ \A lo \in Nat : lo < m =>
                  sub[m - lo][lo] = IF lo = 0 THEN <<>> ELSE <<SubRoot(es, lo, m)>>
             /\ \A lo, mid, hi \in Nat :
                  lo < m /\ m < hi /\ hi <= n /\ SplitPoint(hi - lo) = mid - lo =>
                  sub[hi - lo][lo] = IF m <= mid
                                     THEN Append(sub[mid - lo][lo], SubRoot(es, mid, hi))
                                     ELSE Append(sub[hi - mid][mid], SubRoot(es, lo, mid))
  BY ConsistencyParts, SMTT(30)
<1>. HIDE DEF n
<1>. DEFINE Good(lo, hi) == BringsTo(es, m, sub[hi - lo][lo], lo, hi)
            End(lo, hi) == TermsEnd(es, m, sub[hi - lo][lo])
            T == {d \in Nat : \E lo, hi \in Nat : Good(lo, hi) /\ d = n - (hi - lo)}
<1>2. \E lo \in Nat : lo < m /\ Good(lo, m)
  <2>1. PICK lo \in Nat : lo < m /\ BringsTo(es, m, IF lo = 0 THEN <<>> ELSE <<SubRoot(es, lo, m)>>, lo, m)
    BY ProofBegins
  <2>2. sub[m - lo][lo] = IF lo = 0 THEN <<>> ELSE <<SubRoot(es, lo, m)>>
    BY <1>1, <2>1, Zenon
  <2>. QED
    BY <2>1, <2>2, Zenon
<1>3. ASSUME NEW lo \in Nat, NEW hi \in Nat, Good(lo, hi)
      PROVE  /\ lo < hi /\ hi <= n /\ lo < m /\ m <= hi
             /\ End(lo, hi).sn = 0 => lo = 0 /\ hi = n
  <2>. DEFINE s == End(lo, hi)
  <2>1. Covers(s.fn, s.sn, lo, hi, n) /\ lo < m /\ m <= hi
    BY <1>0, <1>3, Zenon DEF BringsTo, AtNodes
  <2>. HIDE DEF s
  <2>2. lo < hi /\ hi <= n /\ (s.sn = 0 => lo = 0 /\ hi = n)
    BY <2>1, CoversFacts
  <2>. QED
    BY <2>1, <2>2 DEF s
<1>4. \E lo, hi \in Nat : Good(lo, hi) /\ End(lo, hi).sn = 0
  <2>1. T \in SUBSET Nat /\ T # {}
    <3>1. PICK lo \in Nat : lo < m /\ Good(lo, m)
      BY <1>2, Zenon
    <3>2. n - (m - lo) \in Nat
      BY <1>0, <3>1
    <3>. HIDE DEF Good
    <3>. QED
      BY <3>1, <3>2
  <2>2. PICK d \in T : \A c \in T : d <= c
    <3>. HIDE DEF T
    <3>. QED
      BY <2>1, LeastNatural
  <2>3. PICK lo \in Nat, hi \in Nat : Good(lo, hi) /\ d = n - (hi - lo)
    <3>. HIDE DEF Good
    <3>. QED
      BY <2>2
  <2>. DEFINE p == sub[hi - lo][lo]
  <2>4. lo < hi /\ hi <= n /\ lo < m /\ m <= hi
    <3>. HIDE DEF Good, End
    <3>. QED
      BY <1>3, <2>3
  <2>5. ASSUME NEW a \in Nat, NEW b \in Nat, Good(a, b), b - a > hi - lo PROVE FALSE
    <3>1. a < b /\ b <= n
      <4>. HIDE DEF Good, End
      <4>. QED
        BY <1>3, <2>5
    <3>2. n - (b - a) \in Nat
      BY <1>0, <3>1
    <3>3. n - (b - a) \in T
      <4>. HIDE DEF Good
      <4>. QED
        BY <2>5, <3>2
    <3>4. d <= n - (b - a)
      <4>. HIDE DEF T
      <4>. QED
        BY <2>2, <3>3
    <3>. HIDE DEF Good, T
    <3>. QED
      BY <1>0, <2>3, <2>5, <3>1, <3>4
  <2>6. ASSUME End(lo, hi).sn # 0 PROVE FALSE
    <3>1. BringsTo(es, m, p, lo, hi) /\ TermsEnd(es, m, p).sn # 0
      BY <2>3, <2>6
    <3>2. \/ \E plo \in Nat : /\ plo < lo /\ m < hi /\ hi <= n /\ SplitPoint(hi - plo) = lo - plo
                              /\ BringsTo(es, m, Append(p, SubRoot(es, plo, lo)), plo, hi)
          \/ \E phi \in Nat : /\ hi < phi /\ phi <= n /\ SplitPoint(phi - lo) = hi - lo
                              /\ BringsTo(es, m, Append(p, SubRoot(es, hi, phi)), lo, phi)
      <4>. HIDE DEF p
      <4>. QED
        BY <1>0, <3>1, BringsFurther
    <3>3. ASSUME NEW plo \in Nat, plo < lo, m < hi, SplitPoint(hi - plo) = lo - plo,
                 BringsTo(es, m, Append(p, SubRoot(es, plo, lo)), plo, hi)
          PROVE  FALSE
      <4>1. ~(m <= lo) /\ plo < m
        BY <2>4, <3>3
      <4>2. sub[hi - plo][plo] = Append(p, SubRoot(es, plo, lo))
        BY <1>1, <2>4, <3>3, <4>1
      <4>3. Good(plo, hi)
        BY <3>3, <4>2
      <4>4. hi - plo > hi - lo
        BY <2>4, <3>3
      <4>. HIDE DEF Good
      <4>. QED
        BY <2>5, <4>3, <4>4
    <3>4. ASSUME NEW phi \in Nat, hi < phi, phi <= n, SplitPoint(phi - lo) = hi - lo,
                 BringsTo(es, m, Append(p, SubRoot(es, hi, phi)), lo, phi)
          PROVE  FALSE
      <4>0. m < phi
        BY <2>4, <3>4
      <4>1. sub[phi - lo][lo] = Append(p, SubRoot(es, hi, phi))
        BY <1>1, <2>4, <3>4, <4>0
      <4>2. Good(lo, phi)
        BY <3>4, <4>1
      <4>3. phi - lo > hi - lo
        BY <2>4, <3>4
      <4>. HIDE DEF Good
      <4>. QED
        BY <2>5, <4>2, <4>3
    <3>. QED
      BY <3>2, <3>3, <3>4
  <2>. HIDE DEF Good, End
  <2>. QED
    BY <2>3, <2>6
<1>5. PICK lo \in Nat, hi \in Nat : Good(lo, hi) /\ End(lo, hi).sn = 0
  <2>. HIDE DEF Good, End
  <2>. QED
    BY <1>4
<1>6. lo = 0 /\ hi = n
  <2>. HIDE DEF Good, End
  <2>. QED
    BY <1>3, <1>5
<1>7. sub[hi - lo][lo] = ConsistencyProof(es, m)
  <2>1. n - 0 = n
    BY <1>0
  <2>. QED
    BY <1>1, <1>6, <2>1
<1>. QED
  BY <1>0, <1>5, <1>6, <1>7, Zenon

\* The proof an honest log makes of an earlier size verifies, for every pair of sizes.
THEOREM ConsistencyIsComplete ==
    ASSUME NEW S, NEW es \in Seq(S), NEW m \in 1 .. Len(es)
    PROVE  /\ IsList(ConsistencyProof(es, m))
           /\ VerifyConsistency(SignedHead(SubSeq(es, 1, m)), SignedHead(es), ConsistencyProof(es, m))
<1>. DEFINE n == Len(es)
            p == ConsistencyProof(es, m)
            old == SubSeq(es, 1, m)
<1>0. n \in Nat /\ n = Len(es) /\ m \in Nat /\ m >= 1 /\ m <= n
  OBVIOUS
<1>1. old \in Seq(S) /\ Len(old) = m /\ \A i \in 1 .. m : old[i] = es[i]
  OBVIOUS
<1>2. CASE m = n
  <2>1. old = es
    BY <1>0, <1>1, <1>2
  <2>2. p = <<>>
    BY <1>0, <1>2, ConsistencyProofEquations
  <2>3. IsList(<<>>)
    BY ListFacts
  <2>4. VerifyConsistency(SignedHead(es), SignedHead(es), <<>>)
    BY VerifyConsistencyCases, Zenon
  <2>. QED
    BY <2>1, <2>2, <2>3, <2>4, Zenon
<1>3. CASE m < n
  <2>1. BringsTo(es, m, p, 0, n) /\ TermsEnd(es, m, p).sn = 0
    BY <1>0, <1>3, ConsistencyProofBrings
  <2>. HIDE DEF p, old, n
  <2>2. TreeRoot(old) = SubRoot(es, 0, m) /\ TreeRoot(es) = SubRoot(es, 0, n)
    <3>1. SubRoot(old, 0, m) = SubRoot(es, 0, m)
      <4>1. m <= Len(old) /\ m <= Len(es) /\ 0 < m /\ \A i \in (0 + 1) .. m : old[i] = es[i]
        BY <1>0, <1>1
      <4>. QED
        BY <1>0, <1>1, <4>1, SubRootsAgree
    <3>2. TreeRoot(old) = SubRoot(old, 0, m) /\ TreeRoot(es) = SubRoot(es, 0, n)
      BY <1>0, <1>1, RootsAreHashes
    <3>. QED
      BY <3>1, <3>2
  <2>. DEFINE terms == TermsOf(TreeRoot(old), m, p)
              s == TermWalk(TermsStart(m, n, terms), terms)[Len(terms)]
  <2>3. terms = TermsIn(es, m, p) /\ s = TermsEnd(es, m, p)
    BY <1>0, <2>2, Zenon DEF TermsIn, TermsEnd
  <2>. HIDE DEF terms, s
  <2>4. /\ IsList(p) /\ terms # <<>> /\ s.bad = FALSE /\ s.fr = SubRoot(es, 0, m)
        /\ s.sr = SubRoot(es, 0, n) /\ s.sn = 0
    BY <2>1, <2>3, Zenon DEF BringsTo, AtNodes
  <2>5. /\ terms # <<>> /\ ~s.bad /\ s.fr = TreeRoot(old) /\ s.sr = TreeRoot(es) /\ s.sn = 0
    BY <2>2, <2>4, Zenon
  <2>6. m # 0
    BY <1>0
  <2>7. VerifyConsistency(SignedHead(old), SignedHead(es), p)
    BY <1>0, <1>1, <1>3, <2>5, <2>6, VerifyConsistencyCases, Zenon DEF terms, s
  <2>. QED
    BY <2>4, <2>7, Zenon DEF p, old
<1>. QED
  BY <1>0, <1>2, <1>3

-----------------------------------------------------------------------------
(* The log: the monitor                                                    *)

\* What a signed head says.
LEMMA HeadFields ==
    \A es : SignedHead(es).size = Len(es) /\ SignedHead(es).root = TreeRoot(es) /\ SignedHead(es).of = es
BY DEF SignedHead

\* Whatever an operator offers as a consistency proof is a list of hashes.
LEMMA OfferedProofsAreLists ==
    ASSUME NEW S, NEW old, NEW new, old.of \in Seq(S), new.of \in Seq(S),
           NEW p \in OfferedProofs(old, new)
    PROVE  IsList(p)
<1>. DEFINE base == UNION {{ConsistencyProof(es, n) : n \in 1 .. Len(es)} :
                            es \in {old.of, new.of} \ {<<>>}}
            shorter == {Front(q) : q \in base \ {<<>>}}
            both(h, q) == {<<h>> \o q, q \o <<h>>}
            pairs == {both(h, q) : h \in Subtrees(old.of), q \in base}
            longer == UNION pairs
<1>1. ASSUME NEW q \in base PROVE IsList(q)
  <2>1. PICK es \in {old.of, new.of} : q \in {ConsistencyProof(es, n) : n \in 1 .. Len(es)}
    BY Zenon
  <2>2. es \in Seq(S)
    BY <2>1
  <2>3. PICK n \in 1 .. Len(es) : q = ConsistencyProof(es, n)
    BY <2>1, Zenon
  <2>. HIDE DEF base
  <2>4. IsList(ConsistencyProof(es, n))
    BY <2>2, ConsistencyIsComplete
  <2>. QED
    BY <2>3, <2>4, Zenon
<1>2. p \in base \/ p \in shorter \/ p \in longer
  <2>1. OfferedProofs(old, new) = base \cup shorter \cup longer
    BY DEF OfferedProofs
  <2>. HIDE DEF base, shorter, longer
  <2>. QED
    BY <2>1
<1>. HIDE DEF base
<1>3. CASE p \in base
  BY <1>1, <1>3
<1>4. CASE p \in shorter
  <2>1. PICK q \in base : q # <<>> /\ p = Front(q)
    BY <1>4
  <2>. QED
    BY <1>1, <2>1, ConsListFacts
<1>5. CASE p \in longer
  <2>0. PICK pair \in pairs : p \in pair
    <3>. HIDE DEF pairs
    <3>. QED
      BY <1>5
  <2>1. PICK h \in Subtrees(old.of), q \in base : pair = both(h, q)
    <3>. HIDE DEF both
    <3>. QED
      BY <2>0
  <2>. HIDE DEF pairs, longer
  <2>2. IsList(q)
    BY <1>1
  <2>3. IsList(<<h>> \o q) /\ IsList(q \o <<h>>)
    BY <2>2, ConsListFacts
  <2>. QED
    BY <2>0, <2>1, <2>3, Zenon
<1>. HIDE DEF shorter, longer
<1>. QED
  BY <1>2, <1>3, <1>4, <1>5, Zenon

\* Whatever an operator offers as an inclusion proof has a list of hashes as its path, and
\* a number as its index.
LEMMA OfferedInclusionIsProof ==
    ASSUME NEW S, entries \in Seq(S), head.of \in Seq(S), MaxSize \in Nat, NEW e,
           NEW p \in OfferedInclusion(e)
    PROVE  IsList(p.path) /\ p.index \in Int
<1>. DEFINE made == UNION {{InclusionProof(es, i) : i \in 0 .. (Len(es) - 1)} :
                            es \in {entries, head.of}}
            relabelled == {[q EXCEPT !.leaf = LeafHash(e)] : q \in made}
            moved == {[q EXCEPT !.index = i] : q \in relabelled, i \in 0 .. MaxSize}
            shorter == {[q EXCEPT !.path = Front(@)] : q \in {r \in relabelled : r.path # <<>>}}
            IsProof(q) == /\ q = [index |-> q.index, size |-> q.size, leaf |-> q.leaf, path |-> q.path]
                          /\ IsList(q.path) /\ q.index \in Int
<1>1. ASSUME NEW q \in made PROVE IsProof(q)
  <2>1. PICK es \in {entries, head.of} : q \in {InclusionProof(es, i) : i \in 0 .. (Len(es) - 1)}
    BY Zenon
  <2>2. es \in Seq(S)
    BY <2>1
  <2>3. PICK i \in 0 .. (Len(es) - 1) : q = InclusionProof(es, i)
    BY <2>1, Zenon
  <2>. HIDE DEF made
  <2>4. IsList(AuditPath(es, i)) /\ i \in Int
    BY <2>2, InclusionIsComplete
  <2>5. q = [index |-> i, size |-> Len(es), leaf |-> LeafHash(es[i + 1]), path |-> AuditPath(es, i)]
    BY <2>3 DEF InclusionProof
  <2>6. q.index = i /\ q.size = Len(es) /\ q.leaf = LeafHash(es[i + 1]) /\ q.path = AuditPath(es, i)
    BY <2>5
  <2>. QED
    BY <2>4, <2>5, <2>6, Zenon
<1>2. p \in made \/ p \in relabelled \/ p \in moved \/ p \in shorter
  <2>1. OfferedInclusion(e) = made \cup relabelled \cup moved \cup shorter
    BY DEF OfferedInclusion
  <2>. HIDE DEF made, relabelled, moved, shorter
  <2>. QED
    BY <2>1
<1>. HIDE DEF made
<1>3. ASSUME NEW q \in relabelled PROVE IsProof(q)
  <2>1. PICK r \in made : q = [r EXCEPT !.leaf = LeafHash(e)]
    BY Zenon
  <2>2. IsProof(r)
    BY <1>1
  <2>3. q = [index |-> r.index, size |-> r.size, leaf |-> LeafHash(e), path |-> r.path]
    BY <2>1, <2>2
  <2>4. q.index = r.index /\ q.size = r.size /\ q.leaf = LeafHash(e) /\ q.path = r.path
    BY <2>3
  <2>. QED
    BY <2>2, <2>3, <2>4, Zenon
<1>. HIDE DEF relabelled
<1>4. CASE p \in made
  BY <1>1, <1>4, Zenon
<1>5. CASE p \in relabelled
  BY <1>3, <1>5, Zenon
<1>6. CASE p \in moved
  <2>1. PICK q \in relabelled, i \in 0 .. MaxSize : p = [q EXCEPT !.index = i]
    BY <1>6
  <2>2. IsProof(q)
    BY <1>3
  <2>3. p = [index |-> i, size |-> q.size, leaf |-> q.leaf, path |-> q.path]
    BY <2>1, <2>2
  <2>4. p.index = i /\ p.path = q.path
    BY <2>3
  <2>5. i \in Int
    OBVIOUS
  <2>. QED
    BY <2>2, <2>4, <2>5, Zenon
<1>7. CASE p \in shorter
  <2>1. PICK q \in relabelled : q.path # <<>> /\ p = [q EXCEPT !.path = Front(@)]
    BY <1>7, Zenon
  <2>2. IsProof(q)
    BY <1>3
  <2>3. p = [index |-> q.index, size |-> q.size, leaf |-> q.leaf, path |-> Front(q.path)]
    BY <2>1, <2>2
  <2>4. p.index = q.index /\ p.path = Front(q.path)
    BY <2>3
  <2>5. IsList(Front(q.path))
    BY <2>1, <2>2, ConsListFacts
  <2>. QED
    BY <2>2, <2>4, <2>5, Zenon
<1>. HIDE DEF moved, shorter
<1>. QED
  BY <1>2, <1>4, <1>5, <1>6, <1>7, Zenon

\* The empty log has one history.
LEMMA LogInvInit == LogInit => LogInv
<1>. SUFFICES ASSUME LogInit PROVE LogInv
  OBVIOUS
<1>1. <<>> \in Seq(Statements)
  OBVIOUS
<1>2. entries = <<>> /\ head = SignedHead(<<>>) /\ acceptedHead = SignedHead(<<>>) /\ proven = {}
  BY DEF LogInit
<1>3. head.of = <<>> /\ acceptedHead.of = <<>>
  BY <1>2, HeadFields
<1>. QED
  BY <1>1, <1>2, <1>3, Zenon DEF LogInv

\* Whatever proof it was shown, the head a monitor moves to is of a log that begins with all
\* entries of the one it accepted before.
LEMMA AdvanceExtends ==
    ASSUME LogInv, MonitorAdvance
    PROVE  /\ Len(acceptedHead.of) <= Len(head.of)
           /\ \A i \in 1 .. Len(acceptedHead.of) : acceptedHead.of[i] = head.of[i]
<1>1. /\ head.of \in Seq(Statements) /\ acceptedHead.of \in Seq(Statements)
      /\ head = SignedHead(head.of) /\ acceptedHead = SignedHead(acceptedHead.of)
  BY Zenon DEF LogInv
<1>2. PICK p \in OfferedProofs(acceptedHead, head) : VerifyConsistency(acceptedHead, head, p)
  BY DEF MonitorAdvance
<1>3. IsList(p)
  BY <1>1, OfferedProofsAreLists
<1>4. VerifyConsistency(SignedHead(acceptedHead.of), SignedHead(head.of), p)
  BY <1>1, <1>2, Zenon
<1>. QED
  BY <1>1, <1>3, <1>4, ConsistencyIsSound

\* Every step keeps LogInv. A monitor that moves on has a proof that the head it accepted is
\* of a prefix of the one it goes to; one that notes an entry has a proof of it.
LEMMA LogInvStep == LogInv /\ [LogNext]_logVars => LogInv'
<1>. SUFFICES ASSUME LogInv, [LogNext]_logVars PROVE LogInv'
  OBVIOUS
<1>. DEFINE Kept == \A p \in proven : p[2] \in 0 .. (acceptedHead.size - 1)
                                      /\ acceptedHead.of[p[2] + 1] = p[1]
<1>1. /\ entries \in Seq(Statements) /\ head.of \in Seq(Statements)
      /\ acceptedHead.of \in Seq(Statements)
      /\ head = SignedHead(head.of) /\ acceptedHead = SignedHead(acceptedHead.of)
      /\ Kept
  BY Zenon DEF LogInv
<1>2. ASSUME entries' \in Seq(Statements), UNCHANGED <<head, acceptedHead, proven>> PROVE LogInv'
  <2>1. head' = head /\ acceptedHead' = acceptedHead /\ proven' = proven
    BY <1>2
  <2>. QED
    BY <1>1, <1>2, <2>1, Zenon DEF LogInv
<1>3. ASSUME NEW e \in Statements, LogAppend(e) PROVE LogInv'
  <2>1. entries' = Append(entries, e) /\ UNCHANGED <<head, acceptedHead, proven>>
    BY <1>3 DEF LogAppend
  <2>2. entries' \in Seq(Statements)
    BY <1>1, <2>1
  <2>. QED
    BY <1>2, <2>1, <2>2
<1>4. ASSUME NEW e \in Statements, MonitorInclusion(e) PROVE LogInv'
  <2>1. PICK p \in OfferedInclusion(e) :
             VerifyInclusion(e, p, acceptedHead) /\ proven' = {<<e, p.index>>}
    BY <1>4 DEF MonitorInclusion
  <2>2. entries' = entries /\ head' = head /\ acceptedHead' = acceptedHead
    BY <1>4 DEF MonitorInclusion
  <2>3. IsList(p.path) /\ p.index \in Int
    BY <1>1, LogAssumption, OfferedInclusionIsProof
  <2>4. VerifyInclusion(e, p, SignedHead(acceptedHead.of))
    BY <1>1, <2>1, Zenon
  <2>5. p.index \in 0 .. (Len(acceptedHead.of) - 1) /\ acceptedHead.of[p.index + 1] = e
    <3>1. acceptedHead.of \in Seq(Statements)
      BY <1>1
    <3>. QED
      BY <2>3, <2>4, <3>1, InclusionIsSound
  <2>6. acceptedHead.size = Len(acceptedHead.of)
    BY <1>1, HeadFields
  <2>7. ASSUME NEW q \in proven'
        PROVE  q[2] \in 0 .. (acceptedHead.size - 1) /\ acceptedHead.of[q[2] + 1] = q[1]
    <3>1. q = <<e, p.index>>
      BY <2>1, <2>7
    <3>2. q[1] = e /\ q[2] = p.index
      BY <3>1
    <3>. QED
      BY <2>5, <2>6, <3>2, Zenon
  <2>. QED
    BY <1>1, <2>2, <2>7, Zenon DEF LogInv
<1>5. ASSUME SignTreeHead PROVE LogInv'
  <2>1. head' = SignedHead(entries) /\ entries' = entries /\ acceptedHead' = acceptedHead /\ proven' = proven
    BY <1>5 DEF SignTreeHead
  <2>2. head'.of = entries
    BY <2>1, HeadFields
  <2>. QED
    BY <1>1, <2>1, <2>2, Zenon DEF LogInv
<1>6. ASSUME Rewrite PROVE LogInv'
  <2>1. UNCHANGED <<head, acceptedHead, proven>>
    BY <1>6 DEF Rewrite
  <2>2. CASE \E i \in DOMAIN entries, e \in Statements : entries' = [entries EXCEPT ![i] = e]
    <3>1. entries' \in Seq(Statements)
      BY <1>1, <2>2
    <3>. QED
      BY <1>2, <2>1, <3>1
  <2>3. CASE \E n \in 0 .. (Len(entries) - 1) : entries' = SubSeq(entries, 1, n)
    <3>1. entries' \in Seq(Statements)
      BY <1>1, <2>3
    <3>. QED
      BY <1>2, <2>1, <3>1
  <2>. QED
    BY <1>6, <2>2, <2>3 DEF Rewrite
<1>7. ASSUME MonitorAdvance PROVE LogInv'
  <2>1. entries' = entries /\ head' = head /\ acceptedHead' = head /\ proven' = proven
    BY <1>7 DEF MonitorAdvance
  <2>2. /\ Len(acceptedHead.of) <= Len(head.of)
        /\ \A i \in 1 .. Len(acceptedHead.of) : acceptedHead.of[i] = head.of[i]
    BY <1>7, AdvanceExtends
  <2>3. /\ acceptedHead.size = Len(acceptedHead.of) /\ head.size = Len(head.of)
        /\ acceptedHead.size \in Nat /\ head.size \in Nat
    <3>1. acceptedHead.size = Len(acceptedHead.of) /\ head.size = Len(head.of)
      BY <1>1, HeadFields
    <3>. QED
      BY <1>1, <3>1
  <2>4. ASSUME NEW q \in proven
        PROVE  q[2] \in 0 .. (head.size - 1) /\ head.of[q[2] + 1] = q[1]
    <3>1. q[2] \in 0 .. (acceptedHead.size - 1) /\ acceptedHead.of[q[2] + 1] = q[1]
      BY <1>1
    <3>2. q[2] \in 0 .. (head.size - 1) /\ q[2] + 1 \in 1 .. Len(acceptedHead.of)
      BY <2>2, <2>3, <3>1
    <3>. QED
      BY <2>2, <3>1, <3>2
  <2>. QED
    BY <1>1, <2>1, <2>4, Zenon DEF LogInv
<1>8. ASSUME UNCHANGED logVars PROVE LogInv'
  BY <1>1, <1>2, <1>8 DEF logVars
<1>. QED
  BY <1>3, <1>4, <1>5, <1>6, <1>7, <1>8 DEF LogNext

\* OneHistory follows: the honest proofs verify for every log.
LEMMA LogInvImplies == LogInv => OneHistory
<1>. SUFFICES ASSUME LogInv PROVE OneHistory
  OBVIOUS
<1>1. /\ entries \in Seq(Statements) /\ acceptedHead.of \in Seq(Statements)
      /\ acceptedHead = SignedHead(acceptedHead.of)
      /\ \A p \in proven : p[2] \in 0 .. (acceptedHead.size - 1)
                           /\ acceptedHead.of[p[2] + 1] = p[1]
  BY Zenon DEF LogInv
<1>2. acceptedHead.size \in Nat
  <2>1. acceptedHead.size = Len(acceptedHead.of)
    BY <1>1, HeadFields
  <2>. QED
    BY <1>1, <2>1
<1>3. \A p \in proven : p[2] < acceptedHead.size /\ acceptedHead.of[p[2] + 1] = p[1]
  BY <1>1, <1>2
<1>4. ASSUME NEW n \in 1 .. Len(entries)
      PROVE  VerifyConsistency(SignedHead(SubSeq(entries, 1, n)), SignedHead(entries),
                               ConsistencyProof(entries, n))
  BY <1>1, ConsistencyIsComplete
<1>5. ASSUME NEW i \in 0 .. (Len(entries) - 1)
      PROVE  VerifyInclusion(entries[i + 1], InclusionProof(entries, i), SignedHead(entries))
  BY <1>1, InclusionIsComplete
<1>. QED
  BY <1>3, <1>4, <1>5, Zenon DEF OneHistory, HonestProofsVerify

\* What a monitor has once seen in the log stays there, at its place, in every head it
\* accepts afterwards, for logs of every length and however often the operator rewrites
\* them; and what an honest log proves of itself always verifies (verify_inclusion,
\* verify_log_consistency).
THEOREM LogKeepsOneHistory == LogSpec => []OneHistory
<1>1. LogInit => LogInv
  BY LogInvInit
<1>2. LogInv /\ [LogNext]_logVars => LogInv'
  BY LogInvStep
<1>3. LogInv => OneHistory
  BY LogInvImplies
<1>. QED
  BY <1>1, <1>2, <1>3, PTL DEF LogSpec

\* A monitor never goes back, and never to another history: in every step the log it trusts
\* keeps all entries it had, at their places (verify_log_consistency).
THEOREM AcceptedLogsOnlyGrow ==
    LogSpec => [][/\ Len(acceptedHead.of) <= Len(acceptedHead'.of)
                  /\ \A i \in 1 .. Len(acceptedHead.of) :
                       acceptedHead.of[i] = acceptedHead'.of[i]]_logVars
<1>. DEFINE Grows == /\ Len(acceptedHead.of) <= Len(acceptedHead'.of)
                     /\ \A i \in 1 .. Len(acceptedHead.of) :
                          acceptedHead.of[i] = acceptedHead'.of[i]
<1>1. LogInit => LogInv
  BY LogInvInit
<1>2. LogInv /\ [LogNext]_logVars => LogInv'
  BY LogInvStep
<1>3. LogInv /\ [LogNext]_logVars => [Grows]_logVars
  <2>. SUFFICES ASSUME LogInv, LogNext PROVE Grows
    OBVIOUS
  <2>1. CASE MonitorAdvance
    <3>1. acceptedHead' = head
      BY <2>1 DEF MonitorAdvance
    <3>. QED
      BY <2>1, <3>1, AdvanceExtends, Zenon
  <2>2. CASE ~MonitorAdvance
    <3>1. acceptedHead' = acceptedHead
      BY <2>2 DEF LogNext, LogAppend, MonitorInclusion, SignTreeHead, Rewrite
    <3>2. acceptedHead.of \in Seq(Statements)
      BY Zenon DEF LogInv
    <3>3. Len(acceptedHead.of) <= Len(acceptedHead.of)
      BY <3>2
    <3>. QED
      BY <3>1, <3>3, Zenon
  <2>. QED
    BY <2>1, <2>2
<1>. HIDE DEF Grows
<1>4. LogSpec => [][Grows]_logVars
  BY <1>1, <1>2, <1>3, PTL DEF LogSpec
<1>. QED
  BY <1>4 DEF Grows

=============================================================================
