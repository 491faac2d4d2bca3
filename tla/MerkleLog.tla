----------------------------- MODULE MerkleLog -----------------------------
(***************************************************************************)
(* The transparency log of python/src/wcm/transparency.py on the RFC 9162  *)
(* tree of python/src/wcm/_merkle.py, and a monitor that follows it by     *)
(* signed tree heads without access to its entries.                        *)
(*                                                                         *)
(* A hash is the term it is computed from: <<e>> for a leaf, <<l, r>> for  *)
(* an inner node, which is what the domain separation of the code gives.   *)
(* Positions are counted from 0 as in the code, sequences from 1.          *)
(***************************************************************************)
EXTENDS Integers, Sequences, SequencesExt

CONSTANTS
    Statements,   \* entries: a statement together with its entry type
    MaxSize,      \* bound on the length of the log
    MaxRewrites   \* bound on how often a dishonest operator rewrites history

ASSUME LogAssumption == MaxSize \in Nat /\ MaxRewrites \in Nat

VARIABLES
    entries,      \* _preimages
    head,         \* the latest signed tree head, with the ghost of what it was signed over
    acceptedHead, \* the head the monitor accepted last; at first that of the empty log
    proven,       \* the entry the monitor watches, as <<statement, index>>, once verified
    rewrites      \* how often the operator has rewritten history

logVars == <<entries, head, acceptedHead, proven, rewrites>>

-----------------------------------------------------------------------------
(* The tree                                                                *)

\* What the code returns for a malformed proof, b"", equals no root.
NoRoot    == <<>>
EmptyTree == <<"", "", "">>

LeafHash(e) == <<e>>
Node(l, r)  == <<l, r>>

Pow2[e \in Nat] == IF e = 0 THEN 1 ELSE 2 * Pow2[e - 1]

PowerOfTwo(n) == \E e \in 0 .. n : n = Pow2[e]

\* Fault: half of the leaves, rounded up, instead of a power of two.
SplitInHalf(n) == (n + 1) \div 2

\* _split_point: the largest power of two below n.
SplitPoint(n) == CHOOSE k \in 1 .. (n - 1) : PowerOfTwo(k) /\ n <= 2 * k

\* _mth, for every subtree: of n leaves from position lo on.
Mth(es) ==
    LET mth[n \in 1 .. Len(es)] == [lo \in 0 .. (Len(es) - n) |->
            IF n = 1 THEN LeafHash(es[lo + 1])
            ELSE LET k == SplitPoint(n) IN Node(mth[k][lo], mth[n - k][lo + k])]
    IN  mth

TreeRoot(es) == IF es = <<>> THEN EmptyTree ELSE Mth(es)[Len(es)][0]

\* _audit_path: the siblings from the leaf to the root.
AuditPath(es, index) ==
    LET m == Mth(es)
        path[n \in 1 .. Len(es)] == [lo \in 0 .. (Len(es) - n) |->
            IF n = 1 THEN <<>>
            ELSE LET k == SplitPoint(n)
                 IN  IF index < lo + k THEN Append(path[k][lo], m[n - k][lo + k])
                     ELSE Append(path[n - k][lo + k], m[k][lo])]
    IN  path[Len(es)][0]

\* consistency_proof and _subproof, on the subtrees that begin before first. The flag b,
\* passed on to the left and False to the right, is lo = 0; m > n does not happen.
ConsistencyProof(es, first) ==
    LET m == Mth(es)
        sub[n \in 1 .. Len(es)] == [lo \in 0 .. (first - 1) |->
            IF lo + n <= first THEN (IF lo = 0 THEN <<>> ELSE <<m[n][lo]>>)
            ELSE LET k == SplitPoint(n)
                 IN  IF first <= lo + k THEN Append(sub[k][lo], m[n - k][lo + k])
                     ELSE Append(sub[n - k][lo + k], m[k][lo])]
    IN  IF first = Len(es) THEN <<>> ELSE sub[Len(es)][0]

-----------------------------------------------------------------------------
(* Verification: loops over the bits of a position                         *)

Odd(n) == n % 2 = 1

\* The number of low-order bits of n equal to 0 (1), none for n = 0.
LowZeros(n) == IF n = 0 THEN 0 ELSE CHOOSE z \in 0 .. n : \E o \in 1 .. n : Odd(o) /\ n = o * Pow2[z]
LowOnes(n)  == LowZeros(n + 1)

\* One step up from s: past the levels at which the node has no sibling.
Climb(s, levels) == [s EXCEPT !.fn = @ \div Pow2[levels], !.sn = @ \div Pow2[levels]]

\* Fault: a node without a sibling is climbed as one with a sibling.
LevelsOne(s) == 1

LevelsUp(s) == IF s.fn = s.sn /\ ~Odd(s.fn) THEN LowZeros(s.fn) + 1 ELSE 1

\* The body of the loop of compute_root_from_proof.
RootStep(s, step) ==
    IF s.sn = 0 THEN [s EXCEPT !.bad = TRUE]
    ELSE LET up == IF Odd(s.fn) \/ s.fn = s.sn THEN Node(step, s.r) ELSE Node(s.r, step)
         IN  Climb([s EXCEPT !.r = up], LevelsUp(s))

\* The states of the loop of compute_root_from_proof.
RootWalk(start, path) ==
    LET at[t \in 0 .. Len(path)] == IF t = 0 THEN start ELSE RootStep(at[t - 1], path[t])
    IN  at

ComputeRoot(leaf, index, size, path) ==
    IF ~(0 <= index /\ index < size) THEN NoRoot
    ELSE LET s == RootWalk([fn |-> index, sn |-> size - 1, r |-> leaf, bad |-> FALSE], path)[Len(path)]
         IN  IF s.bad \/ s.sn # 0 THEN NoRoot ELSE s.r

\* _fold_consistency_terms
TermStep(s, c) ==
    IF s.sn = 0 THEN [s EXCEPT !.bad = TRUE]
    ELSE LET up == IF Odd(s.fn) \/ s.fn = s.sn
                   THEN [s EXCEPT !.fr = Node(c, @), !.sr = Node(c, @)]
                   ELSE [s EXCEPT !.sr = Node(@, c)]
         IN  Climb(up, LevelsUp(s))

\* The states of the loop of _fold_consistency_terms, from the second term on.
TermWalk(start, terms) ==
    LET at[t \in 1 .. Len(terms)] == IF t = 1 THEN start ELSE TermStep(at[t - 1], terms[t])
    IN  at

\* Fault: the first root is taken from the proof and not compared.
VerifyConsistencySecondOnly(old, new, proof) ==
    IF old.size > new.size THEN FALSE
    ELSE IF old.size = new.size THEN proof = <<>> /\ old.root = new.root
    ELSE IF old.size = 0 THEN proof = <<>>
    ELSE LET terms == IF PowerOfTwo(old.size) THEN <<old.root>> \o proof ELSE proof
             ones  == LowOnes(old.size - 1)
             start == [fn |-> (old.size - 1) \div Pow2[ones],
                       sn |-> (new.size - 1) \div Pow2[ones],
                       fr |-> terms[1], sr |-> terms[1], bad |-> FALSE]
             s == TermWalk(start, terms)[Len(terms)]
         IN  terms # <<>> /\ ~s.bad /\ s.sr = new.root /\ s.sn = 0

VerifyConsistency(old, new, proof) ==
    IF old.size > new.size THEN FALSE
    ELSE IF old.size = new.size THEN proof = <<>> /\ old.root = new.root
    ELSE IF old.size = 0 THEN proof = <<>>
    ELSE LET terms == IF PowerOfTwo(old.size) THEN <<old.root>> \o proof ELSE proof
             ones  == LowOnes(old.size - 1)
             start == [fn |-> (old.size - 1) \div Pow2[ones],
                       sn |-> (new.size - 1) \div Pow2[ones],
                       fr |-> terms[1], sr |-> terms[1], bad |-> FALSE]
             s == TermWalk(start, terms)[Len(terms)]
         IN  terms # <<>> /\ ~s.bad /\ s.fr = old.root /\ s.sr = new.root /\ s.sn = 0

\* transparency.verify_inclusion; proof is the InclusionProof record.
VerifyInclusion(e, proof, sth) ==
    /\ proof.leaf = LeafHash(e)
    /\ proof.size = sth.size
    /\ ComputeRoot(LeafHash(e), proof.index, proof.size, proof.path) = sth.root

-----------------------------------------------------------------------------
(* The log and its monitor                                                 *)

SignedHead(es) == [size |-> Len(es), root |-> TreeRoot(es), of |-> es]

InclusionProof(es, index) ==
    [index |-> index, size |-> Len(es), leaf |-> LeafHash(es[index + 1]),
     path |-> AuditPath(es, index)]

LogInit ==
    /\ entries = <<>>
    /\ head = SignedHead(<<>>)
    /\ acceptedHead = SignedHead(<<>>)
    /\ proven = {}
    /\ rewrites = 0

LogAppend(e) ==
    /\ Len(entries) < MaxSize
    /\ entries' = Append(entries, e)
    /\ UNCHANGED <<head, acceptedHead, proven, rewrites>>

SignTreeHead ==
    /\ head' = SignedHead(entries)
    /\ UNCHANGED <<entries, acceptedHead, proven, rewrites>>

\* A dishonest operator replaces an entry, or cuts the log, and goes on signing.
Rewrite ==
    /\ rewrites < MaxRewrites
    /\ \/ \E i \in DOMAIN entries, e \in Statements :
            entries[i] # e /\ entries' = [entries EXCEPT ![i] = e]
       \/ \E n \in 0 .. (Len(entries) - 1) : entries' = SubSeq(entries, 1, n)
    /\ rewrites' = rewrites + 1
    /\ UNCHANGED <<head, acceptedHead, proven>>

\* The hashes a dishonest operator has to make proofs of: subtrees of the history
\* it shows and of the one it showed before.
Subtrees(es) ==
    LET m == Mth(es) IN UNION {{m[n][lo] : lo \in 0 .. (Len(es) - n)} : n \in 1 .. Len(es)}

\* Proofs made for any history of the same or another length, cut or prolonged.
OfferedProofs(old, new) ==
    LET base == UNION {{ConsistencyProof(es, n) : n \in 1 .. Len(es)} :
                        es \in {old.of, new.of} \ {<<>>}}
    IN  base \cup {Front(p) : p \in base \ {<<>>}}
             \cup UNION {{<<h>> \o p, p \o <<h>>} : h \in Subtrees(old.of), p \in base}

\* The monitor follows the head it is shown, on any proof that verifies.
MonitorAdvance ==
    /\ head # acceptedHead
    /\ \E p \in OfferedProofs(acceptedHead, head) : VerifyConsistency(acceptedHead, head, p)
    /\ acceptedHead' = head
    /\ UNCHANGED <<entries, head, proven, rewrites>>

\* Any statement, with any inclusion proof made from the operator's current entries
\* or from those of the head.
OfferedInclusion(e) ==
    LET made == UNION {{InclusionProof(es, i) : i \in 0 .. (Len(es) - 1)} :
                        es \in {entries, head.of}}
        relabelled == {[p EXCEPT !.leaf = LeafHash(e)] : p \in made}
    IN  made \cup relabelled \cup {[p EXCEPT !.index = i] : p \in relabelled, i \in 0 .. MaxSize}
             \cup {[p EXCEPT !.path = Front(@)] : p \in {q \in relabelled : q.path # <<>>}}

MonitorInclusion(e) ==
    /\ proven = {}
    /\ \E p \in OfferedInclusion(e) :
         /\ VerifyInclusion(e, p, acceptedHead)
         /\ proven' = {<<e, p.index>>}
    /\ UNCHANGED <<entries, head, acceptedHead, rewrites>>

LogNext ==
    \/ \E e \in Statements : LogAppend(e) \/ MonitorInclusion(e)
    \/ SignTreeHead
    \/ Rewrite
    \/ MonitorAdvance

LogSpec == LogInit /\ [][LogNext]_logVars

-----------------------------------------------------------------------------
(* Properties                                                              *)

\* The proofs an honest log makes verify, for every pair of sizes and every entry.
HonestProofsVerify ==
    /\ \A n \in 1 .. Len(entries) :
         VerifyConsistency(SignedHead(SubSeq(entries, 1, n)), SignedHead(entries),
                           ConsistencyProof(entries, n))
    /\ \A i \in 0 .. (Len(entries) - 1) :
         VerifyInclusion(entries[i + 1], InclusionProof(entries, i), SignedHead(entries))

\* What a monitor has once seen in the log stays there, at its place, in every head
\* it accepts afterwards, also when the operator rewrites entries, cuts the log and
\* makes up proofs: a suppressed revocation is noticed (verify_inclusion and
\* verify_log_consistency under verified heads). The monitor never has to give up on an
\* honest log for that: what the log proves of itself always verifies.
OneHistory ==
    /\ \A p \in proven : p[2] < acceptedHead.size /\ acceptedHead.of[p[2] + 1] = p[1]
    /\ HonestProofsVerify

\* Every head is signed over a sequence of statements, and the entry the monitor watches
\* is where it was proved in the head it accepted last.
LogInv ==
    /\ {entries, head.of, acceptedHead.of} \subseteq Seq(Statements)
    /\ head = SignedHead(head.of)
    /\ acceptedHead = SignedHead(acceptedHead.of)
    /\ \A p \in proven : p[2] \in 0 .. (acceptedHead.size - 1) /\ acceptedHead.of[p[2] + 1] = p[1]

=============================================================================
