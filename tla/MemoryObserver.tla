--------------------------- MODULE MemoryObserver ---------------------------
(***************************************************************************)
(* observe_model_memory and ModelMemoryVerifier of                         *)
(* python/src/wcm/model_memory.py: an observer next to the model signs     *)
(* measurements for a challenge; an untrusted host keeps every observation *)
(* and presents any of them, for any challenge, as often as it likes.      *)
(***************************************************************************)
EXTENDS Integers, Sequences, FiniteSets

CONSTANTS
    ObservedBuffers,   \* number of buffers of the inventory
    MaxEdits,          \* bound on the changes of buffers
    MaxChallenges,     \* bound on the challenges issued
    MaxObservations    \* bound on the observations signed

VARIABLES
    memory,        \* what each buffer holds: "good" is the baseline's content
    edits,         \* how often memory has changed; a ghost clock of the memory
    issuedAt,      \* the reading of edits at which each challenge was issued
    open,          \* challenges issued and neither consumed nor expired
    scan,          \* the observation under way: its binding and what it has read
    observations,  \* what the observer has signed
    verified       \* the acceptances: <<observation, challenge>>, in order

observerVars == <<memory, edits, issuedAt, open, scan, observations, verified>>

ASSUME ObserverAssumption == ObservedBuffers \in Nat

NoScan == <<>>

ObserverInit ==
    /\ memory = [b \in 1 .. ObservedBuffers |-> "good"]
    /\ edits = 0
    /\ issuedAt = <<>>
    /\ open = {}
    /\ scan = NoScan
    /\ observations = {}
    /\ verified = <<>>

EditBuffer ==
    /\ edits < MaxEdits
    /\ edits' = edits + 1
    /\ \E b \in DOMAIN memory : memory' =
           [memory EXCEPT ![b] = IF @ = "good" THEN "bad" ELSE "good"]
    /\ UNCHANGED <<issuedAt, open, scan, observations, verified>>

IssueChallenge ==
    /\ Len(issuedAt) < MaxChallenges
    /\ issuedAt' = Append(issuedAt, edits)
    /\ open' = open \cup {Len(issuedAt')}
    /\ UNCHANGED <<memory, edits, scan, observations, verified>>

ExpireChallenge ==
    /\ \E n \in open : open' = open \ {n}
    /\ UNCHANGED <<memory, edits, issuedAt, scan, observations, verified>>

\* observe_model_memory is called for a challenge, for the verifier's baseline and
\* transport key ("own") or for another runtime's.
BeginObservation ==
    /\ scan = NoScan
    /\ Cardinality(observations) < MaxObservations
    /\ \E n \in DOMAIN issuedAt, bound \in {"own", "other"} :
         scan' = <<[nonce |-> n, bound |-> bound, digests |-> <<>>, at |-> <<>>]>>
    /\ UNCHANGED <<memory, edits, issuedAt, open, observations, verified>>

\* measure_model_buffers reads the next buffer; at is a ghost: when.
MeasureBuffer ==
    /\ scan # NoScan
    /\ Len(scan[1].digests) < ObservedBuffers
    /\ scan' = [scan EXCEPT ![1].digests = Append(@, memory[Len(@) + 1]),
                            ![1].at = Append(@, edits)]
    /\ UNCHANGED <<memory, edits, issuedAt, open, observations, verified>>

\* The complete measurement is signed, mismatches too.
SignObservation ==
    /\ scan # NoScan
    /\ Len(scan[1].digests) = ObservedBuffers
    /\ observations' = observations \cup {scan[1]}
    /\ scan' = NoScan
    /\ UNCHANGED <<memory, edits, issuedAt, open, verified>>

Approved(o) == o.bound = "own" /\ \A b \in DOMAIN o.digests : o.digests[b] = "good"

\* Fault: the challenge that the observation names is the one consumed.
VerifyNamedChallenge(o, n) ==
    /\ n \in DOMAIN issuedAt
    /\ open' = open \ {o.nonce}
    /\ verified' = IF n \in open /\ Approved(o) THEN Append(verified, <<o, n>>) ELSE verified
    /\ UNCHANGED <<memory, edits, issuedAt, scan, observations>>

\* verify consumes the caller's challenge, whatever the outcome.
VerifyObservation(o, n) ==
    /\ n \in DOMAIN issuedAt
    /\ open' = open \ {n}
    /\ verified' = IF n \in open /\ o.nonce = n /\ Approved(o)
                   THEN Append(verified, <<o, n>>) ELSE verified
    /\ UNCHANGED <<memory, edits, issuedAt, scan, observations>>

ObserverNext ==
    \/ EditBuffer \/ IssueChallenge \/ ExpireChallenge
    \/ BeginObservation \/ MeasureBuffer \/ SignObservation
    \/ \E o \in observations, n \in 1 .. MaxChallenges : VerifyObservation(o, n)

ObserverSpec == ObserverInit /\ [][ObserverNext]_observerVars

-----------------------------------------------------------------------------
\* A challenge is accepted at most once, and only for a measurement every part of
\* which was read after that challenge was issued and found approved: a kept
\* observation says nothing about a later challenge (ModelMemoryVerifier.verify).
\* The parts may be of different moments: a scan is no snapshot.
ObservedAfterChallenge ==
    /\ \A i, j \in DOMAIN verified : verified[i][2] = verified[j][2] => i = j
    /\ \A i \in DOMAIN verified :
         LET o == verified[i][1]
         IN  \A b \in DOMAIN o.digests : o.at[b] >= issuedAt[verified[i][2]] /\ o.digests[b] = "good"

-----------------------------------------------------------------------------
(* The inductive form of ObservedAfterChallenge                            *)

Contents == {"good", "bad"}

ClockInv ==
    /\ memory \in [1 .. ObservedBuffers -> Contents]
    /\ edits \in Nat
    /\ issuedAt \in Seq(Nat)
    /\ \A n \in DOMAIN issuedAt : issuedAt[n] <= edits

\* Whatever an observation has read, it read after the challenge it names.
Observation == [nonce : Nat, bound : {"own", "other"}, digests : Seq(Contents), at : Seq(Nat)]

ReadAfter(o) ==
    /\ o \in Observation
    /\ o.nonce \in DOMAIN issuedAt
    /\ Len(o.at) = Len(o.digests)
    /\ \A b \in DOMAIN o.at : o.at[b] >= issuedAt[o.nonce]

ObservationInv ==
    /\ \A o \in observations : ReadAfter(o)
    /\ scan = NoScan \/ (scan = <<scan[1]>> /\ ReadAfter(scan[1]))

\* An accepted challenge is spent, and was accepted for the observation that names it.
VerifiedInv ==
    /\ open \subseteq DOMAIN issuedAt
    /\ verified \in Seq(observations \X Nat)
    /\ \A i \in DOMAIN verified :
         /\ verified[i][2] = verified[i][1].nonce
         /\ verified[i][2] \notin open
         /\ verified[i][2] \in DOMAIN issuedAt
         /\ Approved(verified[i][1])
    /\ \A i, j \in DOMAIN verified : verified[i][2] = verified[j][2] => i = j

=============================================================================
