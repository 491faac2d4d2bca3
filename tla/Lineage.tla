------------------------------ MODULE Lineage ------------------------------
(***************************************************************************)
(* Derived manifests: verify_lineage of python/src/wcm/lineage.py over any *)
(* set of manifests that point at their parents by weights_hash, while     *)
(* revocations arrive and manifests leave the set of the logged ones.      *)
(***************************************************************************)
EXTENDS Integers, Sequences, FiniteSets, SequencesExt

CONSTANTS
    Hashes,         \* weights_hash values
    Leaf,           \* the one whose lineage is asked for
    Environments    \* permitted environments

VARIABLES
    parent,     \* derived_from: another hash, Unknown (not in the set), or Root
    policy,     \* release_terms.derivatives
    envs,       \* release_terms.permitted_environments
    revoked,    \* hashes with a verified revocation
    logged      \* hashes the caller confirmed in the log

lineageVars == <<parent, policy, envs, revoked, logged>>

Root    == "root"
Unknown == "unknown"

\* known is a finite mapping; no hash is one of the two marks.
ASSUME LineageAssumption == /\ Leaf \in Hashes /\ IsFiniteSet(Hashes)
                            /\ Root \notin Hashes /\ Unknown \notin Hashes

Rank == [none |-> 0, fine_tune_only |-> 1, unrestricted |-> 2]
Policies == DOMAIN Rank \cup {"unspecified"}

-----------------------------------------------------------------------------
\* One manifest further up, unless there is a root, a missing parent or a repetition.
Further(c) ==
    LET p == parent[Last(c)]
    IN  IF p \in {Root, Unknown} \/ Contains(c, p) THEN c ELSE Append(c, p)

\* The hashes visited from h; no walk without repetition is longer.
Chain(h) ==
    LET walk[n \in 0 .. Cardinality(Hashes)] == IF n = 0 THEN <<h>> ELSE Further(walk[n - 1])
    IN  walk[Cardinality(Hashes)]

\* Fault: environments are compared with the immediate parent only when the policies
\* of both are given.
WidensRankedOnly(child, par) ==
    /\ "unspecified" \notin {policy[child], policy[par]}
    /\ \/ policy[par] # "none" /\ Rank[policy[child]] > Rank[policy[par]]
       \/ ~(envs[child] \subseteq envs[par])

\* _check_monotone_rights
Widens(child, par) ==
    \/ /\ policy[par] \notin {"unspecified", "none"}
       /\ policy[child] # "unspecified"
       /\ Rank[policy[child]] > Rank[policy[par]]
    \/ ~(envs[child] \subseteq envs[par])

\* verify_lineage(...).ok
VerifyLineage(leaf) ==
    LET chain == Chain(leaf)
        end   == parent[Last(chain)]
    IN  /\ end = Root                                    \* no missing parent, no cycle
        /\ \A i \in 1 .. (Len(chain) - 1) :
             policy[chain[i + 1]] # "none" /\ ~Widens(chain[i], chain[i + 1])
        /\ \A i \in DOMAIN chain : chain[i] \notin revoked /\ chain[i] \in logged

-----------------------------------------------------------------------------
LineageInit ==
    /\ parent \in [Hashes -> Hashes \cup {Root, Unknown}]
    /\ \A h \in Hashes : parent[h] # h          \* _derived_from_not_self
    /\ policy \in [Hashes -> Policies]
    /\ envs \in [Hashes -> SUBSET Environments]
    /\ revoked = {}
    /\ logged = Hashes

Revoke ==
    /\ \E h \in Hashes \ revoked : revoked' = revoked \cup {h}
    /\ UNCHANGED <<parent, policy, envs, logged>>

LeaveLog ==
    /\ \E h \in logged : logged' = logged \ {h}
    /\ UNCHANGED <<parent, policy, envs, revoked>>

LineageNext ==
    /\ revoked = {} /\ logged = Hashes
    /\ Revoke \/ LeaveLog

LineageSpec == LineageInit /\ [][LineageNext]_lineageVars

-----------------------------------------------------------------------------
WithParents(A) == A \cup ({parent[a] : a \in A} \cap Hashes)

\* What the leaf stands on, by definition: the least set closed under derived_from.
Ancestors(h) ==
    LET up[n \in 0 .. Cardinality(Hashes)] == IF n = 0 THEN {h} ELSE WithParents(up[n - 1])
    IN  up[Cardinality(Hashes)]

\* A lineage that verifies is a finite descent from a root none of whose members, at any
\* distance, is revoked or missing from the log or forbids derivatives, and it grants no
\* environment that some ancestor does not grant (verify_lineage). Derivative ranks are
\* compared pairwise only: an unspecified policy in between hides a widening.
LineageSound ==
    VerifyLineage(Leaf) =>
        LET above == Ancestors(Leaf)
        IN  /\ \E r \in above : parent[r] = Root
            /\ above \cap revoked = {}
            /\ above \subseteq logged
            /\ \A a \in above \ {Leaf} : policy[a] # "none" /\ envs[Leaf] \subseteq envs[a]

LineageTypes ==
    /\ parent \in [Hashes -> Hashes \cup {Root, Unknown}]
    /\ policy \in [Hashes -> Policies]
    /\ envs \in [Hashes -> SUBSET Environments]

=============================================================================
