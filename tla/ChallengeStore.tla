--------------------------- MODULE ChallengeStore ---------------------------
(***************************************************************************)
(* The nonce store of python/src/wcm/_challenge.py: the freshness gate of  *)
(* the key broker and of the owner's provisioner.                          *)
(*                                                                         *)
(* issue() and consume() each run entirely under the store's lock, so each *)
(* is one action; any number of server threads may call them, which is     *)
(* what the existential over nonces in Next stands for.  The two           *)
(* OrderedDicts are sequences of entries in insertion order.               *)
(***************************************************************************)
EXTENDS Integers, Sequences, FiniteSetsExt, SequencesExt

CONSTANTS
    Nonces,     \* values secrets.token_hex(32) may return; never the same twice
    TTL,        \* ttl_seconds
    MaxTime     \* bound on the clock

ASSUME TTLAssumption  == TTL \in Nat
ASSUME TimeAssumption == MaxTime \in Nat

VARIABLES
    now,        \* the wall clock the store reads
    issued,     \* _issued: sequence of entries, oldest insertion first
    consumed,   \* _consumed: sequence of entries, oldest insertion first
    verdict,    \* outcome of the latest call
    minted,     \* ghost: nonces handed out so far
    takes,      \* ghost: how often consume() found each nonce in _issued
    usedAt,     \* ghost: clock reading when the nonce was consumed
    prunedAt,   \* ghost: clock reading of the latest issue(), which prunes
    steady      \* ghost: the wall clock has not stepped back so far

vars == <<now, issued, consumed, verdict, minted, takes, usedAt, prunedAt, steady>>

Entry    == [nonce : Nonces, expires : Nat]
Verdicts == {"none", "issued", "ok", "replay", "unknown", "expired"}

Init ==
    /\ now = 0
    /\ issued = <<>>
    /\ consumed = <<>>
    /\ verdict = "none"
    /\ minted = {}
    /\ takes = [n \in Nonces |-> 0]
    /\ usedAt = [n \in Nonces |-> 0]
    /\ prunedAt = 0
    /\ steady = TRUE

-----------------------------------------------------------------------------

\* The positions of the entries that have not expired at t.
Live(table, t) == {i \in DOMAIN table : t <= table[i].expires}

\* Fault: one entry is dropped instead of all the expired ones at the front.
PrunedOnce(table, t) ==
    IF table # <<>> /\ t > table[1].expires THEN Tail(table) ELSE table

\* Fault: the comparison is off by one, a challenge in its last moment is dropped.
PrunedEarly(table, t) ==
    IF Live(table, t + 1) = {} THEN <<>>
    ELSE SubSeq(table, Min(Live(table, t + 1)), Len(table))

\* _prune drops expired entries from the front, up to the first live one.
Pruned(table, t) ==
    IF Live(table, t) = {} THEN <<>>
    ELSE SubSeq(table, Min(Live(table, t)), Len(table))

Issue(n) ==
    /\ n \notin minted
    /\ issued' = Append(Pruned(issued, now), [nonce |-> n, expires |-> now + TTL])
    /\ consumed' = Pruned(consumed, now)
    /\ verdict' = "issued"
    /\ minted' = minted \cup {n}
    /\ prunedAt' = now
    /\ UNCHANGED <<now, takes, usedAt, steady>>

Holds(table, n) == \E i \in DOMAIN table : table[i].nonce = n

\* The refusals that leave both tables alone.
ConsumeReplay(n) ==
    /\ Holds(consumed, n)
    /\ verdict' = "replay"
    /\ UNCHANGED <<now, issued, consumed, minted, takes, usedAt, prunedAt, steady>>

ConsumeUnknown(n) ==
    /\ ~Holds(consumed, n)
    /\ ~Holds(issued, n)
    /\ verdict' = "unknown"
    /\ UNCHANGED <<now, issued, consumed, minted, takes, usedAt, prunedAt, steady>>

\* Fault: the challenge is looked up with get() instead of pop().
TakeWithGet(n, i) ==
    /\ consumed' = Append(consumed, issued[i])
    /\ takes' = [takes EXCEPT ![n] = @ + 1]
    /\ usedAt' = [usedAt EXCEPT ![n] = now]
    /\ verdict' = IF now > issued[i].expires THEN "expired" ELSE "ok"
    /\ UNCHANGED <<now, issued, minted, prunedAt, steady>>

\* Fault: the expiry is looked at first, so that a late presentation burns nothing.
TakeUnlessLate(n, i) ==
    LET late == now > issued[i].expires IN
    /\ issued' = IF late THEN issued ELSE RemoveAt(issued, i)
    /\ consumed' = IF late THEN consumed ELSE Append(consumed, issued[i])
    /\ takes' = [takes EXCEPT ![n] = @ + 1]
    /\ usedAt' = [usedAt EXCEPT ![n] = now]
    /\ verdict' = IF late THEN "expired" ELSE "ok"
    /\ UNCHANGED <<now, minted, prunedAt, steady>>

\* The nonce moves from _issued to _consumed before its expiry is looked at,
\* so a late presentation burns it as well.
Take(n, i) ==
    /\ issued' = RemoveAt(issued, i)
    /\ consumed' = Append(consumed, issued[i])
    /\ takes' = [takes EXCEPT ![n] = @ + 1]
    /\ usedAt' = [usedAt EXCEPT ![n] = now]
    /\ verdict' = IF now > issued[i].expires THEN "expired" ELSE "ok"
    /\ UNCHANGED <<now, minted, prunedAt, steady>>

ConsumeTake(n) ==
    /\ ~Holds(consumed, n)
    /\ \E i \in DOMAIN issued : issued[i].nonce = n /\ Take(n, i)

Consume(n) == ConsumeReplay(n) \/ ConsumeUnknown(n) \/ ConsumeTake(n)

\* datetime.now(timezone.utc): it moves by any amount, and back too.
ClockMoves ==
    /\ \E t \in 0..MaxTime \ {now} :
        /\ now' = t
        /\ steady' = (steady /\ t > now)
    /\ UNCHANGED <<issued, consumed, verdict, minted, takes, usedAt, prunedAt>>

Next ==
    \/ \E n \in Nonces : Issue(n)
    \/ \E n \in Nonces : Consume(n)
    \/ ClockMoves

Spec == Init /\ [][Next]_vars

-----------------------------------------------------------------------------

\* The tables hold entries, the ghosts have their types, and the clock stays
\* within its bound.
TypeOK ==
    /\ now \in 0..MaxTime
    /\ issued \in Seq(Entry)
    /\ consumed \in Seq(Entry)
    /\ verdict \in Verdicts
    /\ minted \in SUBSET Nonces
    /\ takes \in [Nonces -> Nat]
    /\ usedAt \in [Nonces -> Nat]
    /\ prunedAt \in 0..MaxTime
    /\ steady \in BOOLEAN

\* consume() lets a nonce through at most once, and a presentation that came too
\* late counts: whatever the clock does, and although _consumed forgets nonces,
\* no nonce is found in _issued twice.
SingleUse == \A n \in Nonces : takes[n] <= 1

\* The inductive form of SingleUse: what is still in _issued was never taken, and
\* a nonce is in _issued once.
SingleUseInv ==
    /\ \A i \in DOMAIN issued :
        issued[i].nonce \in minted /\ takes[issued[i].nonce] = 0
    /\ \A i, j \in DOMAIN issued : issued[i].nonce = issued[j].nonce => i = j
    /\ \A n \in Nonces \ minted : takes[n] = 0
    /\ SingleUse

\* "expired challenges are dropped on every issue": until the clock steps back
\* nothing that had expired when issue() last ran is left in _issued.
IssuedDropped ==
    steady => \A i \in DOMAIN issued : prunedAt <= issued[i].expires

\* "Memory is bounded by the TTL window": until the clock steps back
\* issue() leaves in _consumed only nonces consumed at most one TTL ago.  (Not only
\* unexpired ones: _consumed is in consumption order and pruning stops at the first
\* live entry.)
RetentionWindow ==
    steady => \A i \in DOMAIN consumed : prunedAt <= usedAt[consumed[i].nonce] + TTL

\* _issued is in order of expiry, and no challenge expires more than a TTL from now.
IssuedInOrder ==
    /\ prunedAt <= now
    /\ \A i \in DOMAIN issued :
        prunedAt <= issued[i].expires /\ issued[i].expires <= now + TTL
    /\ \A i, j \in DOMAIN issued : i <= j => issued[i].expires <= issued[j].expires

Used(i) == usedAt[consumed[i].nonce]

\* _consumed is in order of consumption, whatever the order of expiry.
ConsumedInOrder ==
    /\ \A i \in DOMAIN consumed :
        /\ Used(i) <= now
        /\ consumed[i].expires <= Used(i) + TTL
        /\ prunedAt <= Used(i) + TTL
    /\ \A i, j \in DOMAIN consumed : i <= j => Used(i) <= Used(j)

\* The inductive form of the two bounds.
RetentionInv == steady => IssuedInOrder /\ ConsumedInOrder

-----------------------------------------------------------------------------
(* The promise the store keeps                                             *)

\* How a nonce stands at the gate, and when the table says that it expires.
Standing(n) == IF Holds(issued, n) THEN "open"
               ELSE IF n \in minted THEN "spent" ELSE "unissued"

ExpiryIn(table, n) ==
    LET at == {i \in DOMAIN table : table[i].nonce = n}
    IN  IF at = {} THEN 0 ELSE table[Min(at)].expires

Gate == INSTANCE NonceGate WITH
    Skew <- 0,
    gate <- [n \in Nonces |-> Standing(n)],
    expires <- [n \in Nonces |-> ExpiryIn(issued, n)],
    verdict <- IF verdict \in {"replay", "unknown", "expired"} THEN "refused" ELSE verdict

\* The store with its two tables, pruning and clock steps is a nonce gate: a nonce
\* that issue() did not hand out, that was let through, burnt late or dropped is
\* never let through, and nothing but an expired challenge is dropped.
ImplementsGate == Gate!Spec

=============================================================================
