--------------------------- MODULE GpuRevocation ----------------------------
(***************************************************************************)
(* The GPU certificate revocation check of python/src/wcm/                 *)
(* gpu_revocation.py: check_chain and NvidiaOcspClient with the answers it *)
(* holds, called by the threads of a key broker.                           *)
(*                                                                         *)
(* The request to NVIDIA runs outside the client's lock; only the store of *)
(* an answer and the read of a held one are locked.  A status call is      *)
(* therefore two actions, and answers can be stored in another order than  *)
(* they were given.  check_chain reads the clock once and passes that      *)
(* reading (start) to every link.                                          *)
(***************************************************************************)
EXTENDS Integers, Sequences, FiniteSets

CONSTANTS
    Threads,        \* server threads
    Links,          \* certificates NVIDIA is asked about
    Chains,         \* device chains in evidence: sequences of the links asked
    MaxAge,         \* max_age_seconds, in seconds
    Unit,           \* clock units per second
    Validities,     \* how far ahead of an answer its nextUpdate may lie
    MaxTime         \* bound on the clock

ASSUME AgeAssumption   == MaxAge \in Nat \ {0} /\ Unit \in Nat \ {0}
ASSUME TimeAssumption  == MaxTime \in Nat /\ Validities \subseteq Nat
ASSUME ChainAssumption == Chains \subseteq Seq(Links) /\ <<>> \in Chains

VARIABLES
    now,            \* wall clock
    revokedAt,      \* when NVIDIA revoked each link; Never if it did not
    held,           \* _held: the latest stored answer about each link
    pc,             \* where each thread stands
    check,          \* the check_chain call of each thread
    answer,         \* the verified answer a thread is about to store
    seen,           \* ghost: links about which a verified revocation was stored
    reused          \* ghost: links for which the thread's check used _held

vars == <<now, revokedAt, held, pc, check, answer, seen, reused>>

Never == 2 * MaxTime + MaxAge * Unit + 1    \* also an absent nextUpdate or bound

Statuses == {"GOOD", "REVOKED", "UNKNOWN"}
NoAnswer == [status |-> "NONE", next |-> 0]
NotHeld  == [status |-> "NONE", fetched |-> 0, next |-> 0]
NoCheck  == [chain |-> <<>>, at |-> 1, start |-> 0, renewal |-> FALSE, not_after |-> Never]

MinOf(a, b) == IF a <= b THEN a ELSE b
Revoked(l)  == revokedAt[l] <= now

Init ==
    /\ now = 0
    /\ revokedAt = [l \in Links |-> Never]
    /\ held = [l \in Links |-> NotHeld]
    /\ pc = [t \in Threads |-> "idle"]
    /\ check = [t \in Threads |-> NoCheck]
    /\ answer = [t \in Threads |-> NoAnswer]
    /\ seen = {}
    /\ reused = [t \in Threads |-> {}]

Goto(t, place) == pc' = [pc EXCEPT ![t] = place]

\* A RevocationResult that is not ok ends the check; nothing of it is kept.
Refuse(t) == Goto(t, "idle") /\ check' = [check EXCEPT ![t] = NoCheck]

-----------------------------------------------------------------------------
(* NVIDIA and the clock                                                    *)

\* A revocation is final.
Revoke(l) ==
    /\ ~Revoked(l)
    /\ revokedAt' = [revokedAt EXCEPT ![l] = now]
    /\ UNCHANGED <<now, held, pc, check, answer, seen, reused>>

ClockMoves ==
    /\ now < MaxTime
    /\ now' = now + 1
    /\ UNCHANGED <<revokedAt, held, pc, check, answer, seen, reused>>

-----------------------------------------------------------------------------
(* check_chain                                                             *)

\* A chain with no link between leaf and root is refused.
Begin(t, c, renewal) ==
    /\ pc[t] \in {"idle", "passed"}
    /\ IF c = <<>>
       THEN Refuse(t)
       ELSE /\ Goto(t, "asking")
            /\ check' = [check EXCEPT ![t] = [chain |-> c, at |-> 1, start |-> now,
                                              renewal |-> renewal, not_after |-> Never]]
    /\ reused' = [reused EXCEPT ![t] = {}]
    /\ UNCHANGED <<now, revokedAt, held, answer, seen>>

Link(t) == check[t].chain[check[t].at]

\* The loop body after status() returned: anything but GOOD refuses, GOOD takes
\* the tighter bound and goes to the next link.
Proceed(t, status, bound) ==
    IF status # "GOOD"
    THEN Refuse(t)
    ELSE /\ Goto(t, IF check[t].at = Len(check[t].chain) THEN "passed" ELSE "asking")
         /\ check' = [check EXCEPT ![t].not_after = MinOf(@, bound),
                                   ![t].at = IF @ = Len(check[t].chain) THEN @ ELSE @ + 1]

-----------------------------------------------------------------------------
(* NvidiaOcspClient.status                                                 *)

\* What NVIDIA's responder says of a link now. It answers for other certificates too.
Told(l) == IF l \in Links THEN IF Revoked(l) THEN {"REVOKED"} ELSE {"GOOD", "UNKNOWN"}
           ELSE Statuses

\* What may come back over plain HTTP: the responder's answer to this call's nonce, about
\* the link asked or, when someone on the path asked in its place, another certificate of
\* the same issuer; an older answer, which may say anything; one that a stranger signed.
Replies ==
    {r \in [about : Links \cup {"another"}, echoes : BOOLEAN,
            signer : {"delegate", "stranger"}, status : Statuses] :
       r.echoes /\ r.signer = "delegate" => r.status \in Told(r.about)}

\* _names: the CertID is that of the link asked.
Names(r, l) == r.about = l

\* _verify_signature: by the issuer, or by a responder it delegated for OCSP.
SignatureVerifies(r) == r.signer = "delegate"

\* Fault: the echoed nonce stands for the certificate too.
VerifyAnswerByNonce(r, l) == r.echoes /\ SignatureVerifies(r)

\* verify_answer: about this certificate, for this request, signed.
VerifyAnswer(r, l) == Names(r, l) /\ r.echoes /\ SignatureVerifies(r)

\* A response that verifies.
Receive(t) ==
    /\ pc[t] = "asking"
    /\ \E r \in Replies, next \in {now + v : v \in Validities} \cup {Never} :
        /\ VerifyAnswer(r, Link(t))
        /\ answer' = [answer EXCEPT ![t] = [status |-> r.status, next |-> next]]
    /\ Goto(t, "storing")
    /\ UNCHANGED <<now, revokedAt, held, check, seen, reused>>

\* UNAUTHORIZED, another response status, or a response that does not verify:
\* refused, and nothing is held.
Reject(t) ==
    /\ pc[t] = "asking"
    /\ Refuse(t)
    /\ UNCHANGED <<now, revokedAt, held, answer, seen, reused>>

\* The answer is held under the lock, dated when the check began, and used.
Store(t) ==
    LET a == answer[t]
        l == Link(t)
    IN  /\ pc[t] = "storing"
        /\ IF check[t].start >= a.next
           THEN Refuse(t) /\ UNCHANGED <<held, seen>>
           ELSE /\ held' = [held EXCEPT ![l] =
                    [status |-> a.status, fetched |-> check[t].start, next |-> a.next]]
                /\ Proceed(t, a.status, a.next)
                /\ seen' = IF a.status = "REVOKED" THEN seen \cup {l} ELSE seen
        /\ answer' = [answer EXCEPT ![t] = NoAnswer]
        /\ UNCHANGED <<now, revokedAt, reused>>

\* int((now - fetched).total_seconds()) truncates toward zero.
Age(start, fetched) ==
    IF start >= fetched THEN (start - fetched) \div Unit ELSE -((fetched - start) \div Unit)

\* Fault: the short window starts again at each reuse.
ReuseBoundFromNow(h) == MinOf(now + MaxAge * Unit, h.next)

\* _bound: the short window is measured from when the answer was obtained.
ReuseBound(h) == MinOf(h.fetched + MaxAge * Unit, h.next)

\* Fault: the age of a held answer is not looked at.
ReusableAtAnyAge(h, start) == h.status # "NONE" /\ start < h.next

Reusable(h, start) ==
    /\ h.status # "NONE"
    /\ Age(start, h.fetched) <= MaxAge
    /\ start < h.next

\* Fault: a first release falls back on a held answer too.
UnreachableReuses(t) ==
    LET h == held[Link(t)]
    IN  /\ pc[t] = "asking"
        /\ IF Reusable(h, check[t].start)
           THEN /\ Proceed(t, h.status, ReuseBound(h))
                /\ reused' = [reused EXCEPT ![t] = @ \cup {Link(t)}]
           ELSE Refuse(t) /\ UNCHANGED reused
        /\ UNCHANGED <<now, revokedAt, held, answer, seen>>

\* NVIDIA cannot be reached.  Only a renewal may fall back on a held answer.
Unreachable(t) ==
    LET h == held[Link(t)]
    IN  /\ pc[t] = "asking"
        /\ IF check[t].renewal /\ Reusable(h, check[t].start)
           THEN /\ Proceed(t, h.status, ReuseBound(h))
                /\ reused' = [reused EXCEPT ![t] = @ \cup {Link(t)}]
           ELSE Refuse(t) /\ UNCHANGED reused
        /\ UNCHANGED <<now, revokedAt, held, answer, seen>>

\* The broker restarts: the held answers are in memory only.
Restart ==
    /\ held' = [l \in Links |-> NotHeld]
    /\ pc' = [t \in Threads |-> "idle"]
    /\ reused' = [t \in Threads |-> {}]
    /\ seen' = {}
    /\ check' = [t \in Threads |-> NoCheck]
    /\ answer' = [t \in Threads |-> NoAnswer]
    /\ UNCHANGED <<now, revokedAt>>

Next ==
    \/ \E t \in Threads, c \in Chains, renewal \in BOOLEAN : Begin(t, c, renewal)
    \/ \E t \in Threads : Receive(t) \/ Reject(t) \/ Store(t) \/ Unreachable(t)
    \/ \E l \in Links : Revoke(l)
    \/ Restart
    \/ ClockMoves

Spec == Init /\ [][Next]_vars

-----------------------------------------------------------------------------

Places  == {"idle", "asking", "storing", "passed"}
Answers == [status : Statuses \cup {"NONE"}, next : Nat]
HeldAnswers == [status : Statuses \cup {"NONE"}, fetched : Nat, next : Nat]
Checks  == [chain : Seq(Links), at : Nat, start : Nat, renewal : BOOLEAN, not_after : Nat]

TypeOK ==
    /\ now \in Nat
    /\ revokedAt \in [Links -> Nat]
    /\ held \in [Links -> HeldAnswers]
    /\ pc \in [Threads -> Places]
    /\ check \in [Threads -> Checks]
    /\ \A t \in Threads : pc[t] # "idle" => check[t].at \in 1 .. Len(check[t].chain)
    /\ answer \in [Threads -> Answers]
    /\ reused \in [Threads -> SUBSET Links]

Asked(t) == {check[t].chain[i] : i \in DOMAIN check[t].chain}

\* "A first release has no window to protect and must have a fresh answer": when a
\* first release passes, no link of its chain had been revoked before the check
\* began, whatever other threads stored meanwhile.
FirstReleaseIsFresh ==
    \A t \in Threads : pc[t] = "passed" /\ ~check[t].renewal =>
        \A l \in Asked(t) : check[t].start <= revokedAt[l]

\* A renewal that rides out an outage passes on a link revoked less than one
\* short window (and the second the age is rounded down by) before it began; and
\* "reuse must not restart the clock": a permission that rests on a held answer
\* ends at most one short window after the link was last known to be good, in
\* however many renewals in a row the answer is reused.
OutageIsBounded ==
    \A t \in Threads : pc[t] = "passed" =>
        /\ \A l \in Asked(t) : check[t].start < revokedAt[l] + (MaxAge + 1) * Unit
        /\ \A l \in reused[t] : check[t].not_after <= revokedAt[l] + MaxAge * Unit

(* The inductive invariant behind these.                                   *)

Window == MaxAge * Unit

\* How many links of its chain a check has behind it.
Behind(t) == IF pc[t] = "passed" THEN Len(check[t].chain) ELSE check[t].at - 1

\* What is known of a link that a check has behind it.
LinkCleared(t, l) ==
    /\ ~check[t].renewal => check[t].start <= revokedAt[l]
    /\ check[t].start < revokedAt[l] + Window + Unit

\* A held GOOD was obtained before the revocation; so was a GOOD about to be stored,
\* though the link may be revoked between the answer and its store. A permission that
\* rests on a held answer is bounded from now on too, so that a later revocation finds
\* it short enough.
HeldInv ==
    \A l \in Links : /\ held[l].fetched <= now
                     /\ held[l].status = "GOOD" => held[l].fetched <= revokedAt[l]

CheckInv ==
    \A t \in Threads : pc[t] # "idle" =>
        /\ check[t].start <= now
        /\ pc[t] = "storing" /\ answer[t].status = "GOOD" =>
             check[t].start <= revokedAt[Link(t)]
        /\ \A i \in 1 .. Behind(t) : LinkCleared(t, check[t].chain[i])
        /\ \A l \in reused[t] : /\ check[t].not_after <= revokedAt[l] + Window
                                /\ check[t].not_after <= now + Window

\* "from this moment the reuse path can only serve the revocation": once a
\* verified revocation was stored, the held answer is that revocation.  With two
\* threads it does not hold: an answer given before the revocation can be stored
\* after it.
RevocationSticks == \A l \in seen : held[l].status = "REVOKED"

=============================================================================
