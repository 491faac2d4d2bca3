------------------------------- MODULE Custody ------------------------------
(***************************************************************************)
(* The custody protocol: a key broker (python/src/wcm/kbs.py,              *)
(* KeyBrokerService: issue_challenge, verify_and_release,                  *)
(* verify_for_renewal, with python/src/wcm/renewal.py), the network, and   *)
(* the session of one enclave (custody.py, module EnclaveSession).  The    *)
(* broker's challenge store appears as the NonceGate it implements.        *)
(*                                                                         *)
(* Requests and answers may be lost, delayed, reordered and duplicated: an *)
(* answer once sent stays in `releases' or `decisions', and a request may  *)
(* reach the broker at any time and again.  A broker that restarts loses   *)
(* its challenges and the requests it was working on, and signs with a new *)
(* key (server.py passes none).                                            *)
(*                                                                         *)
(* The gate takes time: it consumes the nonce and looks at the serving     *)
(* image first, asks NVIDIA's responder later (with retries), and the      *)
(* decision is dated after that.  So a request is two steps with the clock *)
(* and other requests in between.  The verdict of the other checks is one  *)
(* nondeterministic value.                                                 *)
(***************************************************************************)
EXTENDS Integers, FiniteSets

CONSTANTS
    Nonces,         \* challenges
    ChallengeTTL,   \* challenge_ttl_seconds
    DecisionTTL,    \* renewal_decision_ttl_seconds
    Cadence,        \* attestation_cadence of the manifest
    RetireAt,       \* retire_after of the serving image, on the broker's clock
    Skew,           \* the broker's clock minus the enclave's
    Bounds,         \* evidence_not_after: how far ahead of the check it may lie
    MaxKeys,        \* broker processes, each with its renewal key (bound)
    MaxDecisions,   \* different renewal decisions sent (bound)
    MaxTime         \* bound on the clock

ASSUME TTLAssumption     == ChallengeTTL \in Nat /\ DecisionTTL \in Nat \ {0}
ASSUME CadenceAssumption == Cadence \in Nat \ {0}
ASSUME ClockAssumption   == Skew \in Int /\ RetireAt \in Int /\ MaxTime \in Nat
ASSUME BoundsAssumption  == Bounds \subseteq Int /\ MaxKeys \in Nat \ {0}
ASSUME DecisionsAssumption == MaxDecisions \in Nat

VARIABLES
    now,                        \* the enclave's clock
    gate, expires, verdict,     \* the broker's challenges
    key,                        \* the broker's renewal key: the number of its process
    stoppedAt,                  \* when each earlier broker process ended
    gating,                     \* requests inside verify_and_release
    releases,                   \* release decisions sent
    decisions,                  \* renewal decisions sent
    state, deadline, ops, used, \* the session
    monitor, wake, result, stops, served, renewals, reattests, steady, prompt,
    opened,                     \* releases that custody was started from
    asked,                      \* the session that submitted evidence for each nonce
    pinned,                     \* the renewal key the session pinned
    started,                    \* ghost: when the session was constructed
    windows,                    \* ghost: windows granted, over all sessions
    evidenceEnd,                \* ghost: evidence_not_after behind the latest window
    gateTime                    \* ghost: from image check to signature, for the latest window

session == <<state, deadline, ops, used, monitor, wake, result, stops, served,
             renewals, reattests, steady, prompt>>
broker  == <<gate, expires, verdict, key, stoppedAt, gating, releases, decisions>>
enclave == <<session, opened, asked, pinned, started, windows, evidenceEnd, gateTime>>
vars    == <<now, broker, enclave>>

Challenges == INSTANCE NonceGate WITH TTL <- ChallengeTTL
Session    == INSTANCE EnclaveSession WITH
    MaxOps <- 0, Poll <- 1, Decisions <- {}, Horizon <- MaxTime,
    MaxReattests <- 0, MaxServed <- 0

Never     == MaxTime + 1
Clock     == now + Skew         \* the broker's clock
Untimed   == [timed |-> FALSE, at |-> 0]    \* no evidence_not_after
MaxOf(a, b) == IF a >= b THEN a ELSE b
MinOf(a, b) == IF a <= b THEN a ELSE b

Init ==
    /\ now = 0
    /\ Challenges!GateInit
    /\ key = 1
    /\ stoppedAt = [k \in 1..MaxKeys |-> Never]
    /\ gating = {}
    /\ releases = {}
    /\ decisions = {}
    /\ state = "none" /\ deadline = 0 /\ ops = 0 /\ used = {}
    /\ monitor = "off" /\ wake = 0 /\ result = "none"
    /\ stops = 0 /\ served = 0 /\ renewals = 0 /\ reattests = 0
    /\ steady = TRUE /\ prompt = TRUE
    /\ opened = {}
    /\ asked = [n \in Nonces |-> 0]
    /\ pinned = 0
    /\ started = 0
    /\ windows = 0
    /\ evidenceEnd = Untimed
    /\ gateTime = 0

-----------------------------------------------------------------------------
(* The broker                                                              *)

IssueChallenge(n) ==
    /\ Challenges!Issue(n)
    /\ UNCHANGED <<now, key, stoppedAt, gating, releases, decisions, enclave>>

\* _check_serving_image: a retiring image is refused after its retire_after.
Retired == Clock > RetireAt

\* What a request that is being decided has found so far.  The evidence is that of the
\* session that submitted it, or another enclave's (0).
Request(n, renewal) ==
    [nonce |-> n, asker |-> asked[n], renewal |-> renewal, retired |-> Retired, since |-> Clock]

\* Fault: a nonce that was already used still lets a request through.
GateReplayed(n, renewal) ==
    /\ gate[n] # "unissued"
    /\ Challenges!Use(n)
    /\ gating' = gating \cup {Request(n, renewal)}
    /\ UNCHANGED <<now, key, stoppedAt, releases, decisions, enclave>>

\* verify_and_release as far as the serving image: the nonce is a hard gate and is spent
\* whatever follows, and the clock is read for retire_after.
EnterGate(n, renewal) ==
    /\ Challenges!Accept(n)
    /\ gating' = gating \cup {Request(n, renewal)}
    /\ UNCHANGED <<now, key, stoppedAt, releases, decisions, enclave>>

\* The evidence bound a passed revocation check may return; `timed' is FALSE for
\* None.  The answers are judged by the clock before the responder is asked.  A held
\* answer may pass up to a second after the short window ended.
Evidence(q) == {Untimed} \cup {[timed |-> TRUE, at |-> q.since + b] : b \in Bounds}

\* The end of verify_and_release.  Only a release that passed every check carries the key.
Release(q) ==
    /\ ~q.renewal
    /\ gating' = gating \ {q}
    /\ \/ /\ ~q.retired
          /\ \E e \in Evidence(q) :
                releases' = releases \cup {[nonce |-> q.nonce, key |-> key, evidence |-> e]}
       \/ UNCHANGED releases
    /\ UNCHANGED <<now, gate, expires, verdict, key, stoppedAt, decisions, enclave>>

\* Fault: expires_at is not set from the time to live.
DecisionOpen(q, renewed, e) ==
    [nonce |-> q.nonce, asker |-> q.asker, key |-> key, renewed |-> renewed,
     gates |-> IF renewed THEN "complete" ELSE "failed",
     issued |-> Clock, expires |-> Clock + MaxTime,
     evidence |-> IF e.timed THEN "bounded" ELSE "none", bound |-> e.at, since |-> q.since]

\* sign_renewal_decision, as verify_for_renewal calls it: issued_at is read now, expires_at
\* ends where the evidence ends.  (since is not part of what is sent.)
Decision(q, renewed, e) ==
    [nonce |-> q.nonce, asker |-> q.asker, key |-> key, renewed |-> renewed,
     gates |-> IF renewed THEN "complete" ELSE "failed",
     issued |-> Clock,
     expires |-> IF e.timed THEN MinOf(Clock + DecisionTTL, e.at) ELSE Clock + DecisionTTL,
     evidence |-> IF e.timed THEN "bounded" ELSE "none", bound |-> e.at, since |-> q.since]

\* verify_for_renewal after the gate: a refusal is signed too.
SignRenewal(q) ==
    /\ q.renewal
    /\ Cardinality(decisions) < MaxDecisions
    /\ gating' = gating \ {q}
    /\ \E renewed \in BOOLEAN, e \in Evidence(q) :
          /\ renewed => ~q.retired
          /\ decisions' = decisions \cup {Decision(q, renewed, e)}
    /\ UNCHANGED <<now, gate, expires, verdict, key, stoppedAt, releases, enclave>>

\* A nonce that is spent, unknown or expired ends the gate at once: no key, or a signed
\* refusal that rests on no evidence.
RefuseNonce(n, renewal) ==
    /\ Challenges!Refuse(n)
    /\ IF renewal
       THEN /\ Cardinality(decisions) < MaxDecisions
            /\ decisions' = decisions \cup {Decision(Request(n, TRUE), FALSE, Untimed)}
       ELSE UNCHANGED decisions
    /\ UNCHANGED <<now, key, stoppedAt, gating, releases, enclave>>

\* A new broker process: no challenge and no request survives, the renewal key is a new one.
BrokerRestart ==
    /\ key < MaxKeys
    /\ key' = key + 1
    /\ stoppedAt' = [stoppedAt EXCEPT ![key] = now]
    /\ Challenges!Spend({n \in Nonces : gate[n] = "open"})
    /\ verdict' = "none"
    /\ gating' = {}
    /\ UNCHANGED <<now, releases, decisions, enclave>>

-----------------------------------------------------------------------------
(* The enclave                                                             *)

\* from_release: custody starts when the release arrives, whenever that is, for a
\* full cadence.  Neither evidence_not_after nor the age of the release is looked
\* at.  A controller opens a release once.
StartSession(r) ==
    /\ state \in {"none", "wiped"}
    /\ r \notin opened
    /\ state' = "holding"
    /\ deadline' = now + Cadence
    /\ ops' = 0
    /\ used' = {}
    /\ stops' = 0
    /\ renewals' = 0
    /\ opened' = opened \cup {r}
    /\ pinned' = r.key
    /\ started' = now
    /\ windows' = windows + 1
    /\ evidenceEnd' = r.evidence
    /\ gateTime' = 0
    /\ result' = "ok"
    /\ UNCHANGED <<now, broker, monitor, wake, served, reattests, steady, prompt, asked>>

Current == Cardinality(opened)      \* the present session

\* The controller takes a challenge and submits evidence for it.
Submit(n) ==
    /\ state = "holding"
    /\ gate[n] # "unissued"
    /\ asked[n] = 0
    /\ asked' = [asked EXCEPT ![n] = Current]
    /\ UNCHANGED <<now, broker, session, opened, pinned, started, windows, evidenceEnd, gateTime>>

\* What the session reads of a decision: it verifies if its key is the pinned one,
\* and evidence_hash and challenge_nonce_hash match what the session submitted.
Read(d) == [signed |-> d.key = pinned, renewed |-> d.renewed, gates |-> d.gates,
            binds |-> d.asker = Current, issued |-> d.issued, expires |-> d.expires,
            evidence |-> d.evidence, bound |-> d.bound, nonce |-> d.nonce]

Deliver(d) ==
    /\ state # "none"
    /\ Session!ApplyRenewal(Read(d))
    /\ windows' = windows + (renewals' - renewals)
    /\ evidenceEnd' = IF renewals' = renewals THEN evidenceEnd
                      ELSE [timed |-> d.evidence = "bounded", at |-> d.bound]
    /\ gateTime' = IF renewals' = renewals THEN gateTime ELSE d.issued - d.since
    /\ UNCHANGED <<broker, opened, asked, pinned, started>>

\* Any other call: the deadline is noticed, or the controller ends custody.
Call ==
    /\ state # "none"
    /\ Session!Tick \/ Session!EndCustody
    /\ UNCHANGED <<broker, opened, asked, pinned, started, windows, evidenceEnd, gateTime>>

ClockMoves ==
    /\ now < MaxTime
    /\ now' = now + 1
    /\ UNCHANGED <<broker, enclave>>

Next ==
    \/ \E n \in Nonces : IssueChallenge(n) \/ Submit(n)
    \/ \E n \in Nonces, renewal \in BOOLEAN : EnterGate(n, renewal) \/ RefuseNonce(n, renewal)
    \/ \E q \in gating : Release(q) \/ SignRenewal(q)
    \/ BrokerRestart
    \/ \E r \in releases : StartSession(r)
    \/ \E d \in decisions : Deliver(d)
    \/ Call
    \/ ClockMoves

Spec == Init /\ [][Next]_vars

-----------------------------------------------------------------------------

\* The last instant, on the broker's clock, at which the broker that knows the session's
\* renewal key could have signed the renewal behind its window: its process ends, or the
\* serving image retires and a gate that took gateTime since the image check comes to its end.
CutOff == MinOf(IF pinned = 0 THEN Never ELSE stoppedAt[pinned] + Skew, RetireAt + gateTime)

\* The cut-off that the code gives: whatever the network delays, repeats or
\* reorders and whoever runs which clock, a session's window closes one decision
\* lifetime and one cadence after its broker last could sign one, or one cadence
\* after the session was constructed.  (SPEC.md speaks of the cadence alone.  The
\* decision's lifetime comes on top, because the window runs from when a decision is
\* applied and not from when it was made; so does the time the gate spends after its
\* image check, because issued_at is read only then.)
CutOffBound ==
    state = "holding" => deadline <= MaxOf(CutOff + DecisionTTL, started) + Cadence

Renewing == {d \in decisions : d.renewed}

\* The challenges that a release or a renewal answered.
Attested == {x.nonce : x \in releases \cup Renewing}

\* Every window rests on an attestation of its own: replayed, duplicated and
\* crossed answers, late ones for an earlier session, denials and broker restarts
\* never make two windows out of one challenge that passed the gate.
WindowsAreAttested == windows <= Cardinality(Attested)

\* "A permission window granted on this decision must not extend past it": what
\* ReleaseDecision says of evidence_not_after.  apply_renewal keeps it,
\* from_release does not look at it.
WindowWithinEvidence ==
    state = "holding" /\ evidenceEnd.timed => deadline <= evidenceEnd.at

-----------------------------------------------------------------------------
(* The inductive forms of the two bounds                                   *)

Keys == 1 .. MaxKeys

\* The broker process running is the last one, and the others stopped in the past.
BrokerInv ==
    /\ now \in 0 .. MaxTime
    /\ key \in Keys
    /\ stoppedAt \in [Keys -> 0 .. Never]
    /\ \A k \in Keys : k >= key => stoppedAt[k] = Never
    /\ \A r \in releases : r.key \in Keys

\* A request that found the image in use looked before it retired.
RequestInv ==
    \A q \in gating : /\ q.since \in Int /\ q.retired \in BOOLEAN
                      /\ ~q.retired => q.since <= RetireAt

\* A decision lives for DecisionTTL at most, and one that renews was signed before its
\* process stopped, by a gate that looked at the image before it retired.
DecisionInv ==
    \A d \in decisions :
        /\ d.key \in Keys /\ d.key <= key
        /\ d.issued \in Int /\ d.expires \in Int /\ d.bound \in Int
        /\ d.issued <= Clock /\ d.since \in Int
        /\ d.expires <= d.issued + DecisionTTL
        /\ d.renewed \in BOOLEAN
        /\ d.renewed => d.issued <= stoppedAt[d.key] + Skew /\ d.since <= RetireAt

\* A held window runs from the construction or from a decision of the pinned key.
WindowInv ==
    /\ pinned \in 0 .. MaxKeys
    /\ started \in Int /\ deadline \in Int /\ gateTime \in Int
    /\ state = "holding" =>
         \/ deadline <= started + Cadence
         \/ \E d \in decisions : /\ d.renewed /\ d.key = pinned
                                 /\ gateTime = d.issued - d.since
                                 /\ deadline <= d.expires + Cadence

\* A nonce that let a request, a release or a renewal through let nothing else through.
SpentInv ==
    /\ gate \in [Nonces -> {"unissued", "open", "spent"}]
    /\ \A x \in gating \cup releases \cup Renewing : x.nonce \in Nonces /\ gate[x.nonce] = "spent"
    /\ \A q \in gating : \A x \in releases \cup Renewing : q.nonce # x.nonce
    /\ \A q, s \in gating : q.nonce = s.nonce => q = s
    /\ \A r, s \in releases : r.nonce = s.nonce => r = s
    /\ \A d, e \in Renewing : d.nonce = e.nonce => d = e
    /\ \A r \in releases, d \in Renewing : r.nonce # d.nonce

\* What a session has used it was asked for itself; an earlier session's is out of date.
UsedInv ==
    /\ IsFiniteSet(opened) /\ IsFiniteSet(Attested)
    /\ opened \subseteq releases
    /\ asked \in [Nonces -> Nat]
    /\ \A x \in gating \cup Renewing : x.asker \in Nat
    /\ \A u \in used : \E d \in Renewing : d.asker = Current /\ u = Read(d)

\* The challenges behind the windows granted so far.
Behind == {r.nonce : r \in opened} \cup {d.nonce : d \in {e \in Renewing : e.asker < Current}}
          \cup {u.nonce : u \in used}

AttestedInv == windows \in Nat /\ renewals \in Nat /\ windows <= Cardinality(Behind)

=============================================================================
