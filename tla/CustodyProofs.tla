--------------------------- MODULE CustodyProofs ---------------------------
(***************************************************************************)
(* Proofs about the custody protocol: when the last window of a session    *)
(* closes, and what every window rests on, for any number of challenges,   *)
(* broker processes and decisions, any clock difference and any length of  *)
(* the windows.                                                            *)
(***************************************************************************)
EXTENDS Custody, FiniteSetTheorems, TLAPS

-----------------------------------------------------------------------------
(* The steps, by what they do to the window                                *)

\* A call that is no renewal leaves the lease as it is, or ends it.
LEMMA CallEffect ==
    Call => /\ UNCHANGED <<now, broker, opened, asked, pinned, started, windows>>
            /\ UNCHANGED <<deadline, used, renewals, gateTime>>
            /\ state' = "holding" => state = "holding"
  BY DEF Call, broker, Session!Tick, Session!EndCustody, Session!Refused, Session!Answered,
     Session!Zeroize, Session!lease, Session!task, Session!ghost, Session!mode

\* What makes a decision renew: the pinned key signed it, for this session, and it is
\* current and new to the session.
Renews(d) ==
    /\ d.renewed /\ d.key = pinned /\ d.asker = Current
    /\ Read(d) \notin used
    /\ now <= d.expires

\* A decision that is handed over is refused, used up, or opens a window.
Refuses ==
    /\ UNCHANGED <<deadline, used, renewals, windows, gateTime>>
    /\ state' = "holding" => state = "holding"

UsesUp(d) ==
    /\ Renews(d)
    /\ used' = used \cup {Read(d)}
    /\ UNCHANGED <<state, deadline, renewals, windows, gateTime>>

OpensWindow(d) ==
    /\ Renews(d)
    /\ used' = used \cup {Read(d)}
    /\ renewals' = renewals + 1
    /\ windows' = windows + 1
    /\ gateTime' = d.issued - d.since
    /\ deadline' = Session!NewDeadline(Read(d))
    /\ state' = state

LEMMA ReadFields ==
    ASSUME NEW d
    PROVE  /\ Read(d).signed <=> d.key = pinned
           /\ Read(d).binds <=> d.asker = Current
           /\ Read(d).renewed = d.renewed
           /\ Read(d).expires = d.expires
           /\ Read(d).bound = d.bound
           /\ Read(d).nonce = d.nonce
  BY DEF Read

LEMMA DeliverEffect ==
    ASSUME NEW d, Deliver(d), windows \in Nat, renewals \in Nat
    PROVE  /\ UNCHANGED <<now, broker, opened, asked, pinned, started>>
           /\ Refuses \/ UsesUp(d) \/ OpensWindow(d)
<1>. DEFINE r == Read(d)
<1>1. /\ UNCHANGED <<broker, opened, asked, pinned, started>>
      /\ windows' = windows + (renewals' - renewals)
      /\ gateTime' = IF renewals' = renewals THEN gateTime ELSE d.issued - d.since
      /\ \/ Session!Refused \/ Session!RenewalInvalid(r) \/ Session!RenewalDenied(r)
         \/ Session!RenewalUnreadable(r) \/ Session!Renew(r)
  BY DEF Deliver, Session!ApplyRenewal
<1>2. ASSUME Session!Verified(r), Session!Current(r), r.renewed, r \notin used
      PROVE  Renews(d)
  BY <1>2, ReadFields DEF Session!Verified, Session!Current, Renews
<1>. HIDE DEF r
<1>3. CASE Session!Refused
  BY <1>1, <1>3 DEF Session!Refused, Session!Zeroize, Refuses
<1>4. CASE Session!RenewalInvalid(r) \/ Session!RenewalDenied(r)
  BY <1>1, <1>4 DEF Session!RenewalInvalid, Session!RenewalDenied, Session!Answered,
     Session!lease, Session!ghost, Refuses
<1>5. CASE Session!RenewalUnreadable(r)
  BY <1>1, <1>2, <1>5 DEF Session!RenewalUnreadable, Session!ghost, UsesUp, r
<1>6. CASE Session!Renew(r)
  BY <1>1, <1>2, <1>6 DEF Session!Renew, OpensWindow, r
<1>. QED
  BY <1>1, <1>3, <1>4, <1>5, <1>6 DEF Session!RenewalInvalid, Session!RenewalDenied,
     Session!Refused, Session!RenewalUnreadable, Session!Renew, Session!Answered

\* What a request that enters the gate carries.
LEMMA EnterEffect ==
    ASSUME NEW n \in Nonces, NEW renewal \in BOOLEAN, EnterGate(n, renewal)
    PROVE  /\ UNCHANGED <<now, key, stoppedAt, releases, decisions, enclave>>
           /\ Challenges!Accept(n)
           /\ gating' = gating \cup {Request(n, renewal)}
           /\ Request(n, renewal).nonce = n /\ Request(n, renewal).asker = asked[n]
           /\ Request(n, renewal).retired = Retired /\ Request(n, renewal).since = Clock
  BY DEF EnterGate, Request

\* A release leaves the gate with its nonce, or is refused.
LEMMA ReleaseEffect ==
    ASSUME NEW q \in gating, Release(q)
    PROVE  /\ UNCHANGED <<now, gate, expires, verdict, key, stoppedAt, decisions, enclave>>
           /\ gating' = gating \ {q}
           /\ \/ releases' = releases
              \/ \E r : /\ releases' = releases \cup {r}
                        /\ r.nonce = q.nonce /\ r.key = key
<1>1. ASSUME NEW e
      PROVE  LET r == [nonce |-> q.nonce, key |-> key, evidence |-> e]
             IN  r.nonce = q.nonce /\ r.key = key
  OBVIOUS
<1>. QED
  BY <1>1 DEF Release

\* A decision is added at the end of the gate, or, as a refusal, for a nonce it refused.
Signs(q, renewed, e) ==
    /\ UNCHANGED <<now, key, stoppedAt, releases, enclave>>
    /\ decisions' = decisions \cup {Decision(q, renewed, e)}
    /\ renewed => ~q.retired

LEMMA SignEffect ==
    ASSUME NEW q \in gating, SignRenewal(q)
    PROVE  /\ UNCHANGED <<gate, expires, verdict>>
           /\ gating' = gating \ {q}
           /\ \E renewed \in BOOLEAN, e \in Evidence(q) : Signs(q, renewed, e)
  BY DEF SignRenewal, Signs

LEMMA RefuseEffect ==
    ASSUME NEW n \in Nonces, NEW renewal \in BOOLEAN, RefuseNonce(n, renewal)
    PROVE  /\ UNCHANGED <<now, key, stoppedAt, releases, gating, enclave>>
           /\ Challenges!Refuse(n)
           /\ decisions' = decisions \/ Signs(Request(n, TRUE), FALSE, Untimed)
  BY DEF RefuseNonce, Signs

-----------------------------------------------------------------------------
(* The cut-off                                                             *)

LEMMA BrokerInductive == BrokerInv /\ [Next]_vars => BrokerInv'
<1>. SUFFICES ASSUME BrokerInv, [Next]_vars PROVE BrokerInv'
  OBVIOUS
<1>. USE ClockAssumption, BoundsAssumption DEF BrokerInv, Keys, Never
<1>1. ASSUME NEW n \in Nonces, IssueChallenge(n) \/ Submit(n) PROVE BrokerInv'
  BY <1>1 DEF IssueChallenge, Submit, broker
<1>2. ASSUME NEW n \in Nonces, NEW renewal \in BOOLEAN,
             EnterGate(n, renewal) \/ RefuseNonce(n, renewal)
      PROVE  BrokerInv'
  BY <1>2 DEF EnterGate, RefuseNonce
<1>3. ASSUME NEW q \in gating, Release(q) \/ SignRenewal(q) PROVE BrokerInv'
  <2>1. CASE Release(q)
    BY <2>1, ReleaseEffect
  <2>2. CASE SignRenewal(q)
    BY <2>2 DEF SignRenewal
  <2>. QED
    BY <1>3, <2>1, <2>2
<1>4. CASE BrokerRestart
  BY <1>4 DEF BrokerRestart
<1>5. ASSUME NEW r \in releases, StartSession(r) PROVE BrokerInv'
  BY <1>5 DEF StartSession, broker
<1>6. ASSUME NEW d \in decisions, Deliver(d) PROVE BrokerInv'
  <2>1. now' = now
    BY <1>6 DEF Deliver, Session!ApplyRenewal, Session!Refused, Session!RenewalInvalid,
       Session!RenewalDenied, Session!RenewalUnreadable, Session!Renew, Session!Answered
  <2>. QED
    BY <1>6, <2>1 DEF Deliver, broker
<1>7. CASE Call
  BY <1>7, CallEffect DEF broker
<1>8. CASE ClockMoves
  BY <1>8 DEF ClockMoves, broker
<1>9. CASE UNCHANGED vars
  BY <1>9 DEF vars, broker
<1>. QED
  BY <1>1, <1>2, <1>3, <1>4, <1>5, <1>6, <1>7, <1>8, <1>9 DEF Next

\* A request that enters the gate finds the image as it is then.
LEMMA RequestInductive ==
    ASSUME BrokerInv, RequestInv, [Next]_vars
    PROVE  RequestInv'
<1>1. CASE gating' \subseteq gating
  BY <1>1 DEF RequestInv
<1>2. ASSUME NEW n \in Nonces, NEW renewal \in BOOLEAN, EnterGate(n, renewal) PROVE RequestInv'
  <2>. DEFINE q == Request(n, renewal)
  <2>1. gating' = gating \cup {q} /\ q.retired = Retired /\ q.since = Clock
    BY <1>2, EnterEffect
  <2>. HIDE DEF q
  <2>2. Clock \in Int /\ RetireAt \in Int
    BY ClockAssumption DEF Clock, BrokerInv
  <2>3. q.since \in Int /\ q.retired \in BOOLEAN
    BY <2>1, <2>2 DEF Retired
  <2>4. ~Retired => Clock <= RetireAt
    BY <2>2 DEF Retired
  <2>5. ~q.retired => q.since <= RetireAt
    <3>. HIDE DEF Retired, Clock
    <3>. QED
      BY <2>1, <2>4
  <2>. QED
    BY <2>1, <2>3, <2>5 DEF RequestInv
<1>3. ASSUME NEW q \in gating, Release(q) \/ SignRenewal(q) PROVE gating' \subseteq gating
  BY <1>3 DEF Release, SignRenewal
<1>4. ASSUME NEW d \in decisions, Deliver(d) PROVE gating' = gating
  BY <1>4 DEF Deliver, broker
<1>. QED
  BY <1>1, <1>2, <1>3, <1>4, CallEffect DEF Next, vars, broker, IssueChallenge, Submit,
     RefuseNonce, BrokerRestart, StartSession, ClockMoves

\* What sign_renewal_decision puts on a decision.
LEMMA DecisionFields ==
    ASSUME NEW q, NEW renewed, NEW e
    PROVE  LET d == Decision(q, renewed, e)
           IN  /\ d.key = key /\ d.nonce = q.nonce /\ d.asker = q.asker
               /\ d.renewed = renewed /\ d.since = q.since /\ d.issued = Clock
               /\ d.bound = e.at
               /\ d.expires = IF e.timed THEN MinOf(Clock + DecisionTTL, e.at)
                                         ELSE Clock + DecisionTTL
  BY DEF Decision

\* A decision that is added keeps what is known of all decisions.
LEMMA SignsDecisionInv ==
    ASSUME BrokerInv, DecisionInv, NEW q, NEW renewed \in BOOLEAN, NEW e,
           Signs(q, renewed, e), e.at \in Int, q.since \in Int,
           renewed => q.since <= RetireAt
    PROVE  DecisionInv'
<1>. USE ClockAssumption, BoundsAssumption, TTLAssumption
<1>1. Clock \in Int /\ Clock + DecisionTTL \in Int
  BY DEF Clock, BrokerInv
<1>. DEFINE d == Decision(q, renewed, e)
<1>2. /\ d.key = key /\ d.renewed = renewed /\ d.since = q.since /\ d.issued = Clock
      /\ d.bound = e.at
      /\ d.expires = IF e.timed THEN MinOf(Clock + DecisionTTL, e.at) ELSE Clock + DecisionTTL
  BY DecisionFields
<1>3. now' = now /\ key' = key /\ stoppedAt' = stoppedAt /\ decisions' = decisions \cup {d}
  BY DEF Signs
<1>. HIDE DEF d
<1>4. d.expires \in Int /\ d.expires <= d.issued + DecisionTTL
  <2>. HIDE DEF Clock
  <2>. QED
    BY <1>1, <1>2 DEF MinOf
<1>5. d.renewed => d.issued <= stoppedAt[d.key] + Skew /\ d.since <= RetireAt
  BY <1>2 DEF Clock, BrokerInv, Never, Keys
<1>6. /\ d.key \in Keys /\ d.key <= key /\ d.renewed \in BOOLEAN
      /\ d.issued \in Int /\ d.issued <= Clock /\ d.since \in Int /\ d.bound \in Int
  BY <1>1, <1>2 DEF BrokerInv, Keys
<1>. QED
  BY <1>3, <1>4, <1>5, <1>6 DEF DecisionInv, Clock

\* A process that stops signs no more; what it signed is not later than its end.
LEMMA DecisionInductive ==
    ASSUME BrokerInv, RequestInv, DecisionInv, [Next]_vars
    PROVE  DecisionInv'
<1>. USE ClockAssumption, BoundsAssumption, TTLAssumption
<1>1. CASE UNCHANGED <<now, key, stoppedAt, decisions>>
  BY <1>1 DEF DecisionInv, Clock
<1>2. ASSUME NEW q \in gating, SignRenewal(q) PROVE DecisionInv'
  <2>1. PICK renewed \in BOOLEAN, e \in Evidence(q) : Signs(q, renewed, e)
    BY <1>2, SignEffect
  <2>2. q.since \in Int /\ (~q.retired => q.since <= RetireAt)
    BY DEF RequestInv
  <2>3. e.at \in Int
    BY <2>2 DEF Evidence, Untimed
  <2>4. renewed => q.since <= RetireAt
    BY <2>1, <2>2 DEF Signs
  <2>. QED
    BY <2>1, <2>2, <2>3, <2>4, SignsDecisionInv
<1>3. ASSUME NEW n \in Nonces, NEW renewal \in BOOLEAN, RefuseNonce(n, renewal)
      PROVE  DecisionInv'
  <2>1. CASE Signs(Request(n, TRUE), FALSE, Untimed)
    <3>1. Request(n, TRUE).since \in Int /\ Untimed.at \in Int
      BY DEF Request, Untimed, Clock, BrokerInv
    <3>. QED
      BY <2>1, <3>1, SignsDecisionInv
  <2>. QED
    BY <1>1, <1>3, <2>1, RefuseEffect
<1>4. CASE BrokerRestart
  <2>1. /\ now' = now /\ decisions' = decisions /\ key' = key + 1
        /\ stoppedAt' = [stoppedAt EXCEPT ![key] = now]
    BY <1>4 DEF BrokerRestart
  <2>2. ASSUME NEW d \in decisions
        PROVE  d.key <= key' /\ (d.renewed => d.issued <= stoppedAt'[d.key] + Skew)
    <3>1. d.key \in Keys /\ d.key <= key /\ key \in Keys /\ stoppedAt \in [Keys -> 0 .. Never]
          /\ d.issued \in Int /\ d.issued <= now + Skew /\ now \in Int
          /\ (d.renewed => d.issued <= stoppedAt[d.key] + Skew)
      BY DEF DecisionInv, BrokerInv, Clock
    <3>2. stoppedAt'[d.key] = IF d.key = key THEN now ELSE stoppedAt[d.key]
      BY <2>1, <3>1
    <3>. QED
      BY <2>1, <3>1, <3>2 DEF Keys
  <2>. QED
    BY <2>1, <2>2 DEF DecisionInv, Clock
<1>5. CASE ClockMoves
  BY <1>5 DEF ClockMoves, broker, DecisionInv, Clock, BrokerInv
<1>6. ASSUME NEW d \in decisions, Deliver(d)
      PROVE  UNCHANGED <<now, key, stoppedAt, decisions>>
  BY <1>6 DEF Deliver, broker, Session!ApplyRenewal, Session!Refused, Session!RenewalInvalid,
     Session!RenewalDenied, Session!RenewalUnreadable, Session!Renew, Session!Answered
<1>. QED
  BY <1>1, <1>2, <1>4, <1>5, <1>6, <1>3, CallEffect DEF Next, vars, broker, IssueChallenge,
     Submit, EnterGate, Release, StartSession

\* A window is never longer than a cadence from its construction, or than a cadence from
\* the end of the decision that bought it.
LEMMA WindowInductive ==
    ASSUME BrokerInv, DecisionInv, AttestedInv, WindowInv, [Next]_vars
    PROVE  WindowInv'
<1>. USE ClockAssumption, BoundsAssumption, CadenceAssumption
<1>1. ASSUME decisions \subseteq decisions', UNCHANGED <<pinned, started, deadline, gateTime>>,
             state' = "holding" => state = "holding"
      PROVE  WindowInv'
  BY <1>1 DEF WindowInv
<1>2. ASSUME NEW r \in releases, StartSession(r) PROVE WindowInv'
  <2>1. pinned' = r.key /\ started' = now /\ deadline' = now + Cadence /\ gateTime' = 0
    BY <1>2 DEF StartSession
  <2>. QED
    BY <2>1 DEF WindowInv, BrokerInv, Keys
<1>3. ASSUME NEW d \in decisions, Deliver(d) PROVE WindowInv'
  <2>1. UNCHANGED <<now, broker, opened, asked, pinned, started>>
        /\ (Refuses \/ UsesUp(d) \/ OpensWindow(d))
    BY <1>3, DeliverEffect DEF AttestedInv
  <2>2. CASE Refuses \/ UsesUp(d)
    BY <1>1, <2>1, <2>2 DEF Refuses, UsesUp, broker
  <2>3. CASE OpensWindow(d)
    <3>1. d.renewed /\ d.key = pinned /\ now <= d.expires
      BY <2>3 DEF OpensWindow, Renews
    <3>2. /\ d.bound \in Int /\ d.expires \in Int /\ now \in Int
          /\ d.issued \in Int /\ d.since \in Int
      BY DEF DecisionInv, BrokerInv
    <3>3. deadline' \in Int /\ deadline' <= now + Cadence
      BY <2>3, <3>2, ReadFields DEF OpensWindow, Session!NewDeadline, Session!MinOf
    <3>4. deadline' <= d.expires + Cadence
      BY <3>1, <3>2, <3>3
    <3>5. gateTime' = d.issued - d.since /\ gateTime' \in Int
      BY <2>3, <3>2 DEF OpensWindow
    <3>. QED
      BY <2>1, <3>1, <3>3, <3>4, <3>5 DEF WindowInv, broker
  <2>. QED
    BY <2>1, <2>2, <2>3
<1>4. ASSUME NEW q \in gating, SignRenewal(q) PROVE WindowInv'
  BY <1>1, <1>4, SignEffect DEF Signs, enclave, session
<1>5. ASSUME NEW n \in Nonces, NEW renewal \in BOOLEAN, RefuseNonce(n, renewal)
      PROVE  WindowInv'
  BY <1>1, <1>5, RefuseEffect DEF Signs, enclave, session
<1>6. ASSUME NEW q \in gating, Release(q) PROVE WindowInv'
  BY <1>1, <1>6, ReleaseEffect DEF enclave, session
<1>7. CASE Call
  BY <1>1, <1>7, CallEffect DEF broker
<1>. QED
  BY <1>1, <1>2, <1>3, <1>4, <1>5, <1>6, <1>7 DEF Next, vars, broker, enclave, session,
     IssueChallenge, Submit, EnterGate, BrokerRestart, ClockMoves

\* The bound on the window, from the three parts of the invariant.
LEMMA CutOffFollows ==
    ASSUME BrokerInv, DecisionInv, WindowInv
    PROVE  CutOffBound
<1>. USE ClockAssumption, BoundsAssumption, CadenceAssumption, TTLAssumption
<1>. SUFFICES ASSUME state = "holding"
     PROVE  deadline <= MaxOf(CutOff + DecisionTTL, started) + Cadence
  BY DEF CutOffBound
<1>1. CutOff \in Int /\ started \in Int /\ deadline \in Int
  BY DEF CutOff, MinOf, BrokerInv, WindowInv, Keys, Never
<1>2. CASE deadline <= started + Cadence
  BY <1>1, <1>2 DEF MaxOf
<1>3. ASSUME NEW d \in decisions, d.renewed, d.key = pinned, gateTime = d.issued - d.since,
             deadline <= d.expires + Cadence
      PROVE  deadline <= MaxOf(CutOff + DecisionTTL, started) + Cadence
  <2>1. d.key \in Keys /\ d.issued \in Int /\ d.expires \in Int
        /\ d.expires <= d.issued + DecisionTTL
        /\ d.issued <= stoppedAt[d.key] + Skew /\ d.since <= RetireAt /\ d.since \in Int
    BY <1>3 DEF DecisionInv
  <2>2. stoppedAt[d.key] \in Int
    BY <2>1 DEF BrokerInv, Never
  <2>3. d.issued <= CutOff
    BY <1>3, <2>1, <2>2 DEF CutOff, MinOf, Keys
  <2>. HIDE DEF CutOff
  <2>. QED
    BY <1>1, <1>3, <2>1, <2>3 DEF MaxOf
<1>. QED
  BY <1>2, <1>3 DEF WindowInv

-----------------------------------------------------------------------------
(* Windows and challenges                                                  *)

\* The gate forgets no nonce that it has spent, whichever call is made.
LEMMA SpentStays ==
    ASSUME SpentInv,
           \/ \E n \in Nonces : Challenges!Issue(n) \/ Challenges!Use(n)
           \/ \E S \in SUBSET Nonces : Challenges!Spend(S)
           \/ gate' = gate
    PROVE  /\ gate' \in [Nonces -> {"unissued", "open", "spent"}]
           /\ \A n \in Nonces : gate[n] = "spent" => gate'[n] = "spent"
  BY DEF SpentInv, Challenges!Issue, Challenges!Use, Challenges!Accept, Challenges!Refuse,
     Challenges!Spend

\* A nonce that is let through was let through for nothing else, and is spent.
LEMMA AcceptSpends ==
    ASSUME SpentInv, NEW n \in Nonces, Challenges!Accept(n)
    PROVE  /\ \A x \in gating \cup releases \cup Renewing : x.nonce # n
           /\ gate'[n] = "spent"
  BY DEF SpentInv, Challenges!Accept, Challenges!Spend

\* A request that leaves the gate takes its nonce with it.
LEMMA LeavesGate ==
    ASSUME SpentInv, NEW q \in gating, gating' = gating \ {q}, gate' = gate,
           \/ UNCHANGED <<releases, Renewing>>
           \/ \E r : /\ r.nonce = q.nonce
                     /\ \/ releases' = releases \cup {r} /\ Renewing' = Renewing
                        \/ releases' = releases /\ Renewing' = Renewing \cup {r}
    PROVE  SpentInv'
<1>. DEFINE R == Renewing
            S == Renewing'
<1>1. /\ gate \in [Nonces -> {"unissued", "open", "spent"}]
      /\ \A x \in gating \cup releases \cup R : x.nonce \in Nonces /\ gate[x.nonce] = "spent"
      /\ \A p \in gating : \A x \in releases \cup R : p.nonce # x.nonce
      /\ \A p, t \in gating : p.nonce = t.nonce => p = t
      /\ \A r, t \in releases : r.nonce = t.nonce => r = t
      /\ \A d, e \in R : d.nonce = e.nonce => d = e
      /\ \A r \in releases, d \in R : r.nonce # d.nonce
  BY DEF SpentInv
<1>2. SUFFICES
      /\ gate' \in [Nonces -> {"unissued", "open", "spent"}]
      /\ \A x \in gating' \cup releases' \cup S : x.nonce \in Nonces /\ gate'[x.nonce] = "spent"
      /\ \A p \in gating' : \A x \in releases' \cup S : p.nonce # x.nonce
      /\ \A p, t \in gating' : p.nonce = t.nonce => p = t
      /\ \A r, t \in releases' : r.nonce = t.nonce => r = t
      /\ \A d, e \in S : d.nonce = e.nonce => d = e
      /\ \A r \in releases', d \in S : r.nonce # d.nonce
  BY DEF SpentInv
<1>3. CASE releases' = releases /\ S = R
  <2>. HIDE DEF R, S
  <2>. QED
    BY <1>1, <1>3
<1>4. ASSUME NEW r, r.nonce = q.nonce, releases' = releases \cup {r}, S = R PROVE <1>2!1
  <2>. HIDE DEF R, S
  <2>. QED
    BY <1>1, <1>4
<1>5. ASSUME NEW r, r.nonce = q.nonce, releases' = releases, S = R \cup {r} PROVE <1>2!1
  <2>. HIDE DEF R, S
  <2>. QED
    BY <1>1, <1>5
<1>. QED
  BY <1>3, <1>4, <1>5

\* The decision that is added, and what it does to the renewing ones.
LEMMA SignsRenewing ==
    ASSUME NEW q, NEW renewed \in BOOLEAN, NEW e, Signs(q, renewed, e)
    PROVE  /\ Decision(q, renewed, e).nonce = q.nonce
           /\ Decision(q, renewed, e).asker = q.asker
           /\ Renewing' = IF renewed THEN Renewing \cup {Decision(q, renewed, e)} ELSE Renewing
<1>. DEFINE d == Decision(q, renewed, e)
<1>1. d.nonce = q.nonce /\ d.asker = q.asker /\ d.renewed = renewed
  BY DecisionFields
<1>2. decisions' = decisions \cup {d}
  BY DEF Signs
<1>. HIDE DEF d
<1>3. Renewing' = IF renewed THEN Renewing \cup {d} ELSE Renewing
  BY <1>1, <1>2 DEF Renewing
<1>. QED
  BY <1>1, <1>3 DEF d

LEMMA RefuseRenewing ==
    ASSUME NEW n \in Nonces, NEW renewal \in BOOLEAN, RefuseNonce(n, renewal)
    PROVE  Renewing' = Renewing
<1>1. CASE decisions' = decisions
  BY <1>1 DEF Renewing
<1>2. CASE Signs(Request(n, TRUE), FALSE, Untimed)
  BY <1>2, SignsRenewing
<1>. QED
  BY <1>1, <1>2, RefuseEffect

\* Which steps add what a window may rest on.
LEMMA SpentInductive ==
    ASSUME SpentInv, [Next]_vars
    PROVE  SpentInv'
<1>1. ASSUME NEW n \in Nonces, IssueChallenge(n) PROVE SpentInv'
  <2>1. gating' = gating /\ releases' = releases /\ decisions' = decisions /\ Challenges!Issue(n)
    BY <1>1 DEF IssueChallenge
  <2>. QED
    BY <2>1, SpentStays DEF SpentInv, Renewing
<1>2. ASSUME NEW n \in Nonces, NEW renewal \in BOOLEAN, EnterGate(n, renewal) PROVE SpentInv'
  <2>. DEFINE q == Request(n, renewal)
  <2>1. /\ releases' = releases /\ decisions' = decisions /\ Challenges!Accept(n)
        /\ gating' = gating \cup {q} /\ q.nonce = n
    BY <1>2, EnterEffect
  <2>. HIDE DEF q
  <2>2. Renewing' = Renewing
    BY <2>1 DEF Renewing
  <2>3. /\ \A x \in gating \cup releases \cup Renewing : x.nonce # n
        /\ gate'[n] = "spent"
    BY <2>1, AcceptSpends
  <2>4. Challenges!Use(n)
    BY <2>1 DEF Challenges!Use
  <2>. QED
    BY <2>1, <2>2, <2>3, <2>4, SpentStays DEF SpentInv
<1>3. ASSUME NEW n \in Nonces, NEW renewal \in BOOLEAN, RefuseNonce(n, renewal) PROVE SpentInv'
  <2>1. gating' = gating /\ releases' = releases /\ Renewing' = Renewing /\ Challenges!Use(n)
    BY <1>3, RefuseEffect, RefuseRenewing DEF Challenges!Use
  <2>. QED
    BY <2>1, SpentStays DEF SpentInv
<1>4. ASSUME NEW q \in gating, Release(q) PROVE SpentInv'
  <2>1. Renewing' = Renewing
    BY <1>4, ReleaseEffect DEF Renewing
  <2>. QED
    BY <1>4, <2>1, ReleaseEffect, LeavesGate
<1>5. ASSUME NEW q \in gating, SignRenewal(q) PROVE SpentInv'
  <2>1. PICK renewed \in BOOLEAN, e \in Evidence(q) : Signs(q, renewed, e)
    BY <1>5, SignEffect
  <2>2. releases' = releases /\ gate' = gate /\ gating' = gating \ {q}
    BY <1>5, <2>1, SignEffect DEF Signs
  <2>. QED
    BY <2>1, <2>2, SignsRenewing, LeavesGate
<1>6. CASE BrokerRestart
  <2>1. /\ releases' = releases /\ decisions' = decisions /\ gating' = {}
        /\ Challenges!Spend({n \in Nonces : gate[n] = "open"})
    BY <1>6 DEF BrokerRestart
  <2>. QED
    BY <2>1, SpentStays DEF SpentInv, Renewing
<1>7. ASSUME NEW d \in decisions, Deliver(d) PROVE SpentInv'
  BY <1>7 DEF Deliver, broker, SpentInv, Renewing
<1>8. CASE UNCHANGED broker
  BY <1>8 DEF broker, SpentInv, Renewing
<1>. QED
  BY <1>1, <1>2, <1>3, <1>4, <1>5, <1>6, <1>7, <1>8 DEF Next, vars, Submit, StartSession, Call,
     ClockMoves

\* Every step answers at most one challenge.
LEMMA AttestedGrows ==
    ASSUME [Next]_vars
    PROVE  /\ releases \subseteq releases' /\ Renewing \subseteq Renewing'
           /\ Attested' = Attested \/ \E n : Attested' = Attested \cup {n}
<1>1. CASE UNCHANGED <<releases, decisions>>
  BY <1>1 DEF Attested, Renewing
<1>2. ASSUME NEW q \in gating, Release(q)
      PROVE  /\ releases \subseteq releases' /\ Renewing \subseteq Renewing'
             /\ Attested' = Attested \/ Attested' = Attested \cup {q.nonce}
  <2>1. Renewing' = Renewing
    BY <1>2, ReleaseEffect DEF Renewing
  <2>2. CASE releases' = releases
    BY <2>1, <2>2 DEF Attested
  <2>3. ASSUME NEW r, releases' = releases \cup {r}, r.nonce = q.nonce
        PROVE  Attested' = Attested \cup {q.nonce}
    BY <2>1, <2>3 DEF Attested
  <2>. QED
    BY <1>2, <2>1, <2>2, <2>3, ReleaseEffect
<1>3. ASSUME NEW q \in gating, SignRenewal(q)
      PROVE  /\ releases \subseteq releases' /\ Renewing \subseteq Renewing'
             /\ Attested' = Attested \/ Attested' = Attested \cup {q.nonce}
  <2>1. PICK renewed \in BOOLEAN, e \in Evidence(q) : Signs(q, renewed, e)
    BY <1>3, SignEffect
  <2>. DEFINE d == Decision(q, renewed, e)
  <2>2. d.nonce = q.nonce /\ Renewing' = IF renewed THEN Renewing \cup {d} ELSE Renewing
    BY <2>1, SignsRenewing
  <2>. HIDE DEF d
  <2>3. releases' = releases
    BY <2>1 DEF Signs
  <2>. QED
    BY <2>2, <2>3 DEF Attested
<1>4. ASSUME NEW n \in Nonces, NEW renewal \in BOOLEAN, RefuseNonce(n, renewal)
      PROVE  releases' = releases /\ Renewing' = Renewing /\ Attested' = Attested
  BY <1>4, RefuseEffect, RefuseRenewing DEF Attested
<1>. QED
  BY <1>1, <1>2, <1>3, <1>4 DEF Next, vars, broker, IssueChallenge, Submit, EnterGate,
     BrokerRestart, StartSession, Deliver, Call, ClockMoves

\* A session uses decisions that answer it, and starts with none.
LEMMA UsedInductive ==
    ASSUME UsedInv, AttestedInv, [Next]_vars
    PROVE  UsedInv'
<1>1. IsFiniteSet(Attested')
  BY AttestedGrows, FS_AddElement DEF UsedInv
<1>2. Current \in Nat
  BY FS_CardinalityType DEF UsedInv, Current
<1>3. releases \subseteq releases' /\ Renewing \subseteq Renewing'
  BY AttestedGrows
<1>4. ASSUME UNCHANGED <<opened, pinned>>
      PROVE  Current' = Current /\ \A d : Read(d)' = Read(d)
  BY <1>4 DEF Current, Read
<1>5. ASSUME UNCHANGED <<opened, pinned, asked, used>>,
             \A x \in gating' \cup Renewing' : x.asker \in Nat
      PROVE  UsedInv'
  BY <1>1, <1>3, <1>4, <1>5 DEF UsedInv
<1>6. ASSUME UNCHANGED <<opened, pinned, asked, used, Renewing>>, gating' \subseteq gating
      PROVE  UsedInv'
  BY <1>5, <1>6 DEF UsedInv
<1>7. ASSUME NEW n \in Nonces, NEW renewal \in BOOLEAN, EnterGate(n, renewal) PROVE UsedInv'
  <2>. DEFINE q == Request(n, renewal)
  <2>1. UNCHANGED <<decisions, enclave>> /\ gating' = gating \cup {q} /\ q.asker = asked[n]
    BY <1>7, EnterEffect
  <2>. HIDE DEF q
  <2>2. Renewing' = Renewing
    BY <2>1 DEF Renewing
  <2>3. \A x \in gating' \cup Renewing' : x.asker \in Nat
    BY <2>1, <2>2 DEF UsedInv
  <2>. QED
    BY <1>5, <2>1, <2>3 DEF enclave, session
<1>8. ASSUME NEW n \in Nonces, NEW renewal \in BOOLEAN, RefuseNonce(n, renewal) PROVE UsedInv'
  BY <1>6, <1>8, RefuseEffect, RefuseRenewing DEF enclave, session
<1>9. ASSUME NEW q \in gating, Release(q) PROVE UsedInv'
  <2>1. UNCHANGED <<decisions, enclave>> /\ gating' \subseteq gating
    BY <1>9, ReleaseEffect
  <2>. QED
    BY <1>6, <2>1 DEF Renewing, enclave, session
<1>10. ASSUME NEW q \in gating, SignRenewal(q) PROVE UsedInv'
  <2>1. PICK renewed \in BOOLEAN, e \in Evidence(q) : Signs(q, renewed, e)
    BY <1>10, SignEffect
  <2>2. \A x \in gating' \cup Renewing' : x.asker \in Nat
    BY <1>10, <2>1, SignEffect, SignsRenewing DEF UsedInv
  <2>. QED
    BY <1>5, <2>1, <2>2 DEF Signs, enclave, session
<1>11. CASE BrokerRestart
  <2>1. UNCHANGED <<decisions, enclave>> /\ gating' \subseteq gating
    BY <1>11 DEF BrokerRestart
  <2>. QED
    BY <1>6, <2>1 DEF Renewing, enclave, session
<1>12. ASSUME UNCHANGED <<opened, pinned, asked, used, decisions, gating>> PROVE UsedInv'
  BY <1>6, <1>12 DEF Renewing
<1>13. ASSUME NEW n \in Nonces, Submit(n) PROVE UsedInv'
  <2>1. UNCHANGED <<opened, pinned, used, decisions, gating>> /\ asked' = [asked EXCEPT ![n] = Current]
    BY <1>13 DEF Submit, broker, session
  <2>2. asked' \in [Nonces -> Nat]
    BY <1>2, <2>1 DEF UsedInv
  <2>3. Renewing' = Renewing
    BY <2>1 DEF Renewing
  <2>. QED
    BY <1>1, <1>3, <1>4, <2>1, <2>2, <2>3 DEF UsedInv
<1>14. ASSUME NEW r \in releases, StartSession(r) PROVE UsedInv'
  <2>1. UNCHANGED <<releases, decisions, gating, asked>> /\ used' = {} /\ opened' = opened \cup {r}
    BY <1>14 DEF StartSession, broker
  <2>2. IsFiniteSet(opened')
    BY <2>1, FS_AddElement DEF UsedInv
  <2>3. Renewing' = Renewing
    BY <2>1 DEF Renewing
  <2>. QED
    BY <1>1, <2>1, <2>2, <2>3 DEF UsedInv
<1>15. ASSUME NEW d \in decisions, Deliver(d) PROVE UsedInv'
  <2>1. UNCHANGED <<now, broker, opened, asked, pinned, started>>
        /\ (Refuses \/ UsesUp(d) \/ OpensWindow(d))
    BY <1>15, DeliverEffect DEF AttestedInv
  <2>2. decisions' = decisions /\ gating' = gating /\ Renewing' = Renewing
    BY <2>1 DEF broker, Renewing
  <2>3. CASE used' = used
    BY <1>12, <2>1, <2>2, <2>3
  <2>4. CASE Renews(d) /\ used' = used \cup {Read(d)}
    <3>1. d \in Renewing /\ d.asker = Current
      BY <2>4 DEF Renews, Renewing
    <3>. QED
      BY <1>1, <1>3, <1>4, <2>1, <2>2, <2>4, <3>1 DEF UsedInv
  <2>. QED
    BY <2>1, <2>3, <2>4 DEF Refuses, UsesUp, OpensWindow
<1>. QED
  BY <1>13, <1>14, <1>15, <1>7, <1>8, <1>9, <1>10, <1>11, <1>12, CallEffect DEF Next, vars,
     broker, enclave, session, IssueChallenge, ClockMoves

\* Whatever a window rests on has been answered.
LEMMA BehindAttested ==
    UsedInv => /\ Behind \subseteq Attested
               /\ IsFiniteSet(Behind) /\ Cardinality(Behind) \in Nat
               /\ Cardinality(Behind) <= Cardinality(Attested)
<1>. SUFFICES ASSUME UsedInv
     PROVE  /\ Behind \subseteq Attested
            /\ IsFiniteSet(Behind) /\ Cardinality(Behind) \in Nat
            /\ Cardinality(Behind) <= Cardinality(Attested)
  OBVIOUS
<1>1. \A u \in used : u.nonce \in Attested
  BY ReadFields DEF UsedInv, Attested
<1>2. Behind \subseteq Attested
  BY <1>1 DEF Behind, UsedInv, Attested, Renewing
<1>. QED
  BY <1>2, FS_Subset, FS_CardinalityType DEF UsedInv

LEMMA BehindFiniteNext == UsedInv' => IsFiniteSet(Behind')
<1>1. UsedInv => IsFiniteSet(Behind)
  BY BehindAttested
<1>2. (UsedInv => IsFiniteSet(Behind))'
  BY <1>1, PTL
<1>. QED
  BY <1>2

\* A window that is opened rests on a challenge that no earlier window rests on.
LEMMA OneMoreBehind ==
    ASSUME UsedInv, UsedInv', NEW n, n \notin Behind, Behind \cup {n} \subseteq Behind'
    PROVE  Cardinality(Behind) + 1 <= Cardinality(Behind')
<1>1. IsFiniteSet(Behind) /\ IsFiniteSet(Behind')
  BY BehindAttested, BehindFiniteNext
<1>2. Cardinality(Behind \cup {n}) = Cardinality(Behind) + 1
  BY <1>1, FS_AddElement
<1>3. Cardinality(Behind \cup {n}) <= Cardinality(Behind')
  BY <1>1, FS_Subset
<1>. QED
  BY <1>2, <1>3

\* Each window granted is paid for by a challenge of its own.
LEMMA AttestedInductive ==
    ASSUME SpentInv, UsedInv, UsedInv', AttestedInv, [Next]_vars
    PROVE  AttestedInv'
<1>1. Cardinality(Behind) \in Nat /\ Cardinality(Behind') \in Nat
  BY BehindAttested, BehindFiniteNext, FS_CardinalityType
<1>2. Renewing \subseteq Renewing'
  BY AttestedGrows
<1>3. ASSUME UNCHANGED <<opened, used, windows, renewals>> PROVE AttestedInv'
  <2>1. Current' = Current
    BY <1>3 DEF Current
  <2>2. Behind \subseteq Behind'
    BY <1>2, <1>3, <2>1 DEF Behind
  <2>3. Cardinality(Behind) <= Cardinality(Behind')
    BY <2>2, BehindFiniteNext, FS_Subset
  <2>. QED
    BY <1>1, <1>3, <2>3 DEF AttestedInv
<1>4. ASSUME NEW r \in releases, StartSession(r) PROVE AttestedInv'
  <2>1. /\ UNCHANGED <<releases, decisions>> /\ used' = {} /\ renewals' = 0
        /\ r \notin opened /\ opened' = opened \cup {r} /\ windows' = windows + 1
    BY <1>4 DEF StartSession, broker
  <2>2. Current' = Current + 1 /\ Current \in Nat
    BY <2>1, FS_AddElement, FS_CardinalityType DEF Current, UsedInv
  <2>3. \A e \in Renewing : e.asker <= Current => e.nonce \in Behind'
    BY <1>2, <2>2 DEF Behind, UsedInv
  <2>4. \A u \in used : u.nonce \in Behind'
    <3>1. ASSUME NEW u \in used PROVE u.nonce \in Behind'
      <4>1. PICK d \in Renewing : d.asker = Current /\ u = Read(d)
        BY <3>1 DEF UsedInv
      <4>. QED
        BY <2>2, <2>3, <4>1, ReadFields
    <3>. QED
      BY <3>1
  <2>5. {q.nonce : q \in opened} \cup {r.nonce} \subseteq Behind'
    BY <2>1 DEF Behind
  <2>6. Behind \cup {r.nonce} \subseteq Behind'
    <3>1. {e.nonce : e \in {c \in Renewing : c.asker < Current}} \subseteq Behind'
      BY <2>2, <2>3 DEF UsedInv
    <3>2. {u.nonce : u \in used} \subseteq Behind'
      BY <2>4
    <3>. DEFINE next == Behind'
    <3>3. Behind \cup {r.nonce} \subseteq next
      <4>. HIDE DEF next
      <4>. QED
        BY <2>5, <3>1, <3>2 DEF Behind, next
    <3>. QED
      BY <3>3
  <2>7. r.nonce \notin Behind
    <3>1. \A q \in opened : q.nonce # r.nonce
      BY <2>1 DEF SpentInv, UsedInv
    <3>2. \A d \in Renewing : d.nonce # r.nonce
      BY DEF SpentInv
    <3>3. \A u \in used : u.nonce # r.nonce
      BY <3>2, ReadFields DEF UsedInv
    <3>. QED
      BY <3>1, <3>2, <3>3 DEF Behind
  <2>8. Cardinality(Behind) + 1 <= Cardinality(Behind')
    BY <2>6, <2>7, OneMoreBehind
  <2>. QED
    BY <1>1, <2>1, <2>8 DEF AttestedInv
<1>5. ASSUME NEW d \in decisions, Deliver(d) PROVE AttestedInv'
  <2>1. UNCHANGED <<now, broker, opened, asked, pinned, started>>
        /\ (Refuses \/ UsesUp(d) \/ OpensWindow(d))
    BY <1>5, DeliverEffect DEF AttestedInv
  <2>2. Current' = Current /\ Renewing' = Renewing
    BY <2>1 DEF Current, broker, Renewing
  <2>3. CASE Refuses
    BY <1>3, <2>1, <2>3 DEF Refuses
  <2>4. ASSUME used' = used \cup {Read(d)} PROVE Behind' = Behind \cup {d.nonce}
    BY <2>1, <2>2, <2>4, ReadFields DEF Behind
  <2>5. CASE UsesUp(d)
    <3>1. Behind \subseteq Behind'
      BY <2>4, <2>5 DEF UsesUp
    <3>2. Cardinality(Behind) <= Cardinality(Behind')
      BY <3>1, BehindFiniteNext, FS_Subset
    <3>. QED
      BY <1>1, <2>5, <3>2 DEF AttestedInv, UsesUp
  <2>6. CASE OpensWindow(d)
    <3>1. d \in Renewing /\ d.asker = Current /\ Read(d) \notin used
      BY <2>6 DEF OpensWindow, Renews, Renewing
    <3>2. \A q \in opened : q.nonce # d.nonce
      BY <3>1 DEF SpentInv, UsedInv
    <3>3. \A e \in Renewing : e.asker < Current => e.nonce # d.nonce
      <4>1. ASSUME NEW e \in Renewing, e.asker < Current, e.nonce = d.nonce PROVE FALSE
        <5>1. e = d
          BY <3>1, <4>1 DEF SpentInv
        <5>. QED
          BY <3>1, <4>1, <5>1 DEF UsedInv
      <4>. QED
        BY <4>1
    <3>4. \A u \in used : u.nonce # d.nonce
      <4>1. ASSUME NEW u \in used, u.nonce = d.nonce PROVE FALSE
        <5>1. PICK e \in Renewing : u = Read(e)
          BY <4>1 DEF UsedInv
        <5>2. e.nonce = d.nonce
          BY <4>1, <5>1, ReadFields
        <5>3. e = d
          BY <3>1, <5>1, <5>2 DEF SpentInv
        <5>. QED
          BY <3>1, <4>1, <5>1, <5>3
      <4>. QED
        BY <4>1
    <3>5. d.nonce \notin Behind
      BY <3>2, <3>3, <3>4 DEF Behind
    <3>6. Cardinality(Behind) + 1 <= Cardinality(Behind')
      BY <2>4, <2>6, <3>5, OneMoreBehind DEF OpensWindow
    <3>. QED
      BY <1>1, <2>6, <3>6 DEF AttestedInv, OpensWindow
  <2>. QED
    BY <2>1, <2>3, <2>5, <2>6
<1>6. ASSUME NEW q \in gating, Release(q) \/ SignRenewal(q)
      PROVE  UNCHANGED <<opened, used, windows, renewals>>
  BY <1>6 DEF Release, SignRenewal, enclave, session
<1>. QED
  BY <1>3, <1>4, <1>5, <1>6, CallEffect DEF Next, vars, enclave, session, IssueChallenge,
     EnterGate, RefuseNonce, Submit, BrokerRestart, ClockMoves

-----------------------------------------------------------------------------
(* The theorems                                                            *)

CustodyInv == /\ BrokerInv /\ RequestInv /\ DecisionInv /\ WindowInv
              /\ SpentInv /\ UsedInv /\ AttestedInv

LEMMA CustodyInvInitially == Init => CustodyInv
<1>. SUFFICES ASSUME Init PROVE CustodyInv
  OBVIOUS
<1>. USE ClockAssumption, BoundsAssumption
<1>1. BrokerInv /\ RequestInv /\ DecisionInv /\ WindowInv
  BY DEF Init, BrokerInv, RequestInv, DecisionInv, WindowInv, Keys, Never
<1>2. Renewing = {} /\ Attested = {} /\ Behind = {}
  BY DEF Init, Renewing, Attested, Behind
<1>3. SpentInv
  BY <1>2 DEF Init, SpentInv, Challenges!GateInit
<1>4. UsedInv
  BY <1>2, FS_EmptySet DEF Init, UsedInv
<1>5. AttestedInv
  BY <1>2, FS_EmptySet DEF Init, AttestedInv
<1>. QED
  BY <1>1, <1>3, <1>4, <1>5 DEF CustodyInv

LEMMA CustodyInvInductive == CustodyInv /\ [Next]_vars => CustodyInv'
  BY BrokerInductive, RequestInductive, DecisionInductive, WindowInductive, SpentInductive,
     UsedInductive, AttestedInductive DEF CustodyInv

\* Whatever the network delays, repeats or reorders and whoever runs which clock, a
\* session's window closes one decision lifetime and one cadence after its broker last
\* could sign one, or a cadence after its construction (apply_renewal,
\* sign_renewal_decision, _check_serving_image), for every value of the parameters.  The
\* gate may look at the image, wait for NVIDIA's responder and sign afterwards: the
\* retirement counts with the time the gate took for the window in force.
THEOREM WindowsAreCutOff == Spec => []CutOffBound
<1>1. CustodyInv => CutOffBound
  BY CutOffFollows DEF CustodyInv
<1>. QED
  BY <1>1, CustodyInvInitially, CustodyInvInductive, PTL DEF Spec

\* Over all sessions, broker processes and replays there are never more windows than
\* challenges that passed the gate (verify_and_release, verify_for_renewal,
\* apply_renewal).
THEOREM WindowsRestOnChallenges == Spec => []WindowsAreAttested
<1>1. CustodyInv => WindowsAreAttested
  <2>. SUFFICES ASSUME CustodyInv PROVE WindowsAreAttested
    OBVIOUS
  <2>1. Cardinality(Attested) \in Nat
    BY FS_CardinalityType DEF CustodyInv, UsedInv
  <2>. QED
    BY <2>1, BehindAttested DEF CustodyInv, AttestedInv, WindowsAreAttested
<1>. QED
  BY <1>1, CustodyInvInitially, CustodyInvInductive, PTL DEF Spec

=============================================================================
