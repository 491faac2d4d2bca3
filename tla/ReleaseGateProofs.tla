------------------------- MODULE ReleaseGateProofs -------------------------
(* What the release gate guarantees for every set of requests, nonces and   *)
(* transport keys.                                                          *)
EXTENDS ReleaseGate, FiniteSetTheorems, TLAPS

\* A list of checks that all passed has a passed quote check and a passed
\* channel-binding check in it: nothing releases around either of them.
LEMMA PassedChecks ==
    ASSUME NEW r, NEW renewal, AllPassed(Checks(r, renewal))
    PROVE  /\ CpuQuoteVerified(r.k, r.m, r.e)
           /\ ChannelBinding(r.k, r.e)
<1> DEFINE c == Checks(r, renewal)
<1>1. /\ 3 \in DOMAIN c /\ c[3] = Check("channel_binding", ChannelBinding(r.k, r.e))
      /\ 12 \in DOMAIN c
      /\ c[12] = Check("cpu_quote_verified", CpuQuoteVerified(r.k, r.m, r.e))
  BY DEF Checks
<1>2. c[3].passed /\ c[12].passed
  BY <1>1 DEF AllPassed
<1>3. c[3].passed = ChannelBinding(r.k, r.e)
  BY <1>1 DEF Check
<1>4. c[12].passed = CpuQuoteVerified(r.k, r.m, r.e)
  BY <1>1 DEF Check
<1> QED
  BY <1>2, <1>3, <1>4

\* The three shapes of an answer the gate gives after the nonce gate.
LEMMA DecideCases ==
    ASSUME NEW r, NEW renewal
    PROVE  LET c == Checks(r, renewal)  d == Decide(r, renewal) IN
           \/ ~AllPassed(c) /\ d = Refusal(c)
           \/ /\ AllPassed(c) /\ r.k.requireChannel /\ r.e.transport \in LowOrder
              /\ d = Refusal(Append(c, Check("key_sealed", FALSE)))
           \/ /\ AllPassed(c) /\ r.k.requireChannel /\ r.e.transport \notin LowOrder
              /\ d = Answer(TRUE, c, FALSE, r.e.transport)
           \/ /\ AllPassed(c) /\ ~r.k.requireChannel
              /\ d = Answer(TRUE, c, TRUE, None)
<1> DEFINE c == Checks(r, renewal)
<1>1. CASE ~AllPassed(c)
  BY <1>1 DEF Decide
<1>2. CASE AllPassed(c) /\ r.k.requireChannel
  BY <1>2 DEF Decide, Sealed
<1>3. CASE AllPassed(c) /\ ~r.k.requireChannel
  BY <1>3 DEF Decide
<1> QED
  BY <1>1, <1>2, <1>3

\* A sealing key that is recorded is one the channel-binding check accepted.
LEMMA SealedToAKey ==
    ASSUME NEW r, NEW renewal, AllPassed(Checks(r, renewal)), r.k.requireChannel
    PROVE  r.e.transport \in Keys
BY PassedChecks DEF ChannelBinding

LEMMA AnswerFields ==
    ASSUME NEW released, NEW checks, NEW inClear, NEW sealedTo
    PROVE  LET a == Answer(released, checks, inClear, sealedTo) IN
           /\ a.released = released /\ a.checks = checks
           /\ a.inClear = inClear /\ a.sealedTo = sealedTo
BY DEF Answer

LEMMA RefusalFields ==
    ASSUME NEW x
    PROVE  /\ Refusal(x).released = FALSE /\ Refusal(x).inClear = FALSE
           /\ Refusal(x).sealedTo = None /\ Refusal(x).checks = x
BY DEF Refusal, Answer

\* Neither refusal before the checks releases anything.
LEMMA RefusedEarly ==
    ASSUME NEW r, NEW renewal, RefuseInput(r, renewal) \/ RefuseNonce(r, renewal), decision' # None
    PROVE  decision'.released = FALSE
<1>1. PICK x : decision' = Refusal(x)
  BY DEF RefuseInput, RefuseNonce
<1> QED BY <1>1, RefusalFields, Zenon

LEMMA DecideTyped ==
    ASSUME NEW r, NEW renewal
    PROVE  /\ Decide(r, renewal).released \in BOOLEAN
           /\ Decide(r, renewal).inClear \in BOOLEAN
           /\ Decide(r, renewal).sealedTo \in Keys \cup {None}
<1> DEFINE c == Checks(r, renewal)
           d == Decide(r, renewal)
<1>1. ASSUME NEW x, d = Refusal(x)
      PROVE  d.released = FALSE /\ d.inClear = FALSE /\ d.sealedTo = None
  BY <1>1, RefusalFields
<1>2. ASSUME NEW x, NEW y, d = Answer(TRUE, x, TRUE, y) \/ d = Answer(TRUE, x, FALSE, y)
      PROVE  /\ d.released = TRUE /\ d.sealedTo = y
             /\ d.inClear = TRUE \/ d.inClear = FALSE
  BY <1>2 DEF Answer
<1>3. d.released \in BOOLEAN /\ d.inClear \in BOOLEAN
  BY <1>1, <1>2, DecideCases, Zenon
<1>4. d.sealedTo \in {None} \cup {r.e.transport}
  BY <1>1, <1>2, DecideCases, Zenon
<1>5. d.sealedTo = None \/ r.e.transport \in Keys
  BY <1>1, <1>2, DecideCases, SealedToAKey, Zenon
<1> QED
  BY <1>3, <1>4, <1>5

LEMMA KeylessFields ==
    ASSUME NEW r, NEW renewal
    PROVE  LET d == Decide(r, renewal)  q == Keyless(d) IN
           /\ q.released = d.released /\ q.checks = d.checks
           /\ q.inClear = FALSE /\ q.sealedTo = None
BY DecideCases DEF Keyless, Refusal, Answer

-----------------------------------------------------------------------------
(* Invariance.  TypeOK is inductive as it stands.                            *)

\* The bookkeeping of nonces, and the types of an answer, hold in every state.
THEOREM TypeCorrect == Spec => []TypeOK
<1>1. Init => TypeOK
  BY GateAssumption DEF Init, TypeOK
<1>2. ASSUME TypeOK, [Next]_vars PROVE TypeOK'
  <2>1. ASSUME NEW n \in Nonces, IssueChallenge(n) PROVE TypeOK'
    BY <1>2, <2>1 DEF TypeOK, IssueChallenge
  <2>2. ASSUME NEW n \in Nonces, ChallengeExpires(n) PROVE TypeOK'
    BY <1>2, <2>2 DEF TypeOK, ChallengeExpires
  <2>3. ASSUME NEW r \in Requests, NEW renewal \in BOOLEAN, Gate(r, renewal)
        PROVE  TypeOK'
    <3> DEFINE Typed(d) == /\ d.released \in BOOLEAN
                           /\ d.inClear \in BOOLEAN
                           /\ d.sealedTo \in Keys \cup {None}
    <3>1. issued' = issued
      BY <2>3 DEF Gate
    <3>2. \A x : Typed(Refusal(x))
      <4>1. ASSUME NEW x PROVE Typed(Refusal(x))
        <5>1. Refusal(x).sealedTo \in Keys \cup {None}
          BY RefusalFields
        <5>2. Refusal(x).released \in BOOLEAN /\ Refusal(x).inClear \in BOOLEAN
          BY RefusalFields, Zenon
        <5> QED BY <5>1, <5>2
      <4> QED BY <4>1
    <3>3. CASE RefuseInput(r, renewal)
      <4>1. decision' # None => Typed(decision')
        BY <3>2, <3>3 DEF RefuseInput
      <4> QED BY <1>2, <3>1, <3>3, <4>1 DEF TypeOK, RefuseInput
    <3>4. CASE RefuseNonce(r, renewal)
      <4>1. decision' # None => Typed(decision')
        BY <3>2, <3>4 DEF RefuseNonce
      <4> QED BY <1>2, <3>1, <3>4, <4>1 DEF TypeOK, RefuseNonce
    <3>5. CASE RunChecks(r, renewal)
      <4>3. Typed(Decide(r, FALSE)) /\ Decide(r, TRUE).released \in BOOLEAN
        BY DecideTyped, Zenon
      <4>4. /\ Keyless(Decide(r, TRUE)).released = Decide(r, TRUE).released
            /\ Keyless(Decide(r, TRUE)).inClear = FALSE
            /\ Keyless(Decide(r, TRUE)).sealedTo = None
        BY KeylessFields
      <4>1. Typed(Decide(r, FALSE)) /\ Typed(Keyless(Decide(r, TRUE)))
        BY <4>3, <4>4, Zenon
      <4>2. decision' # None => Typed(decision')
        BY <3>5, <4>1, Zenon DEF RunChecks
      <4> QED BY <1>2, <3>1, <3>5, <4>2 DEF TypeOK, RunChecks
    <3> QED BY <2>3, <3>3, <3>4, <3>5 DEF Gate
  <2>4. CASE UNCHANGED vars
    BY <1>2, <2>4 DEF TypeOK, vars
  <2>5. CASE Return
    BY <1>2, <2>5 DEF TypeOK, Return
  <2> QED
    BY <1>2, <2>1, <2>2, <2>3, <2>4, <2>5 DEF Next, VerifyAndRelease, VerifyForRenewal
<1> QED
  BY <1>1, <1>2, PTL DEF Spec

\* A positive answer comes from RunChecks alone, and RunChecks finds its nonce
\* among the fresh ones, which by TypeOK none of the decided ones is.
THEOREM NoRetryAfterFailure == Spec => FailedAttemptIsFinal
<1> DEFINE Final == request' # request /\ Released'
                      => request'.input.e.nonce \notin decided
<1>1. ASSUME TypeOK, [Next]_vars PROVE [Final]_vars
  <2>1. CASE request' = request
    BY <2>1
  <2>2. CASE \E n \in Nonces : IssueChallenge(n) \/ ChallengeExpires(n)
    BY <2>2 DEF IssueChallenge, ChallengeExpires
  <2>3. ASSUME NEW r \in Requests, NEW renewal \in BOOLEAN, Gate(r, renewal)
        PROVE  Final
    <3>1. request'.input = r
      BY <2>3 DEF Gate, Asked
    <3>2. \A x : ~Refusal(x).released
      BY RefusalFields
    <3>3. CASE RefuseInput(r, renewal)
      BY <3>2, <3>3, Zenon DEF RefuseInput, Released
    <3>4. CASE RefuseNonce(r, renewal)
      BY <3>2, <3>4, Zenon DEF RefuseNonce, Released
    <3>5. CASE RunChecks(r, renewal)
      BY <1>1, <3>1, <3>5 DEF RunChecks, TypeOK
    <3> QED BY <2>3, <3>3, <3>4, <3>5 DEF Gate
  <2>4. CASE Return
    BY <2>4 DEF Return, Released
  <2> QED
    BY <1>1, <2>1, <2>2, <2>3, <2>4 DEF Next, VerifyAndRelease, VerifyForRenewal, vars
<1> QED
  BY <1>1, TypeCorrect, PTL DEF Spec, FailedAttemptIsFinal

-----------------------------------------------------------------------------
(* What a positive answer rests on.                                          *)

\* Past the waiver, a passed quote check says what the signed body binds.
LEMMA VerifiedQuote ==
    ASSUME NEW r, NEW renewal, AllPassed(Checks(r, renewal)),
           ~VerificationWaived(r.k, r.m)
    PROVE  /\ r.e.quote # None /\ r.e.quote.trusted
           /\ r.e.quote.reportData = <<r.e.nonce, Binding(r.e)>>
           /\ r.e.quote.launch \in {None, r.e.image}
<1>1. CpuQuoteVerified(r.k, r.m, r.e)
  BY PassedChecks
<1>2. r.k.cpuVerifier
  BY <1>1 DEF CpuQuoteVerified, VerificationWaived
<1> QED
  BY <1>1, <1>2 DEF CpuQuoteVerified, QuoteVerifies

\* A positive answer means that every check passed; it seals to the transport
\* key of the evidence or to nothing.
LEMMA PositiveAnswer ==
    ASSUME NEW r, NEW renewal, Decide(r, renewal).released
    PROVE  /\ AllPassed(Checks(r, renewal))
           /\ \/ Decide(r, renewal).sealedTo = None
              \/ /\ Decide(r, renewal).sealedTo = r.e.transport
                 /\ r.e.transport \in Keys
<1> DEFINE d == Decide(r, renewal)
           c == Checks(r, renewal)
<1>1. CASE ~AllPassed(c) /\ d = Refusal(c)
  BY <1>1, RefusalFields
<1>2. CASE d = Refusal(Append(c, Check("key_sealed", FALSE)))
  BY <1>2, RefusalFields
<1>3. CASE /\ AllPassed(c) /\ r.k.requireChannel /\ r.e.transport \notin LowOrder
           /\ d = Answer(TRUE, c, FALSE, r.e.transport)
  BY <1>3, SealedToAKey DEF Answer
<1>4. CASE AllPassed(c) /\ d = Answer(TRUE, c, TRUE, None)
  BY <1>4 DEF Answer
<1> QED
  BY <1>1, <1>2, <1>3, <1>4, DecideCases

\* No release and no renewal goes around the quote: for every broker, manifest
\* and evidence, unless signer and operator both waived the verification.
THEOREM ReleasesAreAttested == Spec => []ReleaseIsAttested
<1>1. Init => ReleaseIsAttested
  BY DEF Init, ReleaseIsAttested, Released
<1>2. ASSUME ReleaseIsAttested, [Next]_vars PROVE ReleaseIsAttested'
  <2>1. CASE UNCHANGED <<request, decision>>
    BY <1>2, <2>1 DEF ReleaseIsAttested, Released
  <2>2. ASSUME NEW r \in Requests, NEW renewal \in BOOLEAN, Gate(r, renewal)
        PROVE  ReleaseIsAttested'
    <3>1. request'.input = r
      BY <2>2 DEF Gate, Asked
    <3>2. CASE ~Released'
      BY <3>2 DEF ReleaseIsAttested
    <3>3. CASE RunChecks(r, renewal) /\ Released' /\ ~VerificationWaived(r.k, r.m)
      <4>1. PICK b \in BOOLEAN :
               /\ Decide(r, b).released
               /\ decision'.sealedTo \in {None, Decide(r, b).sealedTo}
        <5>1. CASE renewal
          <6>1. decision' = Keyless(Decide(r, TRUE))
            BY <3>3, <5>1 DEF RunChecks
          <6> QED BY <3>3, <6>1, KeylessFields DEF Released
        <5>2. CASE ~renewal
          <6>1. decision' = Decide(r, FALSE)
            BY <3>3, <5>2 DEF RunChecks
          <6> QED BY <3>3, <6>1 DEF Released
        <5> QED BY <5>1, <5>2
      <4>2. AllPassed(Checks(r, b))
        BY <4>1, PositiveAnswer
      <4>3. /\ r.e.quote # None /\ r.e.quote.trusted
            /\ r.e.quote.reportData = <<r.e.nonce, Binding(r.e)>>
            /\ r.e.quote.launch \in {None, r.e.image}
        BY <3>3, <4>2, VerifiedQuote
      <4>4. decision'.sealedTo # None => Binding(r.e) = decision'.sealedTo
        BY <4>1, PositiveAnswer DEF Binding
      <4> QED BY <3>1, <4>3, <4>4 DEF ReleaseIsAttested
    <3>4. CASE VerificationWaived(r.k, r.m)
      BY <3>1, <3>4 DEF ReleaseIsAttested
    <3>5. CASE RefuseInput(r, renewal) \/ RefuseNonce(r, renewal)
      <4>1. decision' # None => decision'.released = FALSE
        BY <3>5, RefusedEarly, Zenon
      <4> QED BY <4>1, <3>2 DEF Released
    <3> QED BY <2>2, <3>2, <3>3, <3>4, <3>5 DEF Gate
  <2>3. ASSUME NEW n \in Nonces, IssueChallenge(n) \/ ChallengeExpires(n)
        PROVE  UNCHANGED <<request, decision>>
    BY <2>3 DEF IssueChallenge, ChallengeExpires
  <2>4. CASE Return
    BY <2>4 DEF Return, ReleaseIsAttested, Released
  <2> QED
    BY <1>2, <2>1, <2>2, <2>3, <2>4 DEF Next, VerifyAndRelease, VerifyForRenewal, vars
<1> QED
  BY <1>1, <1>2, PTL DEF Spec
-----------------------------------------------------------------------------
(* The key follows the verdict.                                              *)

\* One failed check in a list fails the list.
LEMMA FailedCheck ==
    ASSUME NEW x, NEW i \in DOMAIN x, x[i].passed = FALSE
    PROVE  AllPassed(x) = FALSE
BY DEF AllPassed

LEMMA ChecksAreFourteen ==
    ASSUME NEW r, NEW renewal
    PROVE  Len(Checks(r, renewal)) = 14 /\ DOMAIN Checks(r, renewal) = 1 .. 14
BY DEF Checks

\* A failed sealing is one check more, and that one failed.
LEMMA SealingFailure ==
    ASSUME NEW r, NEW renewal
    PROVE  AllPassed(Append(Checks(r, renewal), Check("key_sealed", FALSE))) = FALSE
<1> DEFINE c == Checks(r, renewal)
           x == Append(c, Check("key_sealed", FALSE))
<1>1. 15 \in DOMAIN x /\ x[15] = Check("key_sealed", FALSE)
  BY DEF Checks
<1>2. x[15].passed = FALSE
  BY <1>1 DEF Check
<1> QED BY <1>1, <1>2, FailedCheck

LEMMA SingleFailure ==
    ASSUME NEW name
    PROVE  AllPassed(<<Check(name, FALSE)>>) = FALSE
<1> DEFINE x == <<Check(name, FALSE)>>
<1>1. 1 \in DOMAIN x /\ x[1].passed = FALSE
  BY DEF Check
<1> QED BY <1>1, FailedCheck

\* What a decision d says about the key, in answer to r.
Verdict(d, r, renewal) ==
    /\ d.released = AllPassed(d.checks)
    /\ (d.inClear \/ d.sealedTo # None) <=> (d.released /\ ~renewal)
    /\ r.k.requireChannel => ~d.inClear
    /\ d.sealedTo \notin LowOrder

LEMMA RefusalVerdict ==
    ASSUME NEW x, NEW r, NEW renewal, AllPassed(x) = FALSE
    PROVE  Verdict(Refusal(x), r, renewal)
<1>1. None \notin LowOrder
  BY GateAssumption
<1> QED BY <1>1, RefusalFields, Zenon DEF Verdict

LEMMA DecideVerdict ==
    ASSUME NEW r, NEW renewal
    PROVE  Verdict(Decide(r, renewal), r, FALSE)
<1> DEFINE c == Checks(r, renewal)
           d == Decide(r, renewal)
<1> SUFFICES Verdict(d, r, FALSE)
  OBVIOUS
<1>0. None \notin LowOrder /\ None \notin Keys /\ (AllPassed(c) => AllPassed(c) = TRUE)
  BY GateAssumption DEF AllPassed
<1>1. CASE ~AllPassed(c) /\ d = Refusal(c)
  <2>1. AllPassed(c) = FALSE
    BY <1>1 DEF AllPassed
  <2> QED BY <1>1, <2>1, RefusalVerdict
<1>2. CASE d = Refusal(Append(c, Check("key_sealed", FALSE)))
  BY <1>2, SealingFailure, RefusalVerdict
<1>3. CASE /\ AllPassed(c) /\ r.k.requireChannel /\ r.e.transport \notin LowOrder
           /\ d = Answer(TRUE, c, FALSE, r.e.transport)
  <2>1. r.e.transport # None
    BY <1>0, <1>3, SealedToAKey
  <2>2. d.released = TRUE /\ d.checks = c /\ d.inClear = FALSE /\ d.sealedTo = r.e.transport
    BY <1>3 DEF Answer
  <2> HIDE DEF d, c
  <2> QED BY <1>0, <1>3, <2>1, <2>2, Zenon DEF Verdict
<1>4. CASE AllPassed(c) /\ ~r.k.requireChannel /\ d = Answer(TRUE, c, TRUE, None)
  <2>1. d.released = TRUE /\ d.checks = c /\ d.inClear = TRUE /\ d.sealedTo = None
    BY <1>4 DEF Answer
  <2> HIDE DEF d, c
  <2> QED BY <1>0, <1>4, <2>1, Zenon DEF Verdict
<1> QED
  BY <1>1, <1>2, <1>3, <1>4, DecideCases

LEMMA KeylessVerdict ==
    ASSUME NEW r
    PROVE  Verdict(Keyless(Decide(r, TRUE)), r, TRUE)
<1> DEFINE d == Decide(r, TRUE)
           q == Keyless(d)
<1> SUFFICES Verdict(q, r, TRUE)
  OBVIOUS
<1>1. q.released = d.released /\ q.checks = d.checks /\ q.inClear = FALSE /\ q.sealedTo = None
  BY KeylessFields
<1>2. d.released = AllPassed(d.checks)
  BY DecideVerdict DEF Verdict
<1>3. None \notin LowOrder
  BY GateAssumption
<1> HIDE DEF d, q
<1> QED BY <1>1, <1>2, <1>3, Zenon DEF Verdict

\* Whatever is asked, a key leaves with a positive answer to a release and with nothing
\* else: no refusal, no renewal and no failed sealing carries it in either form.
THEOREM KeysFollowVerdicts == Spec => []KeyFollowsVerdict
<1> DEFINE Inv == decision # None => Verdict(decision, request.input, request.renewal)
<1>1. Init => Inv
  BY DEF Init
<1>2. ASSUME Inv, [Next]_vars PROVE Inv'
  <2>1. CASE UNCHANGED <<request, decision>>
    BY <1>2, <2>1 DEF Verdict
  <2>2. ASSUME NEW r \in Requests, NEW renewal \in BOOLEAN, Gate(r, renewal)
        PROVE  Inv'
    <3>1. request'.input = r /\ request'.renewal = renewal
      BY <2>2 DEF Gate, Asked
    <3>2. CASE RefuseInput(r, renewal)
      <4>1. decision' # None => decision' = Refusal(<<Check("input_canonical", FALSE)>>)
        BY <3>2, Zenon DEF RefuseInput
      <4> QED BY <3>1, <4>1, SingleFailure, RefusalVerdict
    <3>3. CASE RefuseNonce(r, renewal)
      <4>1. decision' = Refusal(<<Check("nonce_fresh", FALSE)>>)
        BY <3>3 DEF RefuseNonce
      <4> QED BY <3>1, <4>1, SingleFailure, RefusalVerdict
    <3>4. CASE RunChecks(r, renewal)
      <4>1. CASE renewal = TRUE
        <5>1. decision' = Keyless(Decide(r, TRUE))
          BY <3>4, <4>1 DEF RunChecks
        <5> QED BY <3>1, <4>1, <5>1, KeylessVerdict
      <4>2. CASE renewal = FALSE
        <5>1. decision' = Decide(r, FALSE)
          BY <3>4, <4>2 DEF RunChecks
        <5> QED BY <3>1, <4>2, <5>1, DecideVerdict
      <4> QED BY <4>1, <4>2
    <3> QED BY <2>2, <3>2, <3>3, <3>4 DEF Gate
  <2>3. ASSUME NEW n \in Nonces, IssueChallenge(n) \/ ChallengeExpires(n)
        PROVE  UNCHANGED <<request, decision>>
    BY <2>3 DEF IssueChallenge, ChallengeExpires
  <2>4. CASE Return
    BY <2>4 DEF Return
  <2> QED
    BY <1>2, <2>1, <2>2, <2>3, <2>4 DEF Next, VerifyAndRelease, VerifyForRenewal, vars
<1>3. Inv => KeyFollowsVerdict
  BY DEF KeyFollowsVerdict, Verdict
<1> QED
  BY <1>1, <1>2, <1>3, PTL DEF Spec

-----------------------------------------------------------------------------
(* Requirements only restrict, and claims decide nothing.                    *)

\* The gates that all pass, without the list they are reported in.
Gates(r, renewal) ==
    /\ r.k.pinned
    /\ ChannelBinding(r.k, r.e)
    /\ r.e.platform \in r.m.platforms
    /\ r.e.tier = r.m.tier
    /\ ServingImage(r.m, r.e, r.world.now)
    /\ Gpu(r.k, r.m, r.e)
    /\ MemoryFingerprint(r.k, r.m, r.e)
    /\ PlatformIntegrity(r.k, r.m, r.e)
    /\ PlatformInstance(r.k, r.m, r.e)
    /\ AttestationRevocation(r.k, r.m, r.e, r.world.ocsp, renewal)
    /\ CpuQuoteVerified(r.k, r.m, r.e)
    /\ GpuReportVerified(r.k, r.m, r.e)
    /\ r.k.hasKey

LEMMA AllPassedIsGates ==
    ASSUME NEW r, NEW renewal
    PROVE  AllPassed(Checks(r, renewal)) <=> Gates(r, renewal)
<1> DEFINE c == Checks(r, renewal)
<1>1. /\ c[1] = Check("nonce_fresh", TRUE)
      /\ c[2] = Check("manifest_authorized", r.k.pinned)
      /\ c[3] = Check("channel_binding", ChannelBinding(r.k, r.e))
      /\ c[4] = Check("cpu_platform_allowed", r.e.platform \in r.m.platforms)
      /\ c[5] = Check("assurance_tier", r.e.tier = r.m.tier)
      /\ c[6] = Check("serving_image", ServingImage(r.m, r.e, r.world.now))
      /\ c[7] = Check("gpu", Gpu(r.k, r.m, r.e))
      /\ c[8] = Check("memory_fingerprint", MemoryFingerprint(r.k, r.m, r.e))
      /\ c[9] = Check("platform_integrity", PlatformIntegrity(r.k, r.m, r.e))
      /\ c[10] = Check("platform_instance_allowed", PlatformInstance(r.k, r.m, r.e))
      /\ c[11] = Check("attestation_revocation",
                       AttestationRevocation(r.k, r.m, r.e, r.world.ocsp, renewal))
      /\ c[12] = Check("cpu_quote_verified", CpuQuoteVerified(r.k, r.m, r.e))
      /\ c[13] = Check("gpu_report_verified", GpuReportVerified(r.k, r.m, r.e))
      /\ c[14] = Check("key_available", r.k.hasKey)
  BY DEF Checks
<1>2. /\ c[1].passed
      /\ c[2].passed <=> r.k.pinned
      /\ c[3].passed <=> ChannelBinding(r.k, r.e)
      /\ c[4].passed <=> r.e.platform \in r.m.platforms
      /\ c[5].passed <=> (r.e.tier = r.m.tier)
      /\ c[6].passed <=> ServingImage(r.m, r.e, r.world.now)
      /\ c[7].passed <=> Gpu(r.k, r.m, r.e)
  <2>1. c[1].passed
    BY <1>1 DEF Check
  <2>2. c[2].passed <=> r.k.pinned
    BY <1>1 DEF Check
  <2>3. c[3].passed <=> ChannelBinding(r.k, r.e)
    BY <1>1 DEF Check
  <2>4. c[4].passed <=> r.e.platform \in r.m.platforms
    <3>1. c[4].passed = (r.e.platform \in r.m.platforms)
      BY <1>1 DEF Check
    <3> HIDE DEF c
    <3> QED BY <3>1, Zenon
  <2>5. c[5].passed <=> (r.e.tier = r.m.tier)
    <3>1. c[5].passed = (r.e.tier = r.m.tier)
      BY <1>1 DEF Check
    <3> HIDE DEF c
    <3> QED BY <3>1, Zenon
  <2>6. c[6].passed <=> ServingImage(r.m, r.e, r.world.now)
    BY <1>1 DEF Check
  <2>7. c[7].passed <=> Gpu(r.k, r.m, r.e)
    BY <1>1 DEF Check
  <2> QED BY <2>1, <2>2, <2>3, <2>4, <2>5, <2>6, <2>7
<1>3. /\ c[8].passed <=> MemoryFingerprint(r.k, r.m, r.e)
      /\ c[9].passed <=> PlatformIntegrity(r.k, r.m, r.e)
      /\ c[10].passed <=> PlatformInstance(r.k, r.m, r.e)
      /\ c[11].passed <=> AttestationRevocation(r.k, r.m, r.e, r.world.ocsp, renewal)
      /\ c[12].passed <=> CpuQuoteVerified(r.k, r.m, r.e)
      /\ c[13].passed <=> GpuReportVerified(r.k, r.m, r.e)
      /\ c[14].passed <=> r.k.hasKey
  BY <1>1 DEF Check
<1>4. AllPassed(c) <=> \A i \in 1 .. 14 : c[i].passed
  BY ChecksAreFourteen DEF AllPassed
<1>5. (\A i \in 1 .. 14 : c[i].passed) <=>
        /\ c[1].passed /\ c[2].passed /\ c[3].passed /\ c[4].passed /\ c[5].passed
        /\ c[6].passed /\ c[7].passed /\ c[8].passed /\ c[9].passed /\ c[10].passed
        /\ c[11].passed /\ c[12].passed /\ c[13].passed /\ c[14].passed
  <2> HIDE DEF c
  <2> QED OBVIOUS
<1> HIDE DEF c
<1> SUFFICES AllPassed(c) <=> Gates(r, renewal)
  BY DEF c
<1>6. AllPassed(c) => Gates(r, renewal)
  BY <1>2, <1>3, <1>4, <1>5, Zenon DEF Gates
<1>7. Gates(r, renewal) => AllPassed(c)
  BY <1>2, <1>3, <1>4, <1>5, Zenon DEF Gates
<1> QED BY <1>6, <1>7

\* The verdict, from the gates and the transport key alone.
LEMMA ReleasedIsGates ==
    ASSUME NEW r, NEW renewal
    PROVE  Decide(r, renewal).released <=>
             Gates(r, renewal) /\ ~(r.k.requireChannel /\ r.e.transport \in LowOrder)
<1> DEFINE c == Checks(r, renewal)
           d == Decide(r, renewal)
<1>1. AllPassed(c) <=> Gates(r, renewal)
  BY AllPassedIsGates
<1>2. \A x : Refusal(x).released = FALSE
  BY RefusalFields
<1>3. \A x, y, z : Answer(TRUE, x, y, z).released = TRUE
  BY AnswerFields
<1>4. CASE ~AllPassed(c) /\ d = Refusal(c)
  BY <1>1, <1>2, <1>4
<1>5. CASE /\ AllPassed(c) /\ r.k.requireChannel /\ r.e.transport \in LowOrder
           /\ d = Refusal(Append(c, Check("key_sealed", FALSE)))
  BY <1>1, <1>2, <1>5
<1>6. CASE /\ AllPassed(c) /\ r.k.requireChannel /\ r.e.transport \notin LowOrder
           /\ d = Answer(TRUE, c, FALSE, r.e.transport)
  BY <1>1, <1>3, <1>6
<1>7. CASE AllPassed(c) /\ ~r.k.requireChannel /\ d = Answer(TRUE, c, TRUE, None)
  BY <1>1, <1>3, <1>7
<1> QED BY <1>4, <1>5, <1>6, <1>7, DecideCases

\* Every requirement of l is one of r, and they differ in nothing else.
Laxer(l, r) ==
    /\ l.e = r.e /\ l.world = r.world
    /\ l.k.pinned = r.k.pinned /\ l.k.hasKey = r.k.hasKey
    /\ l.k.cpuVerifier = r.k.cpuVerifier /\ l.k.gpuVerifier = r.k.gpuVerifier
    /\ l.k.sweepKey = r.k.sweepKey /\ l.k.revoked = r.k.revoked
    /\ l.k.maxCacheAge = r.k.maxCacheAge
    /\ l.k.requireCpu => r.k.requireCpu
    /\ l.k.requireGpu => r.k.requireGpu
    /\ l.k.requireLaunch => r.k.requireLaunch
    /\ l.k.requireChannel => r.k.requireChannel
    /\ r.k.allowLegacySweep => l.k.allowLegacySweep
    /\ l.k.instances = None \/ l.k.instances = r.k.instances
    /\ l.k.revocationClient => r.k.revocationClient
    /\ l.m.platforms = r.m.platforms /\ l.m.tier = r.m.tier
    /\ l.m.accepted = r.m.accepted
    /\ l.m.sweepRequired => r.m.sweepRequired
    /\ r.m.waivesVerification => l.m.waivesVerification
    /\ l.m.needAlias => r.m.needAlias
    /\ l.m.needHiding => r.m.needHiding
    /\ l.m.revocationCheck => r.m.revocationCheck
    /\ \/ l.m.gpu = None
       \/ /\ r.m.gpu # None
          /\ l.m.gpu.rimPin = r.m.gpu.rimPin
          /\ r.m.gpu.waivesCcMode => l.m.gpu.waivesCcMode

\* Each gate that passes still passes with laxer requirements. The platform gates read
\* the report that the quote check authenticated, which is the same in both.
LEMMA LaxerPasses ==
    ASSUME NEW l, NEW r, NEW renewal, Laxer(l, r), Gates(r, renewal)
    PROVE  Gates(l, renewal)
<1>1. CpuQuoteVerified(l.k, l.m, l.e)
  BY DEF Laxer, Gates, CpuQuoteVerified, QuoteVerifies
<1>2. GpuReportVerified(l.k, l.m, l.e)
  BY DEF Laxer, Gates, GpuReportVerified
<1>3. VerifiedReport(l.k, l.m, l.e) = VerifiedReport(r.k, r.m, r.e)
  BY <1>1 DEF Laxer, Gates, VerifiedReport
<1>4. GpuVerified(l.k, l.m, l.e) <=> GpuVerified(r.k, r.m, r.e)
  BY <1>2 DEF Laxer, Gates, GpuVerified
<1>5. Gpu(l.k, l.m, l.e)
  BY <1>4 DEF Laxer, Gates, Gpu
<1>6. ChannelBinding(l.k, l.e)
  BY DEF Laxer, Gates, ChannelBinding
<1>7. MemoryFingerprint(l.k, l.m, l.e)
  BY DEF Laxer, Gates, MemoryFingerprint
<1>8. PlatformIntegrity(l.k, l.m, l.e)
  BY <1>3 DEF Laxer, Gates, PlatformIntegrity
<1>9. PlatformInstance(l.k, l.m, l.e)
  BY <1>3 DEF Laxer, Gates, PlatformInstance
<1>10. AttestationRevocation(l.k, l.m, l.e, l.world.ocsp, renewal)
  BY DEF Laxer, Gates, AttestationRevocation
<1>11. ServingImage(l.m, l.e, l.world.now)
  BY DEF Laxer, Gates, ServingImage
<1>12. l.k.pinned /\ l.k.hasKey /\ l.e.platform \in l.m.platforms /\ l.e.tier = l.m.tier
  BY Zenon DEF Laxer, Gates
<1> QED BY <1>1, <1>2, <1>5, <1>6, <1>7, <1>8, <1>9, <1>10, <1>11, <1>12 DEF Gates

\* A field of the broker or of the manifest that is replaced leaves the others.
LEMMA BrokerExcept ==
    ASSUME NEW r \in Requests, NEW f \in BrokerFields, NEW v
    PROVE  LET l == [r EXCEPT !.k[f] = v] IN
           /\ l.m = r.m /\ l.e = r.e /\ l.world = r.world
           /\ l.k[f] = v /\ \A g \in BrokerFields \ {f} : l.k[g] = r.k[g]
BY RequestAssumption

LEMMA ManifestExcept ==
    ASSUME NEW r \in Requests, NEW f \in ManifestFields, NEW v
    PROVE  LET l == [r EXCEPT !.m[f] = v] IN
           /\ l.k = r.k /\ l.e = r.e /\ l.world = r.world
           /\ l.m[f] = v /\ \A g \in ManifestFields \ {f} : l.m[g] = r.m[g]
BY RequestAssumption

\* Dropping one requirement is laxer.
LEMMA RelaxedIsLaxer ==
    ASSUME NEW r \in Requests, NEW l \in Relaxed(r)
    PROVE  Laxer(l, r)
<1>1. CASE \/ l = [r EXCEPT !.k["requireCpu"] = FALSE]
           \/ l = [r EXCEPT !.k["requireGpu"] = FALSE]
           \/ l = [r EXCEPT !.k["requireLaunch"] = FALSE]
           \/ l = [r EXCEPT !.k["requireChannel"] = FALSE]
           \/ l = [r EXCEPT !.k["allowLegacySweep"] = TRUE]
           \/ l = [r EXCEPT !.k["instances"] = None]
           \/ l = [r EXCEPT !.k["revocationClient"] = FALSE]
  <2>1. PICK f \in {"requireCpu", "requireGpu", "requireLaunch", "requireChannel",
                    "allowLegacySweep", "instances", "revocationClient"},
             v \in {TRUE, FALSE, None} :
          /\ l = [r EXCEPT !.k[f] = v]
          /\ f = "allowLegacySweep" => v = TRUE
          /\ f = "instances" => v = None
          /\ f \notin {"allowLegacySweep", "instances"} => v = FALSE
    BY <1>1
  <2>2. f \in BrokerFields
    BY DEF BrokerFields
  <2>3. /\ l.m = r.m /\ l.e = r.e /\ l.world = r.world
        /\ l.k[f] = v /\ \A g \in BrokerFields \ {f} : l.k[g] = r.k[g]
    BY <2>1, <2>2, BrokerExcept
  <2> QED BY <2>1, <2>3 DEF Laxer, BrokerFields
<1>2. CASE \/ l = [r EXCEPT !.m["sweepRequired"] = FALSE]
           \/ l = [r EXCEPT !.m["waivesVerification"] = TRUE]
           \/ l = [r EXCEPT !.m["needAlias"] = FALSE]
           \/ l = [r EXCEPT !.m["needHiding"] = FALSE]
           \/ l = [r EXCEPT !.m["revocationCheck"] = FALSE]
           \/ l = [r EXCEPT !.m["gpu"] = None]
  <2>1. PICK f \in {"sweepRequired", "waivesVerification", "needAlias", "needHiding",
                    "revocationCheck", "gpu"},
             v \in {TRUE, FALSE, None} :
          /\ l = [r EXCEPT !.m[f] = v]
          /\ f = "waivesVerification" => v = TRUE
          /\ f = "gpu" => v = None
          /\ f \notin {"waivesVerification", "gpu"} => v = FALSE
    BY <1>2
  <2>2. f \in ManifestFields
    BY DEF ManifestFields
  <2>3. /\ l.k = r.k /\ l.e = r.e /\ l.world = r.world
        /\ l.m[f] = v /\ \A g \in ManifestFields \ {f} : l.m[g] = r.m[g]
    BY <2>1, <2>2, ManifestExcept
  <2> QED BY <2>1, <2>3 DEF Laxer, ManifestFields
<1>3. CASE r.m.gpu # None /\ l = [r EXCEPT !.m.gpu.waivesCcMode = TRUE]
  <2> DEFINE g == [r.m.gpu EXCEPT !["waivesCcMode"] = TRUE]
  <2>1. l = [r EXCEPT !.m["gpu"] = g]
    BY <1>3
  <2>2. /\ l.k = r.k /\ l.e = r.e /\ l.world = r.world
        /\ l.m["gpu"] = g /\ \A h \in ManifestFields \ {"gpu"} : l.m[h] = r.m[h]
    <3> HIDE DEF g
    <3>1. "gpu" \in ManifestFields
      BY DEF ManifestFields
    <3> QED BY <2>1, <3>1, ManifestExcept
  <2>3. DOMAIN r.m.gpu = {"rimPin", "waivesCcMode"}
    BY <1>3, RequestAssumption
  <2>4. g.rimPin = r.m.gpu.rimPin /\ g.waivesCcMode = TRUE
    BY <2>3
  <2> HIDE DEF g
  <2> QED BY <1>3, <2>2, <2>4 DEF Laxer, ManifestFields
<1> QED BY <1>1, <1>2, <1>3 DEF Relaxed

\* What the gate remembers of the call it answers.
AnswerInv ==
    /\ request # None => request.input \in Requests
    /\ Released => /\ request.input \in Requests
                   /\ Decide(request.input, request.renewal).released
                   /\ decision.checks = Checks(request.input, request.renewal)

LEMMA ReleasedChecks ==
    ASSUME NEW r, NEW renewal, Decide(r, renewal).released
    PROVE  Decide(r, renewal).checks = Checks(r, renewal)
<1> DEFINE c == Checks(r, renewal)
           d == Decide(r, renewal)
<1>1. \A x : Refusal(x).released = FALSE
  BY RefusalFields
<1>3. ASSUME NEW x, d = Refusal(x) PROVE FALSE
  BY <1>1, <1>3
<1>4. ASSUME NEW y, NEW z, d = Answer(TRUE, c, y, z) PROVE d.checks = c
  BY <1>4 DEF Answer
<1> QED BY <1>3, <1>4, DecideCases

LEMMA AnswerInductive == AnswerInv /\ [Next]_vars => AnswerInv'
<1> SUFFICES ASSUME AnswerInv, [Next]_vars PROVE AnswerInv'
  OBVIOUS
<1>1. CASE UNCHANGED <<request, decision>>
  BY <1>1 DEF AnswerInv, Released
<1>2. ASSUME NEW r \in Requests, NEW renewal \in BOOLEAN, Gate(r, renewal)
      PROVE  AnswerInv'
  <2>1. request'.input = r /\ request'.renewal = renewal
    BY <1>2 DEF Gate, Asked
  <2>2. CASE RefuseInput(r, renewal) \/ RefuseNonce(r, renewal)
    <3>1. decision' # None => decision'.released = FALSE
      BY <2>2, RefusedEarly, Zenon
    <3> QED BY <2>1, <3>1 DEF AnswerInv, Released
  <2>3. CASE RunChecks(r, renewal)
    <3>1. CASE renewal = TRUE
      <4> DEFINE d == Decide(r, TRUE)
      <4>1. decision' = Keyless(d)
        BY <2>3, <3>1 DEF RunChecks
      <4>2. decision'.released = d.released /\ decision'.checks = d.checks
        BY <4>1, KeylessFields
      <4>3. d.released => d.checks = Checks(r, TRUE)
        BY ReleasedChecks
      <4> HIDE DEF d
      <4>4. Released' => d.released /\ decision'.checks = Checks(r, TRUE)
        BY <4>2, <4>3 DEF Released
      <4> QED BY <2>1, <3>1, <4>4 DEF AnswerInv, d
    <3>2. CASE renewal = FALSE
      <4>1. decision' = Decide(r, FALSE)
        BY <2>3, <3>2 DEF RunChecks
      <4>2. Released' => Decide(r, FALSE).released /\ decision'.checks = Checks(r, FALSE)
        BY <4>1, ReleasedChecks DEF Released
      <4> QED BY <2>1, <3>2, <4>2 DEF AnswerInv
    <3> QED BY <3>1, <3>2
  <2> QED BY <1>2, <2>2, <2>3 DEF Gate
<1>3. ASSUME NEW n \in Nonces, IssueChallenge(n) \/ ChallengeExpires(n)
      PROVE  UNCHANGED <<request, decision>>
  BY <1>3 DEF IssueChallenge, ChallengeExpires
<1>4. CASE Return
  BY <1>4 DEF Return, AnswerInv, Released
<1> QED
  BY <1>1, <1>2, <1>3, <1>4 DEF Next, VerifyAndRelease, VerifyForRenewal, vars

LEMMA AnswersHold == Spec => []AnswerInv
<1>1. Init => AnswerInv
  BY DEF Init, AnswerInv, Released
<1> QED BY <1>1, AnswerInductive, PTL DEF Spec

\* For every broker, manifest and evidence, what the gate releases it still releases with
\* any one requirement dropped: none of them opens a path around the others.
THEOREM RequirementsRestrict == Spec => []RequirementsOnlyRestrict
<1>1. AnswerInv => RequirementsOnlyRestrict
  <2> SUFFICES ASSUME AnswerInv, Released, NEW l \in Relaxed(request.input)
               PROVE  Outcome(l)
    BY DEF RequirementsOnlyRestrict
  <2> DEFINE r == request.input
  <2>1. r \in Requests /\ Decide(r, request.renewal).released
    BY DEF AnswerInv
  <2>2. Gates(r, request.renewal) /\ ~(r.k.requireChannel /\ r.e.transport \in LowOrder)
    BY <2>1, ReleasedIsGates
  <2>3. Laxer(l, r)
    BY <2>1, RelaxedIsLaxer
  <2>4. Gates(l, request.renewal)
    BY <2>2, <2>3, LaxerPasses
  <2>5. ~(l.k.requireChannel /\ l.e.transport \in LowOrder)
    BY <2>2, <2>3 DEF Laxer
  <2> QED BY <2>4, <2>5, ReleasedIsGates DEF Outcome
<1> QED BY <1>1, AnswersHold, PTL

-----------------------------------------------------------------------------
(* What the evidence claims about itself.                                    *)

\* The evidence of a request with another field in its GPU report.
LEMMA GpuExcept ==
    ASSUME NEW r \in Requests, r.e.gpu # None,
           NEW f \in {"nonce", "measurement", "ccMode", "quote"}, NEW v
    PROVE  LET l == [r EXCEPT !.e.gpu[f] = v] IN
           /\ l.k = r.k /\ l.m = r.m /\ l.world = r.world
           /\ \A g \in EvidenceFields \ {"gpu"} : l.e[g] = r.e[g]
           /\ l.e.gpu[f] = v
           /\ \A g \in {"nonce", "measurement", "ccMode", "quote"} \ {f} : l.e.gpu[g] = r.e.gpu[g]
BY RequestAssumption DEF EvidenceFields

\* Two requests that differ at most in what the GPU report claims.
SameButClaims(l, r) ==
    /\ l.k = r.k /\ l.m = r.m /\ l.world = r.world
    /\ \A g \in EvidenceFields \ {"gpu"} : l.e[g] = r.e[g]
    /\ l.e.gpu # None /\ r.e.gpu # None
    /\ l.e.gpu.nonce = r.e.gpu.nonce /\ l.e.gpu.quote = r.e.gpu.quote

\* Only the GPU gate reads the claims.
LEMMA OnlyGpuReadsClaims ==
    ASSUME NEW l, NEW r, NEW renewal, SameButClaims(l, r), Gates(r, renewal)
    PROVE  /\ Gpu(l.k, l.m, l.e) => Gates(l, renewal)
           /\ GpuVerified(l.k, l.m, l.e) <=> GpuVerified(r.k, r.m, r.e)
<1>1. /\ l.e.transport = r.e.transport /\ l.e.platform = r.e.platform /\ l.e.tier = r.e.tier
      /\ l.e.image = r.e.image /\ l.e.quote = r.e.quote /\ l.e.nonce = r.e.nonce
      /\ l.e.sweep = r.e.sweep /\ l.e.keyId = r.e.keyId /\ l.e.cacheAge = r.e.cacheAge
  BY DEF SameButClaims, EvidenceFields
<1>2. /\ l.k = r.k /\ l.m = r.m /\ l.world = r.world /\ l.e.gpu # None /\ r.e.gpu # None
      /\ l.e.gpu.nonce = r.e.gpu.nonce /\ l.e.gpu.quote = r.e.gpu.quote
  BY DEF SameButClaims
<1>3. CpuQuoteVerified(l.k, l.m, l.e)
  BY <1>1, <1>2 DEF Gates, CpuQuoteVerified, Binding
<1>4. VerifiedReport(l.k, l.m, l.e) = VerifiedReport(r.k, r.m, r.e)
  BY <1>1, <1>2, <1>3 DEF Gates, VerifiedReport
<1>5. GpuReportVerified(l.k, l.m, l.e)
  BY <1>1, <1>2 DEF Gates, GpuReportVerified
<1>6. GpuVerified(l.k, l.m, l.e) <=> GpuVerified(r.k, r.m, r.e)
  BY <1>2, <1>5 DEF Gates, GpuVerified
<1>7. /\ ChannelBinding(l.k, l.e) /\ l.e.platform \in l.m.platforms
      /\ l.e.tier = l.m.tier /\ l.k.pinned /\ l.k.hasKey
  BY <1>1, <1>2 DEF Gates, ChannelBinding
<1>8. ServingImage(l.m, l.e, l.world.now)
  BY <1>1, <1>2 DEF Gates, ServingImage
<1>9. MemoryFingerprint(l.k, l.m, l.e)
  BY <1>1, <1>2 DEF Gates, MemoryFingerprint
<1>10. PlatformIntegrity(l.k, l.m, l.e) /\ PlatformInstance(l.k, l.m, l.e)
  BY <1>1, <1>2, <1>4 DEF Gates, PlatformIntegrity, PlatformInstance
<1>11. AttestationRevocation(l.k, l.m, l.e, l.world.ocsp, renewal)
  BY <1>1, <1>2 DEF Gates, AttestationRevocation
<1> QED BY <1>3, <1>5, <1>6, <1>7, <1>8, <1>9, <1>10, <1>11 DEF Gates

\* With a GPU verifier the claimed measurement is not read unless the report failed, and
\* then the gate refuses in any case.
LEMMA ClaimIsNotRead ==
    ASSUME NEW l, NEW r, NEW renewal, SameButClaims(l, r), r.k.gpuVerifier,
           l.e.gpu.ccMode = r.e.gpu.ccMode, Gates(r, renewal)
    PROVE  Gates(l, renewal)
<1>1. GpuVerified(r.k, r.m, r.e)
  BY DEF Gates, GpuVerified, SameButClaims
<1>2. l.e.nonce = r.e.nonce
  BY DEF SameButClaims, EvidenceFields
<1>3. Gpu(l.k, l.m, l.e)
  BY <1>1, <1>2, OnlyGpuReadsClaims DEF Gates, Gpu, SameButClaims
<1> QED BY <1>3, OnlyGpuReadsClaims

\* A mode that is not claimed passes wherever a claimed one does.
LEMMA ModeIsNoKey ==
    ASSUME NEW l, NEW r, NEW renewal, SameButClaims(l, r),
           l.e.gpu.measurement = r.e.gpu.measurement, l.e.gpu.ccMode # FALSE,
           Gates(r, renewal)
    PROVE  Gates(l, renewal)
<1>1. l.e.nonce = r.e.nonce
  BY DEF SameButClaims, EvidenceFields
<1>2. Gpu(l.k, l.m, l.e)
  BY <1>1, OnlyGpuReadsClaims DEF Gates, Gpu, SameButClaims
<1> QED BY <1>2, OnlyGpuReadsClaims

\* What the requester claims of its GPU never releases: the measurement decides nothing
\* once there is a verifier, and no claimed mode does better than none.
THEOREM ClaimsDoNotRelease == Spec => []ClaimsCannotRelease
<1>1. AnswerInv => ClaimsCannotRelease
  <2> SUFFICES ASSUME AnswerInv, request # None, request.input.e.gpu # None
               PROVE  LET r == request.input
                      IN  /\ r.k.gpuVerifier => Outcome(WithClaim(r, Pin(r))) = Outcome(r)
                          /\ Outcome(WithCcMode(r, TRUE)) => Outcome(WithCcMode(r, None))
    BY DEF ClaimsCannotRelease
  <2> DEFINE r == request.input
             p == WithClaim(r, Pin(r))
             y == WithCcMode(r, TRUE)
             n == WithCcMode(r, None)
             b == request.renewal
  <2>1. r \in Requests
    BY DEF AnswerInv
  <2>2. p.e.gpu # None /\ y.e.gpu # None /\ n.e.gpu # None
    BY <2>1, ReportAssumption
  <2>3. /\ SameButClaims(p, r) /\ SameButClaims(r, p) /\ p.e.gpu.ccMode = r.e.gpu.ccMode
        /\ p.k = r.k /\ p.e.transport = r.e.transport
    <3>1. p = [r EXCEPT !.e.gpu["measurement"] = Pin(r)]
      BY DEF WithClaim
    <3>2. /\ p.k = r.k /\ p.m = r.m /\ p.world = r.world
          /\ \A g \in EvidenceFields \ {"gpu"} : p.e[g] = r.e[g]
          /\ \A g \in {"nonce", "ccMode", "quote"} : p.e.gpu[g] = r.e.gpu[g]
      <4> HIDE DEF p, r
      <4> QED BY <2>1, <3>1, GpuExcept, SMTT(30) DEF r
    <3> HIDE DEF p, r
    <3> QED BY <2>2, <3>2 DEF SameButClaims, EvidenceFields, r
  <2>4. ASSUME NEW v PROVE  LET w == WithCcMode(r, v) IN
        /\ w.k = r.k /\ w.m = r.m /\ w.world = r.world
        /\ \A g \in EvidenceFields \ {"gpu"} : w.e[g] = r.e[g]
        /\ w.e.gpu.nonce = r.e.gpu.nonce /\ w.e.gpu.quote = r.e.gpu.quote
        /\ w.e.gpu.measurement = r.e.gpu.measurement /\ w.e.gpu.ccMode = v
    <3> DEFINE w == WithCcMode(r, v)
    <3>1. w = [r EXCEPT !.e.gpu["ccMode"] = v]
      BY DEF WithCcMode
    <3> HIDE DEF w, r
    <3>2. /\ w.k = r.k /\ w.m = r.m /\ w.world = r.world
          /\ \A g \in EvidenceFields \ {"gpu"} : w.e[g] = r.e[g]
          /\ \A g \in {"nonce", "measurement", "quote"} : w.e.gpu[g] = r.e.gpu[g]
          /\ w.e.gpu["ccMode"] = v
      BY <2>1, <3>1, GpuExcept, SMTT(30) DEF r
    <3> QED BY <3>2 DEF w
  <2>5. /\ SameButClaims(n, y) /\ n.e.gpu.measurement = y.e.gpu.measurement
        /\ n.e.gpu.ccMode # FALSE /\ n.k = y.k /\ n.e.transport = y.e.transport
    <3>1. None # FALSE
      BY GateAssumption
    <3>2. /\ y.k = r.k /\ y.m = r.m /\ y.world = r.world
          /\ \A g \in EvidenceFields \ {"gpu"} : y.e[g] = r.e[g]
          /\ y.e.gpu.nonce = r.e.gpu.nonce /\ y.e.gpu.quote = r.e.gpu.quote
          /\ y.e.gpu.measurement = r.e.gpu.measurement
      BY <2>4
    <3>3. /\ n.k = r.k /\ n.m = r.m /\ n.world = r.world
          /\ \A g \in EvidenceFields \ {"gpu"} : n.e[g] = r.e[g]
          /\ n.e.gpu.nonce = r.e.gpu.nonce /\ n.e.gpu.quote = r.e.gpu.quote
          /\ n.e.gpu.measurement = r.e.gpu.measurement /\ n.e.gpu.ccMode = None
      BY <2>4
    <3> HIDE DEF r, y, n
    <3>4. \A g \in EvidenceFields \ {"gpu"} : n.e[g] = y.e[g]
      BY <3>2, <3>3
    <3>5. n.e.transport = y.e.transport
      BY <3>4 DEF EvidenceFields
    <3> QED BY <2>2, <3>1, <3>2, <3>3, <3>4, <3>5 DEF SameButClaims
  <2> HIDE DEF p, y, n, r
  <2>6. ASSUME r.k.gpuVerifier PROVE Outcome(p) = Outcome(r)
    <3>1. Gates(p, b) <=> Gates(r, b)
      BY <2>3, <2>6, ClaimIsNotRead
    <3>2. Outcome(p) <=> Outcome(r)
      BY <2>3, <3>1, ReleasedIsGates DEF Outcome
    <3>3. Outcome(p) \in BOOLEAN /\ Outcome(r) \in BOOLEAN
      BY DecideTyped DEF Outcome
    <3> QED BY <3>2, <3>3
  <2>7. Outcome(y) => Outcome(n)
    <3>1. Gates(y, b) => Gates(n, b)
      BY <2>5, ModeIsNoKey
    <3> QED BY <2>5, <3>1, ReleasedIsGates DEF Outcome
  <2> QED BY <2>6, <2>7 DEF p, y, n, r
<1> QED BY <1>1, AnswersHold, PTL

-----------------------------------------------------------------------------
(* What a session accepts as a renewal.                                      *)

Names(r, renewal) == [i \in 1 .. 14 |-> Checks(r, renewal)[i].name]

LEMMA NamesAre ==
    ASSUME NEW r, NEW renewal
    PROVE  LET n == Names(r, renewal) IN
           /\ n[1] = "nonce_fresh" /\ n[2] = "manifest_authorized"
           /\ n[3] = "channel_binding" /\ n[4] = "cpu_platform_allowed"
           /\ n[5] = "assurance_tier" /\ n[6] = "serving_image" /\ n[7] = "gpu"
           /\ n[8] = "memory_fingerprint" /\ n[9] = "platform_integrity"
           /\ n[10] = "platform_instance_allowed" /\ n[11] = "attestation_revocation"
           /\ n[12] = "cpu_quote_verified" /\ n[13] = "gpu_report_verified"
           /\ n[14] = "key_available"
BY DEF Names, Checks, Check

LEMMA NamesAreDistinct ==
    ASSUME NEW r, NEW renewal
    PROVE  Cardinality(Range(Names(r, renewal))) = 14
<1> DEFINE n == Names(r, renewal)
<1>1. n \in [1 .. 14 -> Range(n)]
  BY DEF Names, Range
<1>2. \A i, j \in 1 .. 14 : n[i] = n[j] => i = j
  BY NamesAre
<1>3. \A x \in Range(n) : \E i \in 1 .. 14 : n[i] = x
  BY DEF Names, Range
<1> HIDE DEF n
<1>4. n \in Bijection(1 .. 14, Range(n))
  BY <1>1, <1>2, <1>3 DEF Bijection, Injection, Surjection, IsInjective
<1>5. ExistsBijection(1 .. 14, Range(n))
  BY <1>4 DEF ExistsBijection
<1> QED BY <1>5, FS_CountingElements DEF n

LEMMA NamesCover ==
    ASSUME NEW r, NEW renewal
    PROVE  RequiredRenewalChecks \subseteq Range(Names(r, renewal))
<1> DEFINE n == Names(r, renewal)
<1>1. \A i \in 1 .. 14 : n[i] \in Range(n)
  BY DEF Names, Range
<1>2. /\ n[1] = "nonce_fresh" /\ n[2] = "manifest_authorized"
      /\ n[3] = "channel_binding" /\ n[4] = "cpu_platform_allowed"
      /\ n[5] = "assurance_tier" /\ n[6] = "serving_image" /\ n[7] = "gpu"
      /\ n[8] = "memory_fingerprint" /\ n[11] = "attestation_revocation"
      /\ n[12] = "cpu_quote_verified" /\ n[13] = "gpu_report_verified"
      /\ n[14] = "key_available"
  BY NamesAre
<1> HIDE DEF n
<1>3. /\ n[1] \in Range(n) /\ n[2] \in Range(n) /\ n[3] \in Range(n) /\ n[4] \in Range(n)
      /\ n[5] \in Range(n) /\ n[6] \in Range(n) /\ n[7] \in Range(n) /\ n[8] \in Range(n)
      /\ n[11] \in Range(n) /\ n[12] \in Range(n) /\ n[13] \in Range(n) /\ n[14] \in Range(n)
  BY <1>1
<1>4. RequiredRenewalChecks \subseteq Range(n)
  BY <1>2, <1>3 DEF RequiredRenewalChecks
<1> QED BY <1>4 DEF n

\* A session never refuses a renewal because of the list it comes with: the gate names
\* every check the session demands, once, and passed.
THEOREM RenewalsAreAcceptable == Spec => []RenewalIsAcceptable
<1>1. AnswerInv => RenewalIsAcceptable
  <2> SUFFICES ASSUME AnswerInv, Released, request.renewal
               PROVE  LET names == [i \in DOMAIN decision.checks |-> decision.checks[i].name]
                      IN  /\ Cardinality(Range(names)) = Len(names)
                          /\ RequiredRenewalChecks \subseteq Range(names)
                          /\ AllPassed(decision.checks)
    BY DEF RenewalIsAcceptable
  <2> DEFINE r == request.input
             b == request.renewal
             names == [i \in DOMAIN decision.checks |-> decision.checks[i].name]
  <2>1. decision.checks = Checks(r, b) /\ Decide(r, b).released
    BY DEF AnswerInv
  <2>2. names = Names(r, b)
    <3>1. DOMAIN decision.checks = 1 .. 14
      BY <2>1, ChecksAreFourteen, Zenon
    <3> QED BY <2>1, <3>1, Zenon DEF Names
  <2>3. AllPassed(decision.checks)
    BY <2>1, PositiveAnswer
  <2>4. Len(Names(r, b)) = 14
    BY DEF Names
  <2>5. RequiredRenewalChecks \subseteq Range(Names(r, b))
    BY NamesCover
  <2>6. Cardinality(Range(Names(r, b))) = 14
    BY NamesAreDistinct
  <2> HIDE DEF names, r, b
  <2>7. Cardinality(Range(names)) = Len(names) /\ RequiredRenewalChecks \subseteq Range(names)
    BY <2>2, <2>4, <2>5, <2>6
  <2> QED BY <2>3, <2>7 DEF names
<1> QED BY <1>1, AnswersHold, PTL

=============================================================================
