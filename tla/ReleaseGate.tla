---------------------------- MODULE ReleaseGate ----------------------------
(***************************************************************************)
(* The release gate of the key broker (wcm/kbs.py): KeyBrokerService's     *)
(* verify_and_release and verify_for_renewal, check by check and in the    *)
(* order the checks are reported.                                          *)
(*                                                                         *)
(* A request is a record: the broker's configuration (k), the manifest (m),*)
(* the evidence (e), and what the world says at that moment: the clock     *)
(* (now) and the revocation responder (ocsp).  Cryptographic material is   *)
(* abstract: a quote is what its signed body says, plus whether its chain  *)
(* and signature verify (a verifier that raises is one that does not).     *)
(*                                                                         *)
(* The challenge store is seen here through the set of nonces it would     *)
(* still accept; ChallengeStore models the store itself.                   *)
(***************************************************************************)
EXTENDS Sequences, Integers, FiniteSets, Functions

CONSTANTS
    Nonces,     \* challenge nonces the broker can issue
    Requests,   \* the requests examined: records [k, m, e, world]
    Keys,       \* transport public keys that are 32 bytes of hex
    LowOrder,   \* those of them the key exchange refuses
    None,       \* an absent optional field, Python's None
    Malformed   \* a transport key, report or date that does not parse

ASSUME GateAssumption ==
    /\ LowOrder \subseteq Keys
    /\ None \notin Keys \cup Nonces
    /\ Malformed \notin Keys
    /\ None # Malformed
    /\ None # FALSE

\* The fields the gate reads of a broker, a manifest and the evidence.
BrokerFields ==
    {"pinned", "hasKey", "requireChannel", "cpuVerifier", "requireCpu", "requireLaunch",
     "gpuVerifier", "requireGpu", "sweepKey", "allowLegacySweep", "instances", "revoked",
     "maxCacheAge", "revocationClient"}

ManifestFields ==
    {"platforms", "tier", "accepted", "waivesVerification", "gpu", "sweepRequired",
     "needAlias", "needHiding", "revocationCheck"}

EvidenceFields ==
    {"canonical", "nonce", "platform", "tier", "image", "keyId", "cacheAge", "transport",
     "quote", "gpu", "sweep"}

ASSUME RequestAssumption ==
    \A r \in Requests :
        /\ DOMAIN r = {"k", "m", "e", "world"}
        /\ DOMAIN r.k = BrokerFields
        /\ DOMAIN r.m = ManifestFields
        /\ DOMAIN r.e = EvidenceFields
        /\ r.m.gpu # None => DOMAIN r.m.gpu = {"rimPin", "waivesCcMode"}
        /\ r.e.gpu # None => DOMAIN r.e.gpu = {"nonce", "measurement", "ccMode", "quote"}

VARIABLES
    issued,     \* nonces issued so far
    fresh,      \* nonces the store would still accept
    request,    \* the request being answered, None between calls
    decision,   \* what it is answered
    decided     \* nonces whose request went past the nonce gate (history)

vars == <<issued, fresh, request, decision, decided>>

----------------------------------------------------------------------------
(* The individual checks.  Each is the passed field of one CheckResult.    *)

\* bytes.fromhex and the length test; an absent key is fine when not required.
ChannelBinding(k, e) ==
    IF e.transport = None THEN ~k.requireChannel ELSE e.transport \in Keys

\* The bytes handed to the quote verifier: the key's own when it is valid.
Binding(e) == IF e.transport \in Keys THEN e.transport ELSE None

ServingImage(m, e, now) ==
    LET found == SelectSeq(m.accepted, LAMBDA a : a.image = e.image)
        match == Head(found)
    IN  /\ found # <<>>
        /\ match.status # "revoked"
        /\ match.status = "retiring" =>
              /\ match.retireAfter # Malformed
              /\ now <= match.retireAfter
              /\ \A i \in DOMAIN m.accepted : m.accepted[i].status # "current"

\* Fault: the transport key is left out of REPORT_DATA, the replay-only form.
QuoteVerifiesNonceOnly(k, q, nonce, binding, image) ==
    /\ q.trusted
    /\ q.reportData[1] = nonce
    /\ IF q.launch = None THEN ~k.requireLaunch ELSE q.launch = image

\* QuoteVerifier.verify: chain, signature, REPORT_DATA, launch measurement.
QuoteVerifies(k, q, nonce, binding, image) ==
    /\ q.trusted
    /\ q.reportData = <<nonce, binding>>
    /\ IF q.launch = None THEN ~k.requireLaunch ELSE q.launch = image

CpuQuoteVerified(k, m, e) ==
    IF ~k.cpuVerifier
    THEN ~k.requireCpu /\ m.waivesVerification
    ELSE /\ e.quote # None
         /\ QuoteVerifies(k, e.quote, e.nonce, Binding(e), e.image)

\* The SNP report a verified quote carries; None when nothing authenticated it.
VerifiedReport(k, m, e) ==
    IF k.cpuVerifier /\ CpuQuoteVerified(k, m, e) THEN e.quote.snp ELSE None

GpuReportVerified(k, m, e) ==
    \/ e.gpu = None
    \/ ~k.gpuVerifier /\ ~k.requireGpu /\ m.waivesVerification
    \/ /\ k.gpuVerifier
       /\ e.gpu.quote # None
       /\ e.gpu.quote.trusted
       /\ e.gpu.quote.nonce = e.nonce

GpuVerified(k, m, e) ==
    GpuReportVerified(k, m, e) /\ k.gpuVerifier /\ e.gpu # None

\* Fault: the pin is matched against the requester's claim.
GpuByClaim(k, m, e) ==
    \/ m.gpu = None
    \/ /\ e.gpu # None
       /\ e.gpu.nonce = e.nonce
       /\ e.gpu.measurement = m.gpu.rimPin
       /\ \/ m.gpu.waivesCcMode
          \/ e.gpu.ccMode # FALSE /\ GpuVerified(k, m, e)

\* Fault: a verified report settles the mode before the pin is compared.
GpuModeFirst(k, m, e) ==
    \/ m.gpu = None
    \/ /\ e.gpu # None
       /\ e.gpu.nonce = e.nonce
       /\ \/ ~m.gpu.waivesCcMode /\ e.gpu.ccMode # FALSE /\ GpuVerified(k, m, e)
          \/ m.gpu.waivesCcMode /\ IF GpuVerified(k, m, e)
                                   THEN e.gpu.quote.measurement = m.gpu.rimPin
                                   ELSE e.gpu.measurement = m.gpu.rimPin

Gpu(k, m, e) ==
    \/ m.gpu = None
    \/ /\ e.gpu # None
       /\ e.gpu.nonce = e.nonce
       /\ IF GpuVerified(k, m, e)
          THEN e.gpu.quote.measurement = m.gpu.rimPin
          ELSE e.gpu.measurement = m.gpu.rimPin
       /\ \/ m.gpu.waivesCcMode
          \/ e.gpu.ccMode # FALSE /\ GpuVerified(k, m, e)

\* verify_memory_sweep: the whole declared range, signed by the pinned key.
SweepVerifies(sweep) == sweep.complete /\ sweep.signed

MemoryFingerprint(k, m, e) ==
    m.sweepRequired =>
        /\ e.sweep # None
        /\ e.sweep.nonce = e.nonce
        /\ ~e.sweep.aliasing
        /\ IF k.sweepKey THEN SweepVerifies(e.sweep) ELSE k.allowLegacySweep

\* PLATFORM_INFO, read from the authenticated report only.  A report older
\* than version 3 has no alias bit (None), which does not satisfy it.
PlatformIntegrity(k, m, e) ==
    LET report == VerifiedReport(k, m, e)
    IN  m.needAlias \/ m.needHiding =>
            /\ e.platform = "amd-sev-snp"
            /\ report \notin {None, Malformed}
            /\ m.needAlias  => report.alias = TRUE
            /\ m.needHiding => report.hiding

\* CHIP_ID, from the authenticated report only; a masked one (None) is refused.
PlatformInstance(k, m, e) ==
    LET report == VerifiedReport(k, m, e)
    IN  k.instances # None =>
            /\ e.platform = "amd-sev-snp"
            /\ report \notin {None, Malformed}
            /\ report.chip # None
            /\ report.chip \in k.instances

\* Only a renewal may rest on an answer the responder gave earlier.
ResponderPasses(ocsp, renewal) == ocsp = "good" \/ (ocsp = "outage" /\ renewal)

AttestationRevocation(k, m, e, ocsp, renewal) ==
    m.revocationCheck =>
        /\ e.keyId \notin k.revoked
        /\ e.cacheAge <= k.maxCacheAge
        /\ k.revocationClient =>
              /\ e.gpu # None
              /\ e.gpu.quote # None
              /\ e.gpu.quote.chainReadable
              /\ ResponderPasses(ocsp, renewal)

----------------------------------------------------------------------------
(* The decision.                                                           *)

Check(name, passed) == [name |-> name, passed |-> passed]

\* Fault: a gate the manifest does not ask for is left out of the list.
ChecksAsRequired(r, renewal) ==
    LET k == r.k  m == r.m  e == r.e
        sweep == IF m.sweepRequired
                 THEN <<Check("memory_fingerprint", MemoryFingerprint(k, m, e))>>
                 ELSE <<>>
    IN  << Check("nonce_fresh", TRUE),
           Check("manifest_authorized", k.pinned),
           Check("channel_binding", ChannelBinding(k, e)),
           Check("cpu_platform_allowed", e.platform \in m.platforms),
           Check("assurance_tier", e.tier = m.tier),
           Check("serving_image", ServingImage(m, e, r.world.now)),
           Check("gpu", Gpu(k, m, e)),
           Check("platform_integrity", PlatformIntegrity(k, m, e)),
           Check("platform_instance_allowed", PlatformInstance(k, m, e)),
           Check("attestation_revocation",
                 AttestationRevocation(k, m, e, r.world.ocsp, renewal)),
           Check("cpu_quote_verified", CpuQuoteVerified(k, m, e)),
           Check("gpu_report_verified", GpuReportVerified(k, m, e)),
           Check("key_available", k.hasKey) >> \o sweep

\* Everything after the nonce gate, in the order the decision reports it.
Checks(r, renewal) ==
    LET k == r.k  m == r.m  e == r.e
    IN  << Check("nonce_fresh", TRUE),
           Check("manifest_authorized", k.pinned),
           Check("channel_binding", ChannelBinding(k, e)),
           Check("cpu_platform_allowed", e.platform \in m.platforms),
           Check("assurance_tier", e.tier = m.tier),
           Check("serving_image", ServingImage(m, e, r.world.now)),
           Check("gpu", Gpu(k, m, e)),
           Check("memory_fingerprint", MemoryFingerprint(k, m, e)),
           Check("platform_integrity", PlatformIntegrity(k, m, e)),
           Check("platform_instance_allowed", PlatformInstance(k, m, e)),
           Check("attestation_revocation",
                 AttestationRevocation(k, m, e, r.world.ocsp, renewal)),
           Check("cpu_quote_verified", CpuQuoteVerified(k, m, e)),
           Check("gpu_report_verified", GpuReportVerified(k, m, e)),
           Check("key_available", k.hasKey) >>

AllPassed(checks) == \A i \in DOMAIN checks : checks[i].passed

Answer(released, checks, inClear, sealedTo) ==
    [released |-> released, checks |-> checks,
     inClear |-> inClear, sealedTo |-> sealedTo]

Refusal(checks) == Answer(FALSE, checks, FALSE, None)

\* A renewal decision is signed without the key.
Keyless(answer) == [answer EXCEPT !.inClear = FALSE, !.sealedTo = None]

\* Fault: the failed sealing leaves the key in the answer.
SealedOrClear(checks, transport) ==
    IF transport \in LowOrder
    THEN Answer(FALSE, Append(checks, Check("key_sealed", FALSE)), TRUE, None)
    ELSE Answer(TRUE, checks, FALSE, transport)

\* seal_to_public_key: a low-order point is refused, and then nothing leaves.
Sealed(checks, transport) ==
    IF transport \in LowOrder
    THEN Refusal(Append(checks, Check("key_sealed", FALSE)))
    ELSE Answer(TRUE, checks, FALSE, transport)

Decide(r, renewal) ==
    LET checks == Checks(r, renewal)
    IN  CASE ~AllPassed(checks)  -> Refusal(checks)
          [] AllPassed(checks) /\ r.k.requireChannel ->
                Sealed(checks, r.e.transport)
          [] AllPassed(checks) /\ ~r.k.requireChannel ->
                Answer(TRUE, checks, TRUE, None)

----------------------------------------------------------------------------
(* The broker.                                                             *)

Init ==
    /\ issued = {}
    /\ fresh = {}
    /\ request = None
    /\ decision = None
    /\ decided = {}

IssueChallenge(n) ==
    /\ n \notin issued
    /\ issued' = issued \cup {n}
    /\ fresh' = fresh \cup {n}
    /\ UNCHANGED <<request, decision, decided>>

\* A challenge passes its TTL unused.
ChallengeExpires(n) ==
    /\ n \in fresh
    /\ fresh' = fresh \ {n}
    /\ UNCHANGED <<issued, request, decision, decided>>

Asked(r, renewal) == [input |-> r, renewal |-> renewal]

\* An input that does not canonicalize is refused before the nonce is touched;
\* verify_for_renewal then raises and returns no decision.
RefuseInput(r, renewal) ==
    /\ ~r.e.canonical
    /\ decision' = IF renewal THEN None
                   ELSE Refusal(<<Check("input_canonical", FALSE)>>)
    /\ UNCHANGED <<fresh, decided>>

RefuseNonce(r, renewal) ==
    /\ r.e.canonical
    /\ r.e.nonce \notin fresh
    /\ decision' = Refusal(<<Check("nonce_fresh", FALSE)>>)
    /\ UNCHANGED <<fresh, decided>>

\* Fault: only a success spends the nonce.
RunChecksSpendOnSuccess(r, renewal) ==
    /\ r.e.canonical
    /\ r.e.nonce \in fresh
    /\ decided' = decided \cup {r.e.nonce}
    /\ decision' = IF renewal THEN Keyless(Decide(r, TRUE)) ELSE Decide(r, FALSE)
    /\ fresh' = IF decision'.released THEN fresh \ {r.e.nonce} ELSE fresh

\* consume() drops the nonce before any other check is made.
RunChecks(r, renewal) ==
    /\ r.e.canonical
    /\ r.e.nonce \in fresh
    /\ fresh' = fresh \ {r.e.nonce}
    /\ decided' = decided \cup {r.e.nonce}
    /\ decision' = IF renewal THEN Keyless(Decide(r, TRUE)) ELSE Decide(r, FALSE)

\* Calls share nothing but the store, so one at a time is enough.
Gate(r, renewal) ==
    /\ request = None
    /\ request' = Asked(r, renewal)
    /\ RefuseInput(r, renewal) \/ RefuseNonce(r, renewal) \/ RunChecks(r, renewal)
    /\ UNCHANGED issued

VerifyAndRelease(r) == Gate(r, FALSE)

VerifyForRenewal(r) == Gate(r, TRUE)

\* The decision goes to the caller and the broker keeps nothing of it.
Return ==
    /\ request # None
    /\ request' = None
    /\ decision' = None
    /\ UNCHANGED <<issued, fresh, decided>>

Next ==
    \/ \E n \in Nonces : IssueChallenge(n) \/ ChallengeExpires(n)
    \/ /\ request = None
       /\ \E r \in Requests : VerifyAndRelease(r) \/ VerifyForRenewal(r)
    \/ Return

Spec == Init /\ [][Next]_vars

----------------------------------------------------------------------------
(* Properties.                                                             *)

Released == decision # None /\ decision.released

\* The gate's bookkeeping: a nonce is spent by the request that passes it.
TypeOK ==
    /\ fresh \subseteq issued
    /\ issued \subseteq Nonces
    /\ decided \subseteq issued \ fresh
    /\ decision # None => /\ decision.released \in BOOLEAN
                          /\ decision.inClear \in BOOLEAN
                          /\ decision.sealedTo \in Keys \cup {None}

\* verify_and_release: "a failed attempt cannot be retried with the same nonce".
\* A request that went past the nonce gate, whatever its outcome, leaves no
\* later request of the same nonce that releases or renews.
FailedAttemptIsFinal ==
    [][request' # request /\ Released'
         => request'.input.e.nonce \notin decided]_vars

\* A key leaves exactly with a positive answer to a release: a refusal carries
\* neither form of it, a renewal carries neither, and a broker that requires
\* channel binding never answers in the clear, a failed sealing included.
KeyFollowsVerdict ==
    decision # None =>
        /\ decision.released = AllPassed(decision.checks)
        /\ (decision.inClear \/ decision.sealedTo # None)
             <=> (decision.released /\ ~request.renewal)
        /\ request.input.k.requireChannel => ~decision.inClear
        /\ decision.sealedTo \notin LowOrder

\* The two parties that may give up quote verification together.
VerificationWaived(k, m) ==
    ~k.cpuVerifier /\ ~k.requireCpu /\ m.waivesVerification

\* Unless the manifest's signer and the operator both waived it, a release or a
\* renewal rests on a quote with a trusted chain whose signed body binds this
\* very nonce and the transport key the key is sealed to, for the image that
\* was accepted (the relay defence of SPEC.md 3.2).
ReleaseIsAttested ==
    Released /\ ~VerificationWaived(request.input.k, request.input.m) =>
        LET e == request.input.e
        IN  /\ e.quote # None /\ e.quote.trusted
            /\ e.quote.reportData[1] = e.nonce
            /\ e.quote.launch \in {None, e.image}
            /\ decision.sealedTo # None => e.quote.reportData[2] = decision.sealedTo

WithClaim(r, c) == [r EXCEPT !.e.gpu.measurement = c]

WithCcMode(r, c) == [r EXCEPT !.e.gpu.ccMode = c]

Pin(r) == IF r.m.gpu = None THEN None ELSE r.m.gpu.rimPin

\* A report with another claim in it is still a report.
ASSUME ReportAssumption ==
    \A r \in Requests : r.e.gpu # None =>
        None \notin {WithClaim(r, Pin(r)).e.gpu, WithCcMode(r, TRUE).e.gpu,
                     WithCcMode(r, None).e.gpu}

Outcome(r) == Decide(r, request.renewal).released

\* With a GPU verifier configured the requester's own measurement claim decides
\* nothing, and a claimed confidential-compute mode never turns a refusal into
\* a release (kbs.py, _check_gpu; attestation.py on GpuReport).
ClaimsCannotRelease ==
    request # None /\ request.input.e.gpu # None =>
        LET r == request.input
        IN  /\ r.k.gpuVerifier => Outcome(WithClaim(r, Pin(r))) = Outcome(r)
            /\ Outcome(WithCcMode(r, TRUE)) => Outcome(WithCcMode(r, None))

\* The request with one requirement of its broker or manifest taken away.
Relaxed(r) ==
    { [r EXCEPT !.k.requireCpu = FALSE], [r EXCEPT !.k.requireGpu = FALSE],
      [r EXCEPT !.k.requireLaunch = FALSE], [r EXCEPT !.k.requireChannel = FALSE],
      [r EXCEPT !.k.allowLegacySweep = TRUE], [r EXCEPT !.k.instances = None],
      [r EXCEPT !.k.revocationClient = FALSE], [r EXCEPT !.m.sweepRequired = FALSE],
      [r EXCEPT !.m.waivesVerification = TRUE], [r EXCEPT !.m.needAlias = FALSE],
      [r EXCEPT !.m.needHiding = FALSE], [r EXCEPT !.m.revocationCheck = FALSE],
      [r EXCEPT !.m.gpu = None] }
    \cup { [r EXCEPT !.m.gpu.waivesCcMode = TRUE] : x \in {r.m.gpu} \ {None} }

\* Every optional requirement only ever restricts: what the gate releases it
\* still releases with any one of them dropped, so no requirement opens a path
\* around the others.
RequirementsOnlyRestrict ==
    Released => \A lax \in Relaxed(request.input) : Outcome(lax)

\* renewal.py: the gates a session demands in a decision that renews it.
RequiredRenewalChecks ==
    {"nonce_fresh", "manifest_authorized", "channel_binding",
     "cpu_platform_allowed", "assurance_tier", "serving_image", "gpu",
     "memory_fingerprint", "attestation_revocation", "cpu_quote_verified",
     "gpu_report_verified", "key_available"}

\* Every decision the gate signs as renewed passes the session's own reading of
\* it (custody.py, apply_renewal): no gate twice, none missing, none failed.
RenewalIsAcceptable ==
    Released /\ request.renewal =>
        LET names == [i \in DOMAIN decision.checks |-> decision.checks[i].name]
        IN  /\ Cardinality(Range(names)) = Len(names)
            /\ RequiredRenewalChecks \subseteq Range(names)
            /\ AllPassed(decision.checks)

=============================================================================
