\* Every request with up to one changed field in each of broker, manifest and
\* evidence, around a strict and an open deployment.
SPECIFICATION Spec
CONSTANTS
    n1 = n1 n2 = n2 pk1 = pk1 pk2 = pk2 weak = weak chip1 = chip1 chip2 = chip2
    None = None Malformed = Malformed
    Nonces <- OneNonce
    Keys <- TheKeys
    LowOrder <- TheLowOrder
    Requests <- TheRequests
    BrokerChanges = 1
    ManifestChanges = 1
    EvidenceChanges = 1
INVARIANTS KeyFollowsVerdict ReleaseIsAttested ClaimsCannotRelease RequirementsOnlyRestrict RenewalIsAcceptable
PROPERTIES FailedAttemptIsFinal
