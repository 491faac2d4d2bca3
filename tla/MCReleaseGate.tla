---------------------------- MODULE MCReleaseGate ----------------------------
(* The release gate on the requests that lie within a few changed fields of  *)
(* two deployments that release: one that requires and verifies everything,  *)
(* and one that waives verification.                                         *)
EXTENDS ReleaseGate

CONSTANTS n1, n2, pk1, pk2, weak, chip1, chip2,
          ManifestChanges, BrokerChanges, EvidenceChanges

Entry(image, status) == [image |-> image, status |-> status, retireAfter |-> None]

Retiring(image, at) == [image |-> image, status |-> "retiring", retireAfter |-> at]

Snp(alias, hiding, chip) == [alias |-> alias, hiding |-> hiding, chip |-> chip]

Quote(trusted, nonce, key, launch, snp) ==
    [trusted |-> trusted, reportData |-> <<nonce, key>>, launch |-> launch, snp |-> snp]

GpuQuote(trusted, nonce, measurement, readable) ==
    [trusted |-> trusted, nonce |-> nonce, measurement |-> measurement,
     chainReadable |-> readable]

GpuReport(nonce, claim, mode, quote) ==
    [nonce |-> nonce, measurement |-> claim, ccMode |-> mode, quote |-> quote]

Sweep(nonce, aliasing, complete, signed) ==
    [nonce |-> nonce, aliasing |-> aliasing, complete |-> complete, signed |-> signed]

StrictBroker ==
    [pinned |-> TRUE, hasKey |-> TRUE, requireChannel |-> TRUE,
     cpuVerifier |-> TRUE, requireCpu |-> TRUE, requireLaunch |-> TRUE,
     gpuVerifier |-> TRUE, requireGpu |-> TRUE, sweepKey |-> TRUE,
     allowLegacySweep |-> FALSE, instances |-> {chip1}, revoked |-> {"old-key"},
     maxCacheAge |-> 1, revocationClient |-> TRUE]

OpenBroker ==
    [StrictBroker EXCEPT !.cpuVerifier = FALSE, !.requireCpu = FALSE,
        !.requireLaunch = FALSE, !.gpuVerifier = FALSE, !.requireGpu = FALSE,
        !.sweepKey = FALSE, !.allowLegacySweep = TRUE, !.instances = None,
        !.requireChannel = FALSE, !.revocationClient = FALSE]

BrokerField(k, f) ==
    CASE f = "instances" -> {None, {chip1}}
      [] f = "revoked" -> {{}, {"vcek"}}
      [] f = "maxCacheAge" -> {0, 1}
      [] OTHER -> {~k[f]}

StrictManifest ==
    [platforms |-> {"amd-sev-snp"}, tier |-> "hardware-attested",
     accepted |-> <<Entry("image", "current")>>, waivesVerification |-> FALSE,
     gpu |-> [rimPin |-> "rim", waivesCcMode |-> FALSE], sweepRequired |-> TRUE,
     needAlias |-> TRUE, needHiding |-> TRUE, revocationCheck |-> TRUE]

OpenManifest ==
    [StrictManifest EXCEPT !.waivesVerification = TRUE, !.gpu.waivesCcMode = TRUE,
        !.needAlias = FALSE, !.needHiding = FALSE]

ManifestField(m, f) ==
    CASE f = "platforms" -> {{"intel-tdx"}, {"amd-sev-snp", "intel-tdx"}}
      [] f = "tier" -> {"software"}
      [] f = "accepted" ->
            { <<Entry("image", "revoked")>>, <<Retiring("image", 1)>>,
              <<Retiring("image", Malformed)>>,
              <<Entry("new", "current"), Retiring("image", 1)>>,
              <<Entry("image", "current"), Entry("image", "revoked")>> }
      [] f = "gpu" -> { None, [rimPin |-> "rim", waivesCcMode |-> FALSE],
                        [rimPin |-> "rim", waivesCcMode |-> TRUE] }
      [] OTHER -> {~m[f]}

Evidence ==
    [canonical |-> TRUE, nonce |-> n1, platform |-> "amd-sev-snp",
     tier |-> "hardware-attested", image |-> "image", keyId |-> "vcek",
     cacheAge |-> 1, transport |-> pk1,
     quote |-> Quote(TRUE, n1, pk1, "image", Snp(TRUE, TRUE, chip1)),
     gpu |-> GpuReport(n1, "rim", None, GpuQuote(TRUE, n1, "rim", TRUE)),
     sweep |-> Sweep(n1, FALSE, TRUE, TRUE)]

EvidenceField(f) ==
    CASE f = "canonical" -> {FALSE}
      [] f = "nonce" -> {n2}
      [] f = "platform" -> {"intel-tdx"}
      [] f = "tier" -> {"software"}
      [] f = "image" -> {"new", "other"}
      [] f = "keyId" -> {"old-key"}
      [] f = "cacheAge" -> {2}
      [] f = "transport" -> {None, Malformed, pk2, weak}
      [] f = "quote" ->
            {None, Quote(FALSE, n1, pk1, "image", Snp(TRUE, TRUE, chip1)),
             Quote(TRUE, n2, pk1, "image", Snp(TRUE, TRUE, chip1)),
             Quote(TRUE, n1, None, "image", Snp(TRUE, TRUE, chip1)),
             Quote(TRUE, n1, pk1, "other", Snp(TRUE, TRUE, chip1)),
             Quote(TRUE, n1, pk1, None, Snp(TRUE, TRUE, chip1)),
             Quote(TRUE, n1, weak, "image", Snp(TRUE, TRUE, chip1)),
             Quote(TRUE, n1, pk1, "image", Snp(None, TRUE, chip1)),
             Quote(TRUE, n1, pk1, "image", Snp(TRUE, FALSE, chip2)),
             Quote(TRUE, n1, pk1, "image", Snp(TRUE, TRUE, None)),
             Quote(TRUE, n1, pk1, "image", None),
             Quote(TRUE, n1, pk1, "image", Malformed)}
      [] f = "gpu" ->
            {None, GpuReport(n1, "rim", None, None),
             GpuReport(n2, "rim", None, GpuQuote(TRUE, n1, "rim", TRUE)),
             GpuReport(n1, "rim", FALSE, GpuQuote(TRUE, n1, "rim", TRUE)),
             GpuReport(n1, "rim", TRUE, GpuQuote(FALSE, n1, "rim", TRUE)),
             GpuReport(n1, "rim", TRUE, GpuQuote(TRUE, n2, "rim", TRUE)),
             GpuReport(n1, "rim", TRUE, GpuQuote(TRUE, n1, "claimed", TRUE)),
             GpuReport(n1, "rim", TRUE, GpuQuote(TRUE, n1, None, TRUE)),
             GpuReport(n1, "claimed", TRUE, GpuQuote(TRUE, n1, "rim", FALSE))}
      [] f = "sweep" -> {None, Sweep(n2, FALSE, TRUE, TRUE), Sweep(n1, TRUE, TRUE, TRUE),
                         Sweep(n1, FALSE, FALSE, TRUE), Sweep(n1, FALSE, TRUE, FALSE)}

\* The records one and two changed fields away.
Change(S, Field(_, _)) ==
    S \cup UNION { UNION { {[r EXCEPT ![f] = v] : v \in Field(r, f)} : f \in DOMAIN r } : r \in S }

Within(n, S, Field(_, _)) ==
    CASE n = 0 -> S
      [] n = 1 -> Change(S, Field)
      [] n = 2 -> Change(Change(S, Field), Field)

AnyEvidenceField(e, f) == EvidenceField(f)

\* The retirement date passes, the responder is down, it answers revoked.
Worlds ==
    { [now |-> 1, ocsp |-> "good"], [now |-> 2, ocsp |-> "good"],
      [now |-> 1, ocsp |-> "outage"], [now |-> 1, ocsp |-> "revoked"] }

Around(k, m) ==
    [k : Within(BrokerChanges, {k}, BrokerField),
     m : Within(ManifestChanges, {m}, ManifestField),
     e : Within(EvidenceChanges, {Evidence}, AnyEvidenceField),
     world : Worlds]

TheRequests == Around(StrictBroker, StrictManifest) \cup Around(OpenBroker, OpenManifest)

TheKeys == {pk1, pk2, weak}

OneNonce == {n1}

TheLowOrder == {weak}
=============================================================================
