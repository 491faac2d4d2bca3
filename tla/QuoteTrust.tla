----------------------------- MODULE QuoteTrust -----------------------------
(***************************************************************************)
(* Hardware evidence: how a guest's provider obtains it and when a         *)
(* verifier accepts it. _hw_providers.py, _quote_verify.py, snp.py,        *)
(* tdx.py, azure_vtpm.py and nvidia.py. A signature is a pair of a key and *)
(* the body it covers; a digest is the value digested. The platform signs  *)
(* what its guests ask for; whoever carries the evidence puts the signed   *)
(* pieces together as it likes, and signs bodies with the keys it has.     *)
(***************************************************************************)
EXTENDS CertificateChain

CONSTANTS
    Nonces,        \* challenge nonces
    Attempts,      \* release attempts of one Azure guest, concurrent calls of cpu_quote
    MaxSignatures, \* bound on what the hardware signs
    MaxResets      \* bound on the PCR resets

VARIABLES
    provider,   \* the evidence format in use: what select_cpu_provider picked, or "gpu"
    config,     \* the verifier's configuration
    signatures, \* what hardware signed: [key, body]
    pcr23,      \* events extended into the vTPM's PCR 23 since its reset
    attempt,    \* Attempts -> [at, nonce, disturbed]: where cpu_quote is
    bundles,    \* evidence finished by undisturbed attempts
    resets,     \* PCR resets so far
    verdict     \* what the verifier accepted last: a set of at most one

quoteVars == <<provider, config, signatures, pcr23, attempt, bundles, resets, verdict>>

-----------------------------------------------------------------------------
(* Signed bodies.                                                          *)

GuestKey == "guest"         \* the transport key of the approved guest
TransportKeys == {GuestKey, "own"}
ApprovedImage == "approved"     \* the approved workload measurement, also the PCR 23 event
Images == {ApprovedImage, "other"}

\* _report_data_for: sha256(nonce || transport key), zero-padded.
Bind(nonce, key) == <<"bind", nonce, key>>
Hcl(ak)          == <<"hcl", ak>>      \* the digest of HCL runtime data naming ak
Bindings         == {Bind(n, k) : n \in Nonces, k \in TransportKeys}

SnpReports    == [data : Bindings, host : Bindings, image : Images]
HclReports    == [data : {Hcl("vtpm"), Hcl("own")}, image : {"paravisor", "other"},
                  debug : BOOLEAN, vmpl : {0, 1}]
QeReports     == [signer : {"intel", "other"}, debug : BOOLEAN, att : {"quoting", "own"}]
TdReports     == [data : Bindings \cup {Hcl("vtpm")}]
Pcr23Values   == {<<>>, <<ApprovedImage>>, <<"other">>, <<ApprovedImage, ApprovedImage>>}
OpaqueFields  == {<<"driver", "vbios">>, <<"driver">>, <<"driver", "vbios", "vbios">>}
GpuReports    == [nonce : Nonces, fields : OpaqueFields]

\* What the keys of the platform sign. The approved image and the paravisor choose their
\* own REPORT_DATA; any other image, a debugged one, less privileged software and any TD
\* (no TDX measurement is appraised) choose freely. HOST_DATA is the host's.
HardwareSigns ==
    CASE provider = "amd-sev-snp" ->
           {<<"chip", r>> : r \in {s \in SnpReports :
                s.image = ApprovedImage => \E n \in Nonces : s.data = Bind(n, GuestKey)}}
      [] provider = "intel-tdx" ->
           {<<"chip", r>> : r \in {q \in QeReports :
                q.signer = "intel" /\ ~q.debug => q.att = "quoting"}}
           \cup {<<"quoting", r>> : r \in [data : Bindings]}
      [] provider = "azure-tdx" ->
           {<<"chip", [signer |-> "intel", debug |-> FALSE, att |-> "quoting"]>>}
           \cup {<<"quoting", r>> : r \in [data : {Hcl("vtpm")}]}
      [] provider = "azure-snp" ->
           {<<"chip", r>> : r \in {h \in HclReports :
                h.image = "paravisor" /\ ~h.debug /\ h.vmpl = 0 => h.data = Hcl("vtpm")}}
      [] provider = "gpu" -> {<<"chip", r>> : r \in GpuReports}
      [] OTHER -> {}

\* A signature a verifier finds valid under a key: hardware made it, or the key is loose.
Signed(key, body) == <<key, body>> \in signatures \/ key \in {"own", "held"}

-----------------------------------------------------------------------------
(* The verifiers. Each says whether some evidence for (nonce, key) passes. *)

\* Fault: the container names the field the binding is compared with.
ContainerOffset(offset) == TRUE

\* JsonQuoteParser.parse: the container's report_data_offset must be the configured one.
OffsetAccepted(offset) == offset = "data"

\* QuoteVerifier.verify, with the raw SNP parser or the JSON container.
VerifyQuote(nonce, key) ==
    \E leaf \in TrustedLeafKeys, r \in SnpReports, offset \in {"data", "host"} :
        /\ config.container \/ offset = "data"
        /\ config.container => OffsetAccepted(offset)
        /\ Signed(leaf, r)
        /\ r[offset] = Bind(nonce, key)
        /\ IF config.launch THEN r.image = ApprovedImage ELSE ~config.requireLaunch

\* Fault: any enclave the platform vouches for may certify an attestation key.
AnyEnclave(qe) == TRUE

\* _qe_identity_error: Intel's TD quoting enclave, not debugged.
QeIdentity(qe) == qe.signer = "intel" /\ ~qe.debug

\* verify_tdx_quote, with a nonce.
VerifyTdxQuote(nonce, key) ==
    \E leaf \in TrustedLeafKeys, qe \in QeReports, td \in TdReports :
        /\ Signed(qe.att, td)
        /\ Signed(leaf, qe)
        /\ QeIdentity(qe)
        /\ td.data = Bind(nonce, key)

\* Fault: the quote is checked under the key the evidence supplies.
SuppliedAk(ak, supplied) == TRUE

\* ak_pem must be the key the HCL runtime data names, which checks the quote.
AkAuthenticated(ak, supplied) == supplied = ak

\* Fault: any SNP guest's report may name an attestation key.
AnyGuest(r) == TRUE

\* The report is the paravisor's own: allowlisted measurement, no debug, VMPL 0.
FromParavisor(r) == r.image \in config.paravisors /\ ~r.debug /\ r.vmpl = 0

\* The quote selects PCR 23 and its digest is that of exactly one extend of the measurement.
ExpectedPcr23(measurement) == <<measurement>>

AzureAccepts(nonce, key, r, ak, supplied, quote) ==
    /\ quote.pcrs = ExpectedPcr23(ApprovedImage)
    /\ AkAuthenticated(ak, supplied)
    /\ r.data = Hcl(ak)
    /\ FromParavisor(r)
    /\ quote.extra = Bind(nonce, key)
    /\ Signed(supplied, quote)
    /\ \E leaf \in TrustedAzureLeafKeys : Signed(leaf, r)

VerifyAzure(nonce, key) ==
    \E r \in HclReports, ak, supplied \in {"vtpm", "own"}, pcrs \in Pcr23Values :
        AzureAccepts(nonce, key, r, ak, supplied, [extra |-> Bind(nonce, key), pcrs |-> pcrs])

\* parse_gpu_opaque_fields and gpu_measurement_from_report: a missing or repeated field
\* leaves the report verified and its identity unread.
GpuMeasurement(r) ==
    IF \A f \in {"driver", "vbios"} : Cardinality({i \in DOMAIN r.fields : r.fields[i] = f}) = 1
    THEN "identity" ELSE "unread"

\* NvidiaGpuVerifier.verify: the raw nonce, with no transport key.
VerifyGpu(nonce, key, identity) ==
    \E leaf \in TrustedLeafKeys, r \in GpuReports :
        Signed(leaf, r) /\ r.nonce = nonce /\ identity = GpuMeasurement(r)

-----------------------------------------------------------------------------
(* select_cpu_provider: the interfaces present, best first.                *)

Interfaces == {"sev-guest", "tdx_guest", "hcl-td-report", "tpm"}

SelectCpuProvider(present) ==
    CASE "sev-guest" \in present                   -> "amd-sev-snp"
      [] "sev-guest" \notin present /\ "tdx_guest" \in present -> "intel-tdx"
      [] present = {"tpm", "hcl-td-report"}         -> "azure-tdx"
      [] present = {"tpm"}                         -> "azure-snp"
      [] OTHER                                     -> "software"

NoAttempt == [at |-> "idle", nonce |-> "none", disturbed |-> FALSE]

QuoteInit ==
    /\ \/ \E present \in SUBSET Interfaces : provider = SelectCpuProvider(present)
       \/ provider = "gpu"
    /\ config \in [container : BOOLEAN, launch : BOOLEAN, requireLaunch : BOOLEAN,
                   paravisors : {{"paravisor"}}]
    /\ ~config.container => config.launch   \* the SNP parser always slices the measurement
    /\ provider # "amd-sev-snp" => config.launch /\ ~config.container /\ config.requireLaunch
    /\ signatures = {}
    /\ pcr23 = <<"other">>
    /\ attempt = [a \in Attempts |-> NoAttempt]
    /\ bundles = {}
    /\ resets = 0
    /\ verdict = {}

\* A device or a quote service answers. A request that fails leaves nothing behind.
Attest(s) ==
    /\ Cardinality(signatures) < MaxSignatures
    /\ signatures' = signatures \cup {s}
    /\ UNCHANGED <<provider, config, pcr23, attempt, bundles, resets, verdict>>

\* SevSnpProvider.cpu_quote: REPORT_DATA binds the nonce and the transport key, the
\* measurement is that of the guest that asks, HOST_DATA is the host's.
SnpCpuQuote(nonce) ==
    /\ provider = "amd-sev-snp"
    /\ \E h \in Bindings :
         Attest(<<"chip", [data |-> Bind(nonce, GuestKey), host |-> h, image |-> ApprovedImage]>>)

\* TdxProvider.cpu_quote, with the quoting enclave that turns its TDREPORT into a quote.
TdxCpuQuote(nonce) ==
    /\ provider = "intel-tdx"
    /\ Attest(<<"quoting", [data |-> Bind(nonce, GuestKey)]>>)

\* AzureTdxVtpmProvider.cpu_quote: the TD report in the HCL blob, which binds the vTPM's key
\* and neither nonce nor transport key, is exchanged for a quote.
AzureTdxCpuQuote ==
    /\ provider = "azure-tdx"
    /\ Attest(<<"quoting", [data |-> Hcl("vtpm")]>>)

\* NvidiaCcProvider.gpu_report: the GPU echoes the nonce the tool was given.
GpuReport(nonce) ==
    /\ provider = "gpu"
    /\ \E fields \in OpaqueFields : Attest(<<"chip", [nonce |-> nonce, fields |-> fields]>>)

\* What the platform signs besides: its own certificates and paravisor reports, and what
\* other software asks of the same hardware.
PlatformSigns ==
    \E s \in HardwareSigns :
        /\ provider = "amd-sev-snp" => s[2].image # ApprovedImage
        /\ Attest(s)

\* AzureSnpVtpmProvider.cpu_quote is three TPM commands, and nothing holds a lock around
\* them: _measure_workload resets and extends PCR 23, then tpm2_quote signs it.
Disturb(a, others) ==
    [b \in Attempts |-> IF b # a /\ others[b].at # "idle"
                        THEN [others[b] EXCEPT !.disturbed = TRUE] ELSE others[b]]

\* Fault: no reset, the event is extended onto whatever PCR 23 holds.
KeepPcr(a, nonce) ==
    /\ provider = "azure-snp"
    /\ attempt[a].at = "idle"
    /\ resets < MaxResets
    /\ pcr23' = pcr23
    /\ resets' = resets + 1
    /\ attempt' = [Disturb(a, attempt) EXCEPT ![a] = [at |-> "reset", nonce |-> nonce, disturbed |-> FALSE]]
    /\ UNCHANGED <<provider, config, signatures, bundles, verdict>>

PcrReset(a, nonce) ==
    /\ provider = "azure-snp"
    /\ attempt[a].at = "idle"
    /\ resets < MaxResets
    /\ pcr23' = <<>>
    /\ resets' = resets + 1
    /\ attempt' = [Disturb(a, attempt) EXCEPT ![a] = [at |-> "reset", nonce |-> nonce, disturbed |-> FALSE]]
    /\ UNCHANGED <<provider, config, signatures, bundles, verdict>>

PcrExtend(a) ==
    /\ attempt[a].at = "reset"
    /\ pcr23' = Append(pcr23, ApprovedImage)
    /\ attempt' = [Disturb(a, attempt) EXCEPT ![a].at = "extended"]
    /\ UNCHANGED <<provider, config, signatures, bundles, resets, verdict>>

\* _fetch_freshness_bundle: the vTPM signs PCR 23 as it now is, over the caller's binding.
TpmQuote(a) ==
    LET quote == [extra |-> Bind(attempt[a].nonce, GuestKey), pcrs |-> pcr23]
    IN  /\ attempt[a].at = "extended"
        /\ signatures' = signatures \cup {<<"vtpm", quote>>}
        /\ bundles' = IF attempt[a].disturbed THEN bundles
                      ELSE bundles \cup {[nonce |-> attempt[a].nonce, quote |-> quote]}
        /\ attempt' = [attempt EXCEPT ![a] = NoAttempt]
        /\ UNCHANGED <<provider, config, pcr23, resets, verdict>>

\* A tool fails or times out: AttestationUnavailableError, PCR 23 stays as it is.
ToolFails(a) ==
    /\ attempt[a].at # "idle"
    /\ attempt' = [attempt EXCEPT ![a] = NoAttempt]
    /\ UNCHANGED <<provider, config, signatures, pcr23, bundles, resets, verdict>>

\* The key broker verifies what it is sent, for its nonce and the key it would seal to.
Identities == IF provider = "gpu" THEN {"identity", "unread"} ELSE {"unread"}

Verify(nonce, key, identity) ==
    /\ \/ provider = "amd-sev-snp" /\ VerifyQuote(nonce, key)
       \/ provider \in {"intel-tdx", "azure-tdx"} /\ VerifyTdxQuote(nonce, key)
       \/ provider = "azure-snp" /\ VerifyAzure(nonce, key)
       \/ provider = "gpu" /\ VerifyGpu(nonce, key, identity)
    /\ verdict' = {[nonce |-> nonce, key |-> key, identity |-> identity]}
    /\ UNCHANGED <<provider, config, signatures, pcr23, attempt, bundles, resets>>

QuoteNext ==
    \/ AzureTdxCpuQuote \/ PlatformSigns
    \/ \E n \in Nonces : SnpCpuQuote(n) \/ TdxCpuQuote(n) \/ GpuReport(n)
    \/ \E a \in Attempts, n \in Nonces : PcrReset(a, n)
    \/ \E a \in Attempts : PcrExtend(a) \/ TpmQuote(a) \/ ToolFails(a)
    \/ \E n \in Nonces, k \in TransportKeys, identity \in Identities : Verify(n, k, identity)

QuoteSpec == QuoteInit /\ [][QuoteNext]_quoteVars

-----------------------------------------------------------------------------
\* Whatever pieces the evidence is put together from, what a verifier accepts for a nonce
\* and a transport key was signed by real hardware at the request of a guest that bound
\* exactly these: an SNP guest (of the approved image when the launch measurement is
\* checked or demanded), a TD, an Azure vTPM whose PCR 23 held one extend of the approved
\* measurement, a GPU whose signed report states the identity that is returned. A quote
\* that binds no nonce (Azure TDX) is never accepted (QuoteVerifier, verify_tdx_quote,
\* AzureSnpVtpmVerifier, NvidiaGpuVerifier, verify_cert_chain).
AcceptedIsGenuine ==
    \A v \in verdict :
        LET bound == Bind(v.nonce, v.key)
        IN  CASE provider = "amd-sev-snp" ->
                   \E r \in SnpReports : /\ <<"chip", r>> \in signatures
                                         /\ r.data = bound
                                         /\ config.launch \/ config.requireLaunch =>
                                              r.image = ApprovedImage /\ v.key = GuestKey
              [] provider = "intel-tdx" ->
                   <<"quoting", [data |-> bound]>> \in signatures
              [] provider = "azure-snp" ->
                   <<"vtpm", [extra |-> bound, pcrs |-> <<ApprovedImage>>]>> \in signatures
              [] provider = "gpu" ->
                   \E r \in GpuReports : /\ <<"chip", r>> \in signatures
                                         /\ r.nonce = v.nonce
                                         /\ v.identity = "identity" =>
                                              r.fields = <<"driver", "vbios">>
              [] OTHER -> FALSE

\* An attempt that no other attempt's TPM commands fell into produces evidence that
\* verifies, whatever earlier attempts left in PCR 23 and wherever they failed
\* (_measure_workload: the reset "makes repeated release attempts deterministic").
UndisturbedAttemptVerifies ==
    \A b \in bundles :
        LET report == [data |-> Hcl("vtpm"), image |-> "paravisor", debug |-> FALSE, vmpl |-> 0]
        IN  <<"chip", report>> \in signatures =>
                AzureAccepts(b.nonce, GuestKey, report, "vtpm", "vtpm", b.quote)

(* The inductive invariants behind them.                                   *)

AttemptStates == [at : {"idle", "reset", "extended"}, nonce : Nonces \cup {"none"},
                  disturbed : BOOLEAN]

ConfigInv == config.paravisors = {"paravisor"}

\* Hardware signs what its guests may ask for, the vTPM what tpm2_quote asks for.
SignatureInv ==
    \A s \in signatures : s \in HardwareSigns \/ (provider = "azure-snp" /\ s[1] = "vtpm")

\* Of the attempts between reset and quote only the last to touch PCR 23 is undisturbed.
AttemptInv ==
    /\ attempt \in [Attempts -> AttemptStates]
    /\ \A a \in Attempts : attempt[a].at # "idle" => provider = "azure-snp"
    /\ \A a \in Attempts : ~attempt[a].disturbed =>
         /\ attempt[a].at = "reset" => pcr23 = <<>>
         /\ attempt[a].at = "extended" => pcr23 = <<ApprovedImage>>

BundleInv ==
    \A b \in bundles : /\ b.quote = [extra |-> Bind(b.nonce, GuestKey), pcrs |-> <<ApprovedImage>>]
                        /\ <<"vtpm", b.quote>> \in signatures

=============================================================================
