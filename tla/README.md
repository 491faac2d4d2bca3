# A TLA+ model of the weight custody manifest

The repository is a reference implementation, in Python, of *weight custody*:
an owner releases the key of a model's weights to an enclave only after a key
broker has verified what the enclave is, the enclave keeps the key only as long
as it keeps proving itself, and everything that would let a key outlive its
permission is refused. The package is `python/src/wcm`. What it promises is
written in `SPEC.md`, `docs/` and the comments of the code; what it does is the
code. The modules here are translated from the code and checked with TLC; the
theorems are proved with TLAPS.

## 1. Inventory

### Components

| Component (source) | State | Operations |
|---|---|---|
| Challenge store (`_challenge.py`) | two ordered tables of nonces with expiries, under a lock | `issue`, `consume`, pruning inside `issue` |
| Release gate (`kbs.py`, `_quote_verify.py`, `_seal.py`) | key store, configuration, the challenge store | `issue_challenge`, `verify_and_release`, `verify_for_renewal`: about sixteen checks over broker, manifest, evidence |
| GPU revocation (`gpu_revocation.py`) | held answers per certificate, under a lock | `check_chain`, `status` (request outside the lock, store under it) |
| Renewal decisions (`renewal.py`) | none (a signed record) | `sign_renewal_decision`, `verify_renewal_decision` |
| Enclave session (`custody.py`) | state, deadline, operation count, used decisions | `from_release`, `tick`, `authorize_operation`, `use_key`, `reattest`, `apply_renewal`, `zeroize`, `monitor` |
| Serving shutdown (`custody.py`) | a stopped flag, under a lock | `__call__`: four callbacks of the deployment |
| Key provisioning, owner side (`provisioning.py`, `provisioning_state.py`, `owner_provision.py`) | policy, challenge store; the durable epoch floor in SQLite | construction, `update_policy`, `issue_challenge`, `provision` |
| Key provisioning, broker side (`broker_receiver.py`, `broker_server.py`) | transport key, pending request, seen nonces, the broker once provisioned | `provisioning_report_data`, `install`, `retire`, delegation |
| HTTP servers, guest broker (`server.py`, `guest_broker.py`, `provisioning_wire.py`) | one broker per process | routes, construction from the environment |
| Memory sweep (`memory_sweep.py`) | the pages of a range and what was written to them | two orders over the range, write, read back, sign; `verify_memory_sweep` |
| Model memory (`model_memory.py`) | a baseline, a latch under a lock, open challenges | `check_before_operation`; `observe_model_memory`, `issue_challenge`, `verify` |
| Runtime records (`runtime_records.py`) | the chain of one process | `sign_runtime_record`, `verify_runtime_record_chain` |
| Transparency log (`transparency.py`, `_merkle.py`) | entries, tree heads | append, audit path, consistency proof, verification |
| Receipt controller (`papers/receipt-gated-model-serving/experiments`) | a durable ledger, a Service and a Pod | `admit`, `revoke`, `reconcile`, host receipts |
| Manifest signing (`_signing.py`, `models.py`, `_verify.py`, `cli.py`) | a file that travels between signers | sign by library or command line, `verify_manifest` |
| Lineage (`lineage.py`) | manifests that name parents | `verify_lineage` |
| Threshold custody (`threshold.py`) | shares | `split_secret`, `combine_shares` |
| Quotes and evidence providers (`_quote_verify.py`, `_certificates.py`, `snp.py`, `tdx.py`, `azure_vtpm.py`, `nvidia.py`, `_hw_providers.py`) | PCR 23 of a vTPM | select a provider, collect a quote, parse, verify chain and signatures |
| Deployment identity (`deployment_identity.py`) and the client that pins it | an approval | derive, load, `require_policy` |
| Conformance suite (`conformance.py`, `_vendor_vectors.py`) | vectors, a results file | score, evaluate a document, a scenario or a vendor capture |
| Platform floor, boot bundle, canonicalisation, other commands, release tools | none or device I/O | comparing, assembling, printing |

### Interactions

The controller of an enclave takes a challenge from the broker, collects
evidence over it and posts it; the broker answers with the sealed key
(`verify_and_release`) or with a signed renewal decision
(`verify_for_renewal`). The session starts a window of one *cadence* when the
key arrives and a new one for each decision it accepts; when a window closes it
wipes the key, and its `on_stop` hook runs the serving shutdown. Before it can
serve, a broker in a guest is itself provisioned: the owner checks its hardware
report and seals the model key to the transport key of that very boot. Every
message crosses a network, and an untrusted relay, that may lose, delay,
repeat and reorder.

Two groups of parts stand beside this protocol. *Records* say afterwards, or
to somebody else, what happened: the log, the chain of runtime records, the
memory sweep, the guard and the observer of the model's memory, and the
receipts that gate routing. *Authority* decides whose word is taken: who signed
a manifest, what it descends from, whose shares make a key, which hardware
signed a quote, which guest gets a key, and whether an implementation conforms.
In both groups some party between the signer and the verifier stores or carries
what was signed, and may combine the pieces as it likes.

### What is hard, and the properties that matter

* **Freshness against forgetting.** The store forgets used nonces to bound its
  memory, on a wall clock that can be stepped. No nonce may be accepted twice.
* **Lateness.** Decisions and releases carry windows that start when they
  *arrive*. The time to cut a session off is a sum of delays nobody sees in one
  place.
* **Requests outside locks.** Two server threads ask NVIDIA and store the
  answers in the other order.
* **Configuration space.** Sixteen checks, with waivers by the manifest's signer
  and by the operator, and claims written by the requester beside signed fields:
  no combination may open a path.
* **Crashes.** A commit that fails after the policy was assigned in memory; a
  broker that restarts and knows no challenge; held revocation answers that are
  gone.
* **Teardown.** Callbacks that raise, threads that race, a monitor task that is
  cancelled, a deadline that moves while the monitor sleeps.
* **Pieces that are each genuine.** A store that splices record chains, a log
  operator who rewrites entries, a carrier who puts signed quotes, certificates
  and blocks together in new combinations, a host that chooses the guest.
* **Measurements that take time.** Buffers change during a scan, two attempts
  reset and extend one PCR 23, a controller process acts on a ledger row that
  another has replaced.
* **Boundaries of arithmetic.** Trees whose size is no power of two, strides
  that share a factor with the page count, the zero of GF(256).

`PROJECT.json` lists each hazard at its line with the properties that cover it.

## 2. Modules

| Module | Models | Extended / used by |
|---|---|---|
| `ChallengeStore` | `_challenge.py`, both tables and the pruning loop | `MCChallengeStore`, `ChallengeStoreProofs` |
| `NonceGate` | the abstract promise of that store | refined by `ChallengeStore` (`ImplementsGate`), instantiated by `Custody` |
| `EnclaveSession` | class `EnclaveSession` | `MCEnclaveSession`, `EnclaveSessionProofs`, instantiated by `Custody` |
| `ServingShutdown` | class `ServingShutdown` and the unlocked `zeroize` in front of it | `ServingShutdownProofs` |
| `GpuRevocation` | `check_chain` and `NvidiaOcspClient` | `MCGpuRevocation`, `GpuRevocationProofs` |
| `ReleaseGate` | the checks of `kbs.py` | `MCReleaseGate`, `ReleaseGateProofs` |
| `Custody` | broker, network and session composed | `MCCustody`, `CustodyProofs` |
| `Provisioning` | owner processes, epoch floor, receivers and the network between them | `MCProvisioning`, `ProvisioningProofs` |
| `MerkleLog` | `_merkle.py`, `transparency.py`, an operator and a monitor | `MCRecords`, `PartsProofs` |
| `RuntimeRecords` | `runtime_records.py`, a controller and a store | `MCRecords`, `PartsProofs` |
| `MemorySweep` | `memory_sweep.py` over aliased or overwritten pages | `MCRecords`, `PartsProofs` |
| `MemoryGuard`, `MemoryObserver` | the two halves of `model_memory.py` | `MCRecords`, `PartsProofs` |
| `ReceiptController` | the reference host, planner and controller of the receipt paper | `MCRecords`, `PartsProofs` |
| `ManifestSigning` | `_signing.py`, the signed part of `models.py`, `_verify.py`, `cmd_sign` | `MCAuthority`, `PartsProofs` |
| `Lineage` | `lineage.py` | `MCAuthority`, `PartsProofs` |
| `Threshold` | `threshold.py` | `MCAuthority` |
| `CertificateChain` | path validation of `_quote_verify.py` and `_certificates.py` | `QuoteTrust` |
| `QuoteTrust` | the four verifiers and what the providers have hardware sign | `MCAuthority`, `PartsProofs` |
| `BrokerDeployment` | `deployment_identity.py`, the one-shot client, the guest's start, appraisal and installation | `MCAuthority`, `PartsProofs` |
| `Conformance` | scoring and the evaluators of the suite | `MCAuthority`, `PartsProofs` |

`MCRecords` and `MCAuthority` put parts that do not interact side by side: the
variable `part` says which one an execution is about and the others stay where
they began, so one run explores the sum of their state spaces and not the
product.

Definitions named after a fault (their comments begin with "Fault:") are not
part of the model; they are altered forms of an operator, used to confirm that
a property notices the corresponding mistake.

### How state and actions correspond to the code

**ChallengeStore.** `issued` and `consumed` are the two `OrderedDict`s as
sequences in insertion order. `issue` and `consume` run under the lock and are
one action each; `consume` is split by outcome. `takes`, `usedAt`, `prunedAt`,
`minted` and `steady` are ghosts: nothing in an action reads them except
`minted`, which says that `secrets.token_hex` does not repeat. `ClockMoves` sets
the wall clock to any value, also an earlier one.

**EnclaveSession.** All calls run on one event loop, so a synchronous method is
one action; `tick()` inside every method is `Refused`. `monitor()` is a
coroutine: one action per stretch between two awaits. A decision is the record
of what `apply_renewal` reads. `MonitorAbandon` is a task cancelled before its
first step, which never enters the `try`. The session sleeps on the event
loop's clock and compares deadlines on the wall clock: `ClockTicks` advances
both, `ClockSteps` sets the wall clock. The ghosts `steady` and `prompt` record
whether the wall clock was stepped and whether time passed while the monitor
was due.

**ServingShutdown.** One action per callback and per unlocked step of
`zeroize`; a callback succeeds, raises an `Exception`, or raises a
`BaseException`, and the nested `try`/`finally` decides what still runs.

**GpuRevocation.** A `status` call is two actions, the request (`Receive`,
`Reject`, `Unreachable`) and the store under the lock (`Store`). `check_chain`
reads the clock once (`start`). Clock units are fractions of a second because
`int()` truncates ages. `VerifyAnswer` is `verify_answer` against any reply that
may arrive: the answer to this request, one to an earlier request, one about
another certificate, one that the responder did not sign. The retries inside
`http_post` are one outage.

**ReleaseGate.** A request is a record of broker configuration, manifest,
evidence and world (clock and responder). Each check is an operator with the
name it reports; `Checks` is the list in the order of the code; `Decide` is the
decision with the key's form. A quote is its signed fields and one Boolean for
chain and signature. One call is decided at a time: calls share only the store.

**Custody.** The broker's challenges are a `NonceGate`, the session is an
`EnclaveSession`; answers stay in `releases` and `decisions` once sent and may
be delivered at any time, again or never. `key` numbers the broker processes:
`server.py` gives a process no renewal key, so each has its own. The verdict of
the checks that `ReleaseGate` models is nondeterministic here, except for the
nonce, the retiring image and the evidence bound. A request takes time:
`EnterGate` is the code up to `_check_serving_image`, which reads the clock for
`retire_after`; `Release` and `SignRenewal` are the rest, after the revocation
check has waited for NVIDIA's responder, and a decision's `issued_at` is read
only there. The clock, other requests and a restart come in between.
`RefuseNonce` is the early return. A controller opens a release once; it is the controller's own code, not the network, that calls
`from_release`.

**Provisioning.** Each owner operation is inside one write transaction of the
floor and under the process lock; each receiver operation is under the
receiver's lock. `UpdatePolicy` includes the commit that fails after the
assignment. Challenge expiries travel unsigned: `Report` takes the true one or
one prolonged by the network. The deployment approval and the appraisal of the
report's fields are one nondeterministic refusal here; `BrokerDeployment` has
them in detail, for one policy at a time.

**MerkleLog.** A hash is the term it is computed from, `<<e>>` for a leaf and
`<<l, r>>` for a node, which is what domain separation gives. The tree, audit
paths and consistency proofs are functions of the size of a subtree and of the
position where it begins, in place of the code's slices of a list; the flag `b`
of `_subproof` is true exactly for the subtrees that begin at 0. Verification
works on sizes and bits as the code does: a `while` loop of shifts is one
division by a power of two. The operator may rewrite entries or cut the log and
shows any proof built from hashes it can compute; the monitor keeps only its
last head and one watched entry.

**RuntimeRecords.** A record holds its predecessor where the code holds a hash.
A controller signs one record per event and may be restarted with a new chain;
the store offers any sequence of records ever signed.

**MemorySweep.** `Step` and the order it gives are the arithmetic of `_order`
with the values the hash may draw. Page `i` is written with value `i`: page
values are distinct. The platform may map several pages onto one physical page,
and another writer may overwrite a page between the two loops.

**MemoryGuard, MemoryObserver.** A buffer is `good`, `bad` or `broken` (its
adapter fails). Nothing quiesces the model, so buffers change between the reads
of one scan. The guard's scan runs under its lock, one action per buffer. The
observer's `edits` is a ghost clock of the memory: it dates each read and each
challenge.

**ReceiptController.** Each controller action is a process, each call to the
cluster API or to the ledger one step, and a process may die between two. `settled`
is a ghost: the tombstone is written and a process that ran alone since then has
removed the Service.

**ManifestSigning.** The file is `doc` and `blocks`; the carrier changes both,
role and signer of a block included, which no signature covers. `consent` is the
ghost of what key holders signed. An omitted field, its canonical value and the
value an older writer used are told apart, because re-signing normalises them.

**Lineage, Threshold.** `Lineage` starts from any set of manifests, cycles
included. `Threshold` computes with the exponent and logarithm tables of
GF(256); the random coefficients are every value of a small set.

**QuoteTrust.** A signature is a pair of key and body. Each provider is an action
that has the hardware sign what that provider's code asks for (`SnpCpuQuote`,
`TdxCpuQuote`, `AzureTdxCpuQuote`, `GpuReport`); `PlatformSigns`, which is
external, is what firmware and other software have signed besides. The carrier
assembles evidence from any signed pieces and signs with the keys it has. The Azure SNP provider's reset, extend and quote of
PCR 23 are three actions per attempt, interleaved. Fixed offsets of the binary
layouts are named fields.

**BrokerDeployment.** The host chooses each guest's image, configuration and the
policy it is told; hardware reports what a guest is; the reviewed image behaves
as the code does and any other one answers as it likes. The client's policy
file, approval file and pinned identity may disagree. `ValidPolicy` is what the
constructor of a policy refuses, on either side. `Appraised` is every field that
`provision` compares: report version, measurement, the guest policy bit by bit
and its debug bit, VMPL, TCB by component, and the platform fields, each of
which a report gives as true, as false or not at all.

**Conformance.** One task per evaluator. The implementation under test is a set
of checks it performs, or a trace of step outcomes; the suite's judgement is
computed as the code does, and the properties say what a pass means about it. A
capture declares where its nonce sits; a GPU capture that names another offset
than the format's is refused before it is verified (`NonceMisplaced`).

## 3. Runs

| Run | Shows | Bounds |
|---|---|---|
| `challenge_store` | `SingleUse` and the refinement `ImplementsGate` under a clock that steps back; `RetentionWindow` until it does | three nonces, TTL 2, clock 0..4: unused expiry, late presentation, pruning of either table and a step back all occur |
| `enclave_session` | `OpBudget`, `OneWindowPerDecision`, `MonitorEndsCustody`, `LapseBound`, `NoServiceAfterWipe`, `LapseIsNoticed` | cadence 3, poll 2, calls up to time 3 and time itself to 8, one operation per window, two usable decisions (one of them bounded by its evidence), a denial, and one decision per kind of refusal |
| `serving_shutdown` | `TeardownOnce`, `NoFreeUnderWork`, `TerminationAttempted` | three threads, two pieces of work |
| `gpu_revocation` | `FirstReleaseIsFresh`, `OutageIsBounded` | two threads, one certificate, half-second units, a window of one second, clock to two seconds: an answer can be reused, too old by truncation, and out of date |
| `release_gate` | `KeyFollowsVerdict`, `ReleaseIsAttested`, `ClaimsCannotRelease`, `RequirementsOnlyRestrict`, `RenewalIsAcceptable`, `FailedAttemptIsFinal` | every request with one changed field in each of broker, manifest and evidence, around a deployment that requires everything and one that waives verification, in four worlds; one nonce in each of its states; any number of attempts |
| `custody` | `CutOffBound`, `WindowsAreAttested` | three challenges (two sessions and a renewal), two broker processes, broker clock ahead by one, an image that retires while a renewal is in the gate, any number of requests in it at once, one decision in flight, cadence 4 so that a decision can arrive after its lifetime |
| `provisioning` | `OnePolicyPerEpoch`, `NoRollback`, `InstallOnce`, `SupersededExpires` | two owner processes, two policies of one epoch and one of the next, two receivers, two challenges; a pending request ends when the clock moves |
| `records` | `OneHistory`, `OneProcessEnded`, `SweepFindsAliases`, `LatchedOnce`, `ObservedAfterChallenge`, `RevokedStaysUnrouted` | logs of up to five entries (sizes 3 and 5 are no powers of two) and one rewrite; two leases and two controller processes; one to four pages under every mapping; two buffers, three threads, three changes; two challenges and two observations over two buffers and two edits; three controller processes, three receipts, two faults |
| `authority` | `JointlySigned`, `SigningConverges`, `LineageSound`, `ThresholdHolds`, `AcceptedIsGenuine`, `UndisturbedAttemptVerifies`, `KeyReachesApproved`, `PassIsEarned` | two changes of the file by its carrier; three manifests with every parent relation, those the leaf does not descend from blank, as nothing reads them; key bytes 0, 1, 83, 255, coefficients 0, 2, 202 and three shares; two nonces, two attempts, chains of up to three certificates, two hardware signatures, two resets; two guests, two runs of the client, two reports, guests that differ from the approved one in one respect; three vectors on two levels, scripts of three steps, dates 0..2 |
| `revocation_race`, `custody_evidence`, `conformance_steps` | each a sentence of the documentation or a comment that the code does not keep (section 6) | |

Deadlock is checked except where the system really stops: a torn-down worker
(`serving_shutdown`), an idle session at the end of time (`enclave_session`),
owner processes that are down with all receivers retired (`provisioning`), parts
that have reached their bound, closed their latch or given their judgement
(`records`, `authority`, `conformance_steps`).

`Custody` runs under a `VIEW` that drops variables no guard and no property
reads (the latest verdict and result, `ceiling`, `stops`), and symmetry is over
nonces, threads, owners, receivers, guests and client runs, which no definition
tells apart.
`ImplementsGate` is a safety property (initial condition and step relation), so
symmetry is sound for it; the runs with a liveness property use none.

Chains of two certificates make two threads too large for an exhaustive run;
`revocation_race` walks such chains, the passing run one certificate.

### Fairness

`EnclaveSession!FairSpec` assumes weak fairness of the monitor's steps and of
the clock: asyncio runs a task whose sleep has ended, and time passes. It does
not assume that anybody calls the session, nor that the loop is prompt.
`ServingShutdown!FairSpec` assumes weak fairness of the thread that is inside
the adapter: the callbacks are the deployment's and the contract of
`ServingShutdown` asks for bounded ones. Nothing forces a thread to end custody.

## 4. Proofs

Every safety property that a passing run checks is also a theorem, for every
value of the constants, except `ThresholdHolds`.

| Theorem | Statement | Argument |
|---|---|---|
| `ChallengeStoreProofs!TypeCorrect`, `NoncesAreSingleUse` | `SingleUse` for any nonces, any TTL and any clock | `SingleUseInv`: what is in `_issued` was minted, never taken, and is there once. `SingleUse` alone says nothing about what may be taken next. Pruning enters by two lemmas: what it leaves is a suffix of the table. |
| `ChallengeStoreProofs!ExpiredChallengesGo`, `UsedNoncesGo` | `IssuedDropped`, `RetentionWindow` until the clock steps back | `RetentionInv`: `_issued` is in order of expiry and `_consumed` in order of use, with each expiry at most a TTL after the use. Pruning stops at the first live entry, so what it leaves begins with one, and all that follows is no older. `_consumed` is not in order of expiry, so the bound on it has to go through the time of use. |
| `ChallengeStoreProofs!StoreImplementsGate` | the store implements `NonceGate` (`ImplementsGate`), on which `Custody` is built | Initial states map to initial states; every step maps to a step or a stutter under `SingleUseInv` and `ConsumedTaken` (what is in `_consumed` was taken, so a replay is of a spent nonce). Pruning drops a prefix of expired entries, which is one step of the gate. |
| `EnclaveSessionProofs!TypeCorrect`, `BudgetHolds`, `DecisionsBuyOneWindow` | `OpBudget`, `OneWindowPerDecision` for any cadence, ceiling and decisions | `BudgetInv`: what the running window has used is in `ops`, and earlier windows are full at most. The property speaks of the total and cannot see a window that is reset without being paid for. |
| `EnclaveSessionProofs!MonitorsEndCustody`, `NothingAfterWipe` | `MonitorEndsCustody`, `NoServiceAfterWipe` | `WipeInv`: the hook ran exactly if the key is gone, and a monitor that ended saw to it. |
| `EnclaveSessionProofs!LapsesAreNoticedInTime` | `LapseBound` for any poll interval | `SleepInv`: the monitor wakes within a poll of now and within a poll of the deadline, also of a deadline a renewal moved closer while it slept. |
| `ServingShutdownProofs!TypeCorrect`, `CallbacksRunOnce`, `BuffersOutliveWork` | `TeardownOnce`, `NoFreeUnderWork` for any number of threads | `ShutdownInv`: at most one thread is past the adapter's flag, it has invoked exactly the callbacks before its place, and from the unload on nothing is in flight. |
| `GpuRevocationProofs!TypeCorrect`, `FirstReleasesAreFresh`, `OutagesAreBounded` | `FirstReleaseIsFresh`, `OutageIsBounded` for any threads, any window and chains of any length | `HeldInv` dates a held GOOD, and one about to be stored, before the revocation; `CheckInv` says what the links already walked have shown. Stores in the wrong order are inside the invariant: they keep an answer that was true, and its age still counts from when it was given. |
| `ReleaseGateProofs!TypeCorrect`, `NoRetryAfterFailure` | nonce bookkeeping and `FailedAttemptIsFinal` for every set of requests | `TypeOK` is inductive and separates decided from fresh nonces. |
| `ReleaseGateProofs!ReleasesAreAttested`, `KeysFollowVerdicts`, `RenewalsAreAcceptable` | `ReleaseIsAttested`, `KeyFollowsVerdict`, `RenewalIsAcceptable` | `AnswerInv`: the answer is the decision on a request of the set. The rest is about `Decide`: a positive answer means that every check of the list passed, and the lemmas say which checks are in it. |
| `ReleaseGateProofs!RequirementsRestrict`, `ClaimsDoNotRelease` | `RequirementsOnlyRestrict`, `ClaimsCannotRelease`, which compare two requests | Check by check: dropping a requirement, or changing a claim, changes no check from passed to failed, or none at all; a check that a requirement adds to the list can only fail. |
| `ProvisioningProofs!TypeCorrect`, `PolicyOfAnEpochIsUnique`, `NoGrantIsRolledBack` | `OnePolicyPerEpoch`, `NoRollback` for any owners, policies, receivers | `GrantInv`: the key was provisioned under the floor's policy or under earlier epochs. The floor only rises, and provisioning needs the exact floor. |
| `ProvisioningProofs!InstalledOnce`, `SupersededGrantsExpire` | `InstallOnce`, `SupersededExpires` | `ChallengeInv`: an open challenge is open in one process and unanswered. `InstallInv`: an installed receiver never waits again. `WindowInv`: the request an envelope answers was made before the envelope, while its policy was the floor; the receiver's own window bounds it whatever expiry the network wrote. |
| `CustodyProofs!WindowsAreCutOff` | `CutOffBound` for any processes, decisions and clock difference | The bound counts the time between the image check and the signature of the renewal in force. `BrokerInv` (the process that runs is the last), `RequestInv` (a request that may still pass looked at the image before it retired), `DecisionInv` (a decision that renews was signed before its process stopped, by such a request, and lives for `DecisionTTL`), `WindowInv` (a window runs from the construction or from such a decision). |
| `CustodyProofs!WindowsRestOnChallenges` | `WindowsAreAttested` | `SpentInv`: a nonce that let a release or a renewal through let nothing else through. `UsedInv`: a session uses only decisions it asked for. So every window adds a challenge to `Behind`, and `AttestedInv` counts them; `WindowsAreAttested` alone does not know which challenges are already used up. |
| `PartsProofs!GuardLatchesOnce` | `LatchedOnce` for any threads and buffers | `LockInv` (who is between acquire and release holds the lock) and `LatchInv` (a teardown is owed or done, and then nobody scans). |
| `PartsProofs!ChainsEndOneProcess` | `OneProcessEnded` for chains of any length | `SignedInv`: a predecessor is of the same process, and a process that found its lease at an end holds no key. Along an accepted chain, from the terminal record backwards. |
| `PartsProofs!ChallengesAreObserved` | `ObservedAfterChallenge` | `ClockInv`, `ObservationInv`: a read is dated after the challenge its observation names; `VerifiedInv`: an accepted challenge is spent. |
| `PartsProofs!RevocationsHold` | `RevokedStaysUnrouted` for any number of processes | `LedgerInv`, `ServiceInv`, and `QuietInv`: once settled, and while a process that met no other removes the Service, no process is left between its ledger check and the creation of the Service. |
| `PartsProofs!VerifiedManifestsAreJoint`, `HonestSigningConverges` | `JointlySigned`, `SigningConverges` for any number of changes by the carrier | `ConsentInv`: however blocks are relabelled and cut up, their parts were signed by holders of the keys. `HonestInv`: in a file nobody touched every block is an honest party's over these fields. |
| `PartsProofs!VerifiedLineagesAreSound` | `LineageSound` for any finite set of manifests and any parent relation | `verify_lineage` walks upwards with a set of seen hashes; the ancestors are a closure. The walk that ends at a root visits every ancestor, by induction on its length. |
| `PartsProofs!AcceptedEvidenceIsGenuine`, `UndisturbedAttemptsVerify` | `AcceptedIsGenuine`, `UndisturbedAttemptVerifies` for chains and attempts of any number | `SignatureInv`: which bodies hardware keys have signed. `AttemptInv`: of the attempts between reset and quote only the last to touch PCR 23 is undisturbed. Path validation goes from the root to the leaf by induction. |
| `PartsProofs!KeysReachApproved` | `KeyReachesApproved` for any guests, files and runs of the client | `GuestInv`, `ReportInv`, `ClientInv` and `EnvelopeInv` carry the reason for which a key left (`Justified`) from the approval through the report and the client's checks to the envelope. |
| `PartsProofs!PassesAreEarned` | `PassIsEarned` for any corpus and scripts of any length | `TraceInv`: a scenario still being walked went as expected so far. |
| `PartsProofs!SweepsFindAliases` | `SweepFindsAliases` for any number of pages, any mapping and any drawn material | `CellsInv`: a written page holds the value of a page mapped onto it. That every page is written and read is arithmetic: the search for a step ends at one coprime to the count (at 1 at the latest), Euclid's lemma makes the positions distinct, and a one-to-one map of a finite set into itself is onto. |
| `PartsProofs!InclusionIsSound`, `ConsistencyIsSound` | Of logs of any length: an inclusion proof that verifies is of the entry at its index; a consistency proof that verifies shows a prefix. No list of hashes passes otherwise. | `Covers`: the pair `(fn, sn)` of the loop stands for the subtree over positions `lo .. hi - 1`, and one turn of the loop, climbing past the levels without a sibling, takes it to the subtree above (`ClimbRight`, `ClimbLeft`). `LeafFixed`, `PrefixFixed`: if the hash the loop holds is the one of that subtree, the entries are the log's; a hash is a free term, so the hash above fixes the one below. A loop that ends at `sn = 0` holds the root. |
| `PartsProofs!InclusionIsComplete`, `ConsistencyIsComplete` | Of logs of any length: what an honest log proves of itself verifies. | The paths are built from the root down and folded from the leaf up. Of the subtrees the loop reaches with the path built for them, the largest is the whole log: from a smaller one the loop goes on to the one above. For consistency the loop begins at the last complete subtree of the old log (`ConsistencyStart`), which is all of it exactly if its size is a power of two. |
| `PartsProofs!LogKeepsOneHistory`, `AcceptedLogsOnlyGrow` | `OneHistory` for logs of any length and any number of rewrites; and the step property that the log a monitor trusts only grows | `LogInv`: heads are signed over sequences of statements, and the watched entry is where it was proved. The steps are the four theorems above; `OneHistory` alone does not say that a head is the root of the log it was signed over. |

The assumptions are the named `ASSUME`s of the modules: numbers are naturals,
bounds are positive where the code refuses zero, `None`, `Free` and the like are
outside the sets they stand beside, sets of decisions, manifests and callers are
finite, requests are records of the fields the gate reads
(`RequestAssumption`, `ReportAssumption`), and an issuer's decision expires no
later than its evidence (`IssuerAssumption`: `verify_for_renewal` clips it).
TLC evaluates them in the runs.

The types are proved and not repeated as invariants of the runs, and so is
`IssuedDropped`. The inductive invariants are definitions of the component
modules; each was checked by TLC on the bounds of its run before it was proved.

Induction. The library's induction theorems take an operator as a parameter and
cannot be used. `LeastNatural` (a nonempty set of naturals has a least member,
from well-foundedness) takes their place: an induction is an argument about the
least member of the set of counterexamples. `WalkExists` shows by it that a
function given by a step and a start exists on `0 .. N`, which is what the loops
of `Lineage`, `CertificateChain` and `MemorySweep` need. For the tree the same is
shown of functions whose value at a size rests on smaller sizes
(`MthEquations`, `AuditPathEquations`, `ConsistencyProofEquations`), since
`SplitPoint` is smaller than the size it splits.

Only model-checked:

* liveness (`LapseIsNoticed`, `TerminationAttempted`), which needs fairness and
  `ENABLED`;
* `ThresholdHolds`: the field is computed with bitwise operators, which the
  provers do not know.

## 5. What is not modelled

* Cryptography: a signature, a seal and a digest are what they cover. Binary
  layouts and canonical JSON are named fields and identities; whether an input
  canonicalizes is a Boolean of the release gate, and there a quote's chain and
  signature are one Boolean, which `QuoteTrust` opens up.
* Strings, status codes, logging, configuration from the environment, and the
  retries of the HTTP client. A lost answer is an answer that is not delivered.
* The release route of the guest broker, which is the release gate behind an
  installed key; `require_artifacts`, which hashes files.
* The schema and most validators of `models.py`: conditions on single fields.
  The ones that decide who must sign are in `ManifestSigning`.
* The platform floor and the boot bundle: a printed appraisal of one report and
  an archive of files, without state.
* The software evidence provider, the codes the suite derives from structural
  errors, its live tier, its reports, and the commands that print what the
  library returns.
* The measurement scripts under `papers/`, the provisioning paper's drivers
  (they repeat the package's own protocol), and the tools that boot, package and
  release.
* `time_floor` and `stop_floor` labels of a session, which change no behaviour.

## 6. Where code and text disagree

* `revocation_race`: `NvidiaOcspClient.status` asks outside the lock and stores
  unconditionally, so a GOOD given before a revocation can replace the REVOKED
  stored meanwhile. The comment above the store says the reuse path can then
  only serve the revocation.
* `custody_evidence`: `from_release` starts a full cadence and does not read
  `evidence_not_after`; `ReleaseDecision` says that no window granted on the
  decision may extend past it. `apply_renewal` keeps the rule.
* `conformance_steps`: the evaluators of scenario vectors return at the first
  refusal that was expected, and never perform the steps behind it. The module
  says that an implementation "walks the steps, performs each operation, and
  compares the outcome"; five vectors of the corpus have such a tail. The
  property is about such a tail only, and TLC's trace is one: the refusal comes
  as declared, and the step behind it was never asked for.

Four more were met while modelling and have no run of their own. A step that
declares "ok" and is refused with the code that a later step declares ends the
scenario too, and `_score` compares only the vector's code, so it passes
(`conformance.py:657` and `703`, `827`, `939`). A denial
changes nothing in the session (`custody.py:475`), so a decision signed earlier
and still valid extends the lease afterwards, where `custody.py:127` and
`SPEC.md:197` call the remainder unextendable. The first entry of the presented
measurement decides (`kbs.py:422`) and the manifest model allows a second one,
so a status "revoked" that was appended is not seen (`SPEC.md:199`). And
`score_results` counts an id that is in no vector of the scope among the failing
outcomes, where its comment says "Not a failure: it may be a newer suite"; a
full results file scored for one level therefore always fails.

Two smaller ones follow from properties that hold in a weaker form:
`CutOffBound` has two terms on top of the cadence that `SPEC.md` names, the
lifetime of a decision and the time a renewal spends in the gate behind the
image check: `_check_serving_image` reads the clock (`kbs.py:449`), the live
revocation check then waits for the responder (`kbs.py:877`, with up to five
attempts per certificate), and `issued_at` is read after it (`kbs.py:393`). So a
renewal may be signed after `retire_after`, for an image that was in use when
the gate looked. And `RetentionWindow` bounds the stay of a used nonce by a TTL
after its use, where the comment on `_consumed` says until its expiry. And one
follows from the shape of `RevokedStaysUnrouted`: a controller process that is
past its ledger check when the tombstone is written creates the Service again,
and it stays until the next `reconcile`.

## 7. Plan

Done: the core in the order challenge store, session, shutdown, revocation,
custody protocol, provisioning, release gate; the records and the authority
parts; the safety properties of all of them as theorems, with the exception of
section 4.

Left, in this order:

1. The guest broker's release route composed with `BrokerDeployment`, so that
   what the installed key is used for is in one module with how it got there.
2. The platform floor's comparison, and canonicalisation as a conversion between
   a document and its bytes.
