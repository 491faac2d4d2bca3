-------------------------- MODULE BrokerDeployment --------------------------
(***************************************************************************)
(* A model key on its way into a broker guest: the deployment approval     *)
(* (python/src/wcm/deployment_identity.py), the owner's one-shot client    *)
(* (owner_provision.py with OwnerProvisioner.provision), the guest's entry *)
(* point (guest_broker.py) and the receiver behind its routes              *)
(* (broker_server.py, broker_receiver.py).                                 *)
(*                                                                         *)
(* The host that runs the guests picks their image, their configuration    *)
(* and the policy they are told, and carries every message. Hardware signs *)
(* what a guest is. Code of the image that was reviewed does what the      *)
(* source says; any other image answers as it likes. Epochs, expiry and    *)
(* the owner's other processes are in Provisioning.                        *)
(***************************************************************************)
EXTENDS Integers, Sequences, FiniteSets

CONSTANTS
    Guests,         \* guests of the host; each has its own transport key
    ClientRuns,     \* runs of the client; each issues one challenge, named after it
    Profiles,       \* what a guest may be: [image, config, told, version, guest, vmpl, tcb,
                    \* on, off]; guest is its guest policy, a set of bits; on and off are the
                    \* platform fields its report gives as true and as false
    OwnerPolicies,  \* what the client's policy file may hold: [image, config, guest, tcb,
                    \* required, forbidden]
    ReviewedPolicy, \* the one the deployment approval was derived with
    MaxReports      \* bound on the reports signed

Reviewed == "reviewed"      \* the image built from the reviewed artifacts

VARIABLES
    pin,        \* the client's deployment_approval_identity: an approval, or NoApproval
    filed,      \* the approval file beside it
    guest,      \* Guests -> [is, pending, seen, key]; is = NotBooted before its boot
    progress,   \* ClientRuns -> where provision_from_file is
    policyOf,   \* ClientRuns -> the policy loaded
    signedReports,  \* reports the hardware signed
    sealedFor,  \* ClientRuns -> the guest whose transport key the envelope is sealed to
    posted      \* envelopes on the network

deploymentVars == <<pin, filed, guest, progress, policyOf, signedReports, sealedFor, posted>>

NoApproval == [artifacts |-> "none"]
NotBooted  == [image |-> "none"]
NoRun      == "no run"
NoGuest    == "no guest"

-----------------------------------------------------------------------------
(* Deployment approval.                                                    *)

\* The launch digest of an image, as the measurement tool predicts it and the CPU reports it.
LaunchDigest(artifacts) == artifacts

\* BrokerProvisioningPolicy: no policy allows debugging, none contradicts itself.
ValidPolicy(policy) == "debug" \notin policy.guest /\ policy.required \cap policy.forbidden = {}

\* require_policy: the policy's measurement and configuration are the approval's, and so is
\* the digest of the whole policy.
RequirePolicy(approval, policy) ==
    /\ policy.image = approval.measurement
    /\ policy.config = approval.config
    /\ policy = approval.policy

\* derive_approval, on the owner's host: nothing, or an approval its own policy meets.
DeriveApproval(artifacts, policy) ==
    {a \in {[artifacts |-> artifacts, measurement |-> LaunchDigest(artifacts),
             config |-> policy.config, policy |-> policy]} :
        ValidPolicy(policy) /\ RequirePolicy(a, policy)}

\* load_approval and provision_from_file: with a pin, the file must be the pinned approval,
\* and the policy must meet it.
MayUse(policy) == pin # NoApproval => filed = pin /\ RequirePolicy(filed, policy)

-----------------------------------------------------------------------------
DeploymentInit ==
    /\ pin \in {NoApproval} \cup DeriveApproval(Reviewed, ReviewedPolicy)
    /\ IF pin = NoApproval THEN filed = NoApproval
       ELSE filed \in UNION {DeriveApproval(a, p) : a \in {Reviewed, "other"}, p \in OwnerPolicies}
    /\ guest = [g \in Guests |-> [is |-> NotBooted, pending |-> NoRun, seen |-> {}, key |-> NoRun]]
    /\ progress = [r \in ClientRuns |-> "start"]
    /\ policyOf \in [ClientRuns -> OwnerPolicies]
    /\ signedReports = {}
    /\ sealedFor = [r \in ClientRuns |-> NoGuest]
    /\ posted = {}

(* The guest.                                                              *)

\* Fault: the guest takes the configuration digest it is told.
AnyConfiguration(is) == TRUE

\* guest_inputs and BrokerReceiver.__init__: the digest of the configuration the guest
\* enforces is the one in the policy it was told.
ConfigurationMatches(is) == is.config = is.told.config

\* main: the host picks what the guest is; the reviewed image starts no receiver on a policy
\* or a configuration that guest_inputs refuses.
BootGuest(g) ==
    /\ guest[g].is = NotBooted
    /\ \E is \in Profiles : /\ is.image = Reviewed => ValidPolicy(is.told) /\ ConfigurationMatches(is)
                            /\ guest' = [guest EXCEPT ![g].is = is]
    /\ UNCHANGED <<pin, filed, progress, policyOf, signedReports, sealedFor, posted>>

\* What hardware signs for guest g: what it is, and the data its software chose, a binding
\* of a nonce, a policy and a transport key.
ReportOf(g, nonce, policy, key) ==
    [is |-> [f \in {"image", "version", "guest", "vmpl", "tcb", "on", "off"} |-> guest[g].is[f]],
     nonce |-> nonce, policy |-> policy, key |-> key]

\* POST /provisioning/report: provisioning_report_data over the receiver's own inputs. The
\* request is pending also when the device then signs nothing.
AnswerReport(g, nonce) ==
    /\ guest[g].is.image = Reviewed
    /\ guest[g].key = NoRun /\ nonce \notin guest[g].seen
    /\ guest' = [guest EXCEPT ![g].pending = nonce, ![g].seen = @ \cup {nonce}]
    /\ \E signs \in BOOLEAN : signedReports' =
         IF signs THEN signedReports \cup {ReportOf(g, nonce, guest[g].is.told, g)} ELSE signedReports
    /\ UNCHANGED <<pin, filed, progress, policyOf, sealedFor, posted>>

\* Another image asks its CPU to sign a binding of its choice.
ForeignReport(g, nonce) ==
    /\ guest[g].is \notin {NotBooted} /\ guest[g].is.image # Reviewed
    /\ \E k \in Guests :
         signedReports' = signedReports \cup {ReportOf(g, nonce, guest[g].is.told, k)}
    /\ UNCHANGED <<pin, filed, guest, progress, policyOf, sealedFor, posted>>

\* open_provisioned_key: the owner's signature and the seal cover the policy and the
\* transport key, and the receiver puts in its own.
OpenProvisionedKey(g, e) == e.policy = guest[g].is.told /\ e.key = g

\* POST /provisioning/install: any attempt consumes the pending request.
AnswerInstall(g, e) ==
    /\ guest[g].is.image = Reviewed
    /\ guest[g].key = NoRun /\ guest[g].pending # NoRun
    /\ guest' = [guest EXCEPT ![g].pending = NoRun,
                              ![g].key = IF /\ e.nonce = guest[g].pending
                                            /\ OpenProvisionedKey(g, e)
                                         THEN e.nonce ELSE NoRun]
    /\ UNCHANGED <<pin, filed, progress, policyOf, signedReports, sealedFor, posted>>

\* Another image opens what was sealed to its key.
ForeignOpen(g, e) ==
    /\ guest[g].is \notin {NotBooted} /\ guest[g].is.image # Reviewed
    /\ guest[g].key = NoRun /\ e.key = g
    /\ guest' = [guest EXCEPT ![g].key = e.nonce]
    /\ UNCHANGED <<pin, filed, progress, policyOf, signedReports, sealedFor, posted>>

(* The client.                                                             *)

\* The files are read and checked, the challenge is issued and posted.
ClientStart(r) ==
    /\ progress[r] = "start"
    /\ ValidPolicy(policyOf[r]) /\ MayUse(policyOf[r])
    /\ progress' = [progress EXCEPT ![r] = "challenged"]
    /\ UNCHANGED <<pin, filed, guest, policyOf, signedReports, sealedFor, posted>>

\* Fault: a TCB is one number, its last component the most significant.
TcbAsNumber(tcb, floor) == tcb[2] > floor[2] \/ (tcb[2] = floor[2] /\ tcb[1] >= floor[1])

\* Every component of a TCB is at its floor: it is no number to compare.
TcbMeets(tcb, floor) == \A i \in DOMAIN floor : tcb[i] >= floor[i]

\* What provision asks of the signed report besides its signature. A platform field that a
\* report of this version cannot carry is neither true nor false.
Appraised(r, report, key) ==
    LET policy == policyOf[r]
    IN  /\ report.nonce = r /\ report.policy = policy /\ report.key = key
        /\ report.is.version >= 2 /\ report.is.image = policy.image
        /\ report.is.guest = policy.guest /\ "debug" \notin report.is.guest
        /\ report.is.vmpl = 0
        /\ TcbMeets(report.is.tcb, policy.tcb)
        /\ policy.required \subseteq report.is.on
        /\ policy.forbidden \subseteq report.is.off

\* The answer to the challenge is some report and some transport key.
ClientProvision(r) ==
    /\ progress[r] = "challenged"
    /\ \E report \in signedReports, key \in Guests :
         /\ Appraised(r, report, key)
         /\ sealedFor' = [sealedFor EXCEPT ![r] = key]
    /\ progress' = [progress EXCEPT ![r] = "sealed"]
    /\ UNCHANGED <<pin, filed, guest, policyOf, signedReports, posted>>

ClientPost(r) ==
    /\ progress[r] = "sealed"
    /\ posted' = posted \cup {[nonce |-> r, policy |-> policyOf[r], key |-> sealedFor[r]]}
    /\ progress' = [progress EXCEPT ![r] = "posted"]
    /\ UNCHANGED <<pin, filed, guest, policyOf, signedReports, sealedFor>>

\* The reply says installed. Nobody signed it.
ClientAcknowledged(r) ==
    /\ progress[r] = "posted"
    /\ progress' = [progress EXCEPT ![r] = "acknowledged"]
    /\ UNCHANGED <<pin, filed, guest, policyOf, signedReports, sealedFor, posted>>

\* A refusal, a malformed or missing answer or a timeout, wherever the run is: main exits
\* with "installation outcome unknown".
ClientFails(r) ==
    /\ progress[r] \notin {"acknowledged", "failed"}
    /\ progress' = [progress EXCEPT ![r] = "failed"]
    /\ UNCHANGED <<pin, filed, guest, policyOf, signedReports, sealedFor, posted>>

DeploymentNext ==
    \/ \E g \in Guests : BootGuest(g)
    \/ \E g \in Guests, r \in ClientRuns :
         /\ progress[r] # "start" /\ Cardinality(signedReports) < MaxReports
         /\ (AnswerReport(g, r) \/ ForeignReport(g, r))
    \/ \E g \in Guests, e \in posted : AnswerInstall(g, e) \/ ForeignOpen(g, e)
    \/ \E r \in ClientRuns : \/ ClientStart(r) \/ ClientProvision(r) \/ ClientPost(r)
                             \/ ClientAcknowledged(r) \/ ClientFails(r)

DeploymentSpec == DeploymentInit /\ [][DeploymentNext]_deploymentVars

-----------------------------------------------------------------------------
\* Whatever the host boots, tells, relays or repeats: a key that left under a policy for the
\* reviewed image is held only by a guest that is what this policy asks for, the measured
\* image with the policy's configuration and guest policy, no debugging, VMPL 0, every TCB
\* component at its floor, the required platform fields on and the forbidden ones off. With a pinned approval no key leaves under another
\* policy than the reviewed one, whatever the approval and policy files hold
\* (OwnerProvisioner.provision, guest_inputs, BrokerReceiver.install,
\* DeploymentApproval.require_policy, load_approval).
KeyReachesApproved ==
    \A g \in Guests : guest[g].key # NoRun =>
        LET is     == guest[g].is
            policy == policyOf[guest[g].key]
        IN  /\ pin # NoApproval => policy = ReviewedPolicy
            /\ policy.image = Reviewed =>
                 /\ is.image = Reviewed /\ is.config = policy.config
                 /\ is.guest = policy.guest /\ "debug" \notin is.guest /\ is.vmpl = 0
                 /\ policy.required \subseteq is.on /\ policy.forbidden \subseteq is.off
                 /\ \A i \in DOMAIN policy.tcb : is.tcb[i] >= policy.tcb[i]

(* The inductive invariant behind it: the envelope of a run can be opened  *)
(* by the one guest whose transport key a signed report named, and a       *)
(* report of the reviewed image names the key of the guest it describes.   *)

GuestStates == [is : {NotBooted} \cup Profiles, pending : {NoRun} \cup ClientRuns,
                seen : SUBSET ClientRuns, key : {NoRun} \cup ClientRuns]

GuestInv == /\ guest \in [Guests -> GuestStates]
            /\ \A g \in Guests : guest[g].is.image = Reviewed => ConfigurationMatches(guest[g].is)

ApprovalInv == pin # NoApproval => pin.policy = ReviewedPolicy

ReportInv == \A report \in signedReports : report.is.image = Reviewed =>
    report.key \in Guests
    /\ report = ReportOf(report.key, report.nonce, guest[report.key].is.told, report.key)

\* The client checked its files for run r, and a report of this run for transport key k.
Justified(r, k) ==
    /\ r \in ClientRuns /\ k \in Guests
    /\ MayUse(policyOf[r])
    /\ \E report \in signedReports : Appraised(r, report, k)

Stages == {"start", "challenged", "sealed", "posted", "acknowledged", "failed"}

ClientInv == /\ progress \in [ClientRuns -> Stages]
             /\ sealedFor \in [ClientRuns -> Guests \cup {NoGuest}]
             /\ \A r \in ClientRuns :
                  /\ progress[r] = "challenged" => MayUse(policyOf[r])
                  /\ progress[r] = "sealed" => Justified(r, sealedFor[r])

EnvelopeInv == /\ \A e \in posted : Justified(e.nonce, e.key)
               /\ \A g \in Guests : guest[g].key # NoRun => Justified(guest[g].key, g)

=============================================================================
