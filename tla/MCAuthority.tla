---------------------------- MODULE MCAuthority ----------------------------
(***************************************************************************)
(* The parts that decide whose word is taken: signatures on a manifest,    *)
(* its lineage, shares of a key, vendor quotes, the guest a key goes to,   *)
(* and the suite that judges an implementation. Each is explored alone:    *)
(* part says which one an execution is about, and the state of the others  *)
(* stays at one initial value.                                             *)
(***************************************************************************)
EXTENDS ManifestSigning, Lineage, Threshold, QuoteTrust, BrokerDeployment, Conformance,
        TLC

CONSTANTS g1, g2, r1, r2    \* two guests, two runs of the owner's client

VARIABLE part

\* No definition tells the guests apart, or the runs.
Symmetry == Permutations(Guests) \cup Permutations(ClientRuns)

\* Three vectors at two levels: one to accept, two to reject with different codes.
MCCorpus == {[id |-> "v1", level |-> "L1", expect |-> "accept", code |-> "none"],
             [id |-> "v2", level |-> "L1", expect |-> "reject", code |-> "c1"],
             [id |-> "v3", level |-> "L4", expect |-> "reject", code |-> "c2"]}

\* The reviewed policy; one with a lower floor that asks less of the platform, one for
\* another image, one for another configuration, one that allows debugging and one that
\* contradicts itself.
MCReviewedPolicy ==
    [image |-> "reviewed", config |-> "c", guest |-> {}, tcb |-> <<1, 1>>,
     required |-> {"alias"}, forbidden |-> {"smt"}]
MCOwnerPolicies ==
    {MCReviewedPolicy,
     [MCReviewedPolicy EXCEPT !.tcb = <<0, 1>>, !.required = {}, !.forbidden = {}],
     [MCReviewedPolicy EXCEPT !.image = "other"], [MCReviewedPolicy EXCEPT !.config = "d"],
     [MCReviewedPolicy EXCEPT !.guest = {"debug"}],
     [MCReviewedPolicy EXCEPT !.forbidden = {"alias"}]}

\* A guest as it should be, told any policy, and guests that differ from it in one respect;
\* the one whose report is of version 2 cannot say whether the alias check was done.
MCProfiles ==
    LET good == [image |-> "reviewed", config |-> "c", told |-> MCReviewedPolicy, version |-> 3,
                 guest |-> {}, vmpl |-> 0, tcb |-> <<1, 1>>, on |-> {"alias"}, off |-> {"smt"}]
    IN  {[good EXCEPT !.told = p] : p \in MCOwnerPolicies}
        \cup {[good EXCEPT !.image = "other", !.told = p] : p \in
                {MCReviewedPolicy, [MCReviewedPolicy EXCEPT !.image = "other"]}}
        \cup {[good EXCEPT !.config = "d"], [good EXCEPT !.guest = {"migration"}],
              [good EXCEPT !.guest = {"debug"}], [good EXCEPT !.vmpl = 1],
              [good EXCEPT !.tcb = <<0, 2>>], [good EXCEPT !.version = 2, !.on = {}],
              [good EXCEPT !.on = {"alias", "smt"}, !.off = {}]}

SigningRests ==
    /\ doc = CHOOSE d \in Documents : ValidDocument(d) /\ d.terms = "agreed"
                                      /\ d.authority = "omitted"
    /\ blocks = {} /\ consent = {} /\ tampers = 0
    /\ context = [trusted |-> {"kB", "kC", "kS"}, bindings |-> {}]

\* custody is read by ValidDocument only: without byom-symmetric one value is enough.
CustodyFollowsDeployment == doc.custody = "self" => doc.deployment = "byom-symmetric"

LineageRests ==
    /\ parent = [h \in Hashes |-> Root]
    /\ policy = [h \in Hashes |-> CHOOSE p \in Policies : TRUE]
    /\ envs = [h \in Hashes |-> {}]
    /\ revoked = {} /\ logged = Hashes

\* Manifests the leaf does not descend from are never read: one value of each is enough.
OthersAreBlank ==
    \A h \in Hashes \ Ancestors(Leaf) :
        parent[h] = Root /\ policy[h] = "unspecified" /\ envs[h] = {}

ThresholdRests ==
    /\ secret = CHOOSE b \in SecretBytes : TRUE
    /\ threshold = 2
    /\ dealt = SplitSecret(secret, <<CHOOSE c \in Coefficients : TRUE>>, 2)
    /\ brought = <<>> /\ outcome = Refusal - 1

QuoteRests ==
    /\ provider = "gpu"
    /\ config = [container |-> FALSE, launch |-> TRUE, requireLaunch |-> TRUE,
                 paravisors |-> {"paravisor"}]
    /\ signatures = {} /\ pcr23 = <<"other">> /\ attempt = [a \in Attempts |-> NoAttempt]
    /\ bundles = {} /\ resets = 0 /\ verdict = {}

DeploymentRests ==
    /\ pin = NoApproval /\ filed = NoApproval
    /\ guest = [g \in Guests |-> [is |-> NotBooted, pending |-> NoRun, seen |-> {}, key |-> NoRun]]
    /\ progress = [r \in ClientRuns |-> "start"]
    /\ policyOf = [r \in ClientRuns |-> ReviewedPolicy]
    /\ signedReports = {} /\ sealedFor = [r \in ClientRuns |-> NoGuest] /\ posted = {}

SuiteRests ==
    /\ task = "external" /\ scope = "all" /\ document = SomeDocument /\ script = <<>>
    /\ checks = AllChecks
    /\ capture = SomeCapture /\ trace = <<>> /\ judged = {} /\ reported = NoResults

Init ==
    \/ /\ part = "signing" /\ SigningInit /\ CustodyFollowsDeployment
       /\ LineageRests /\ ThresholdRests /\ QuoteRests /\ DeploymentRests /\ SuiteRests
    \/ /\ part = "lineage" /\ LineageInit /\ OthersAreBlank
       /\ SigningRests /\ ThresholdRests /\ QuoteRests /\ DeploymentRests /\ SuiteRests
    \/ /\ part = "threshold" /\ ThresholdInit
       /\ SigningRests /\ LineageRests /\ QuoteRests /\ DeploymentRests /\ SuiteRests
    \/ /\ part = "quote" /\ QuoteInit
       /\ SigningRests /\ LineageRests /\ ThresholdRests /\ DeploymentRests /\ SuiteRests
    \/ /\ part = "deployment" /\ DeploymentInit
       /\ SigningRests /\ LineageRests /\ ThresholdRests /\ QuoteRests /\ SuiteRests
    \/ /\ part = "suite" /\ SuiteInit
       /\ SigningRests /\ LineageRests /\ ThresholdRests /\ QuoteRests /\ DeploymentRests

SigningPart ==
    /\ part = "signing" /\ SigningNext
    /\ UNCHANGED <<part, lineageVars, thresholdVars, quoteVars, deploymentVars, suiteVars>>

LineagePart ==
    /\ part = "lineage" /\ LineageNext
    /\ UNCHANGED <<part, signingVars, thresholdVars, quoteVars, deploymentVars, suiteVars>>

ThresholdPart ==
    /\ part = "threshold" /\ ThresholdNext
    /\ UNCHANGED <<part, signingVars, lineageVars, quoteVars, deploymentVars, suiteVars>>

QuotePart ==
    /\ part = "quote" /\ QuoteNext
    /\ UNCHANGED <<part, signingVars, lineageVars, thresholdVars, deploymentVars, suiteVars>>

DeploymentPart ==
    /\ part = "deployment" /\ DeploymentNext
    /\ UNCHANGED <<part, signingVars, lineageVars, thresholdVars, quoteVars, suiteVars>>

SuitePart ==
    /\ part = "suite" /\ SuiteNext
    /\ UNCHANGED <<part, signingVars, lineageVars, thresholdVars, quoteVars, deploymentVars>>

Next == SigningPart \/ LineagePart \/ ThresholdPart \/ QuotePart \/ DeploymentPart \/ SuitePart

vars == <<part, signingVars, lineageVars, thresholdVars, quoteVars, deploymentVars, suiteVars>>

Spec == Init /\ [][Next]_vars

\* The suite alone.
SuiteSpec == (part = "suite" /\ SuiteInit /\ SigningRests /\ LineageRests
                             /\ ThresholdRests /\ QuoteRests /\ DeploymentRests)
             /\ [][SuitePart]_vars

=============================================================================
