\* A scenario vector that passes should have run all of its steps.
SPECIFICATION SuiteSpec
CONSTANTS
    MaxTampers = 2
    Hashes = {"a", "b", "c"}
    Leaf = "a"
    Environments = {"e"}
    SecretBytes = {0, 1, 83, 255}
    Coefficients = {0, 2, 202}
    MaxShares = 3
    Nonces = {"n1", "n2"}
    Attempts = {"a1", "a2"}
    MaxChain = 3
    MaxSignatures = 2
    MaxResets = 2
    g1 = g1
    g2 = g2
    r1 = r1
    r2 = r2
    Guests = {g1, g2}
    ClientRuns = {r1, r2}
    Profiles <- MCProfiles
    OwnerPolicies <- MCOwnerPolicies
    ReviewedPolicy <- MCReviewedPolicy
    MaxReports = 2
    Corpus <- MCCorpus
    OtherIds = {"newer"}
    Codes = {"c1", "c2"}
    MaxSteps = 3
    Dates = {0, 1, 2}
INVARIANT
    ScenarioWalksTheSteps
\* The suite stops when it has judged.
CHECK_DEADLOCK FALSE
