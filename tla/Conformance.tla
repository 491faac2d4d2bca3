---------------------------- MODULE Conformance ----------------------------
(***************************************************************************)
(* The conformance suite: python/src/wcm/conformance.py and                *)
(* _vendor_vectors.py. It judges an implementation in four ways: a results *)
(* file another implementation wrote is scored; a document with one defect *)
(* is verified and the code of what was noticed first is compared; a       *)
(* scenario vector is walked step by step against the gate or the session; *)
(* a vendor capture is verified and then spoilt in six ways, each of which *)
(* must be refused for the declared reason.                                *)
(***************************************************************************)
EXTENDS Integers, Sequences, FiniteSets, SequencesExt

CONSTANTS
    Corpus,     \* vectors: [id, level, expect, code]
    OtherIds,   \* ids a results file may name that no vector has
    Codes,      \* WCM-* codes
    MaxSteps,   \* bound on the steps of a scenario
    Dates       \* small numbers standing for instants

VARIABLES
    task,      \* "external" | "document" | "scenario" | "vendor"
    scope,     \* the level asked for, or "all"
    reported,  \* the results file: ids -> entry; a later entry for an id replaces it
    document,  \* the document vector: [kind, defect, also]
    script,    \* the scenario's steps: what each expects
    trace,     \* what the implementation did in the steps run so far
    checks,    \* the checks the verifier under test performs
    capture,   \* the vendor vector
    judged     \* the suite's judgement: a set of at most one record

suiteVars == <<task, scope, reported, document, script, trace, checks, capture, judged>>

NoCode == "none"

\* None is no code; an instant has a next one.
ASSUME SuiteAssumption == NoCode \notin Codes /\ Dates \subseteq Nat /\ MaxSteps \in Nat

-----------------------------------------------------------------------------
(* Scoring.                                                                *)

Levels   == {v.level : v \in Corpus}
InScope  == {v \in Corpus : scope \in {"all", v.level}}

\* Fault: a rejection counts whatever code it reports.
VerdictOnly(v, verdict, code) == verdict = v.expect

\* _score: a reject is right only with the declared code.
Scored(v, verdict, code) == verdict = v.expect /\ (v.expect = "reject" => code = v.code)

\* score_results: silence about a vector, or a verdict that is neither, is a failure.
VectorPassed(v) ==
    /\ v.id \in DOMAIN reported
    /\ reported[v.id].verdict \in {"accept", "reject"}
    /\ Scored(v, reported[v.id].verdict, reported[v.id].code)

\* SuiteReport.ok: a level with no vectors does not pass, and results for ids that are not
\* among the vectors in scope are appended as failing outcomes.
SuiteOk ==
    /\ InScope # {}
    /\ \A v \in InScope : VectorPassed(v)
    /\ DOMAIN reported \subseteq {v.id : v \in InScope}

ReportEntry ==
    /\ task = "external" /\ judged = {}
    /\ \E id \in {v.id : v \in Corpus} \cup OtherIds, verdict \in {"accept", "reject", "other"},
          code \in Codes \cup {NoCode} :
         /\ verdict # "reject" => code = NoCode
         /\ reported' = [x \in DOMAIN reported \cup {id} |->
                           IF x = id THEN [verdict |-> verdict, code |-> code] ELSE reported[x]]
    /\ UNCHANGED <<task, scope, document, script, trace, checks, capture, judged>>

ScoreResults ==
    /\ task = "external" /\ judged = {}
    /\ judged' = {[ok |-> SuiteOk, code |-> NoCode]}
    /\ UNCHANGED <<task, scope, reported, document, script, trace, checks, capture>>

-----------------------------------------------------------------------------
(* Documents: _eval_signature and _eval_lineage. What a verifier notices,  *)
(* in the order in which _first_code asks for it.                          *)

CodeOrder(kind) ==
    IF kind = "signature"
    THEN <<"untrusted-key", "algorithm-mismatch", "bad-signature", "no-sovereign-signer",
           "missing-role">>
    ELSE <<"cycle", "missing-parent", "forbidden", "widened", "revoked", "not-logged">>

NoDefect == "no-defect"

\* A vector plants one defect. One in a signature block leaves its role unsatisfied, and
\* perhaps the sovereign's; a derivative's defects are independent.
Entailed(kind, defect) ==
    IF kind = "lineage" \/ defect \in {NoDefect, "missing-role"} THEN {{}}
    ELSE IF defect = "no-sovereign-signer" THEN {{"missing-role"}}
    ELSE {{}, {"missing-role"}, {"no-sovereign-signer", "missing-role"}}

DocumentVectors ==
    UNION {UNION {{[kind |-> k, defect |-> d, also |-> a] : a \in Entailed(k, d)} :
                  d \in Range(CodeOrder(k)) \cup {NoDefect}} :
           k \in {"signature", "lineage"}}

Noticed == ({document.defect} \cup document.also) \cap checks

\* _first_code
FirstCode(kind, noticed) ==
    LET order == CodeOrder(kind)
    IN  order[CHOOSE i \in DOMAIN order :
                order[i] \in noticed /\ \A j \in 1 .. (i - 1) : order[j] \notin noticed]

EvaluateDocument ==
    /\ task = "document" /\ judged = {}
    /\ judged' = {[ok |-> IF document.defect = NoDefect THEN Noticed = {}
                          ELSE Noticed # {} /\ FirstCode(document.kind, Noticed) = document.defect,
                   code |-> NoCode]}
    /\ UNCHANGED <<task, scope, reported, document, script, trace, checks, capture>>

-----------------------------------------------------------------------------
(* Scenarios: _eval_gate, _eval_custody, evaluate. A step expects "ok" (a  *)
(* release, a use, a re-attestation), a refusal, or a "fact" (assert_state,*)
(* assert_time_floor, tick with a state); the implementation does "ok",    *)
(* refuses with a code, or is "wrong" about a fact or the form of the key, *)
(* which is reported with no code or one that no vector declares.          *)

StepKinds == {"ok", "refuse", "fact"}
Doings(kind) == {"ok"} \cup (IF kind = "refuse" THEN {} ELSE {"wrong"})
                      \cup (IF kind = "fact" THEN {} ELSE Codes)

Behaved(kind, doing) == IF kind = "refuse" THEN doing \in Codes ELSE doing = "ok"

\* Fault: the runner goes on after a step that did not go as expected.
CarriesOn(kind, doing, last) ==
    IF kind = "refuse" /\ doing \in Codes THEN {[verdict |-> "reject", code |-> doing]}
    ELSE IF last THEN {[verdict |-> "accept", code |-> NoCode]}
    ELSE {}

\* The verdict a step decides, if it decides one: a step that expected a refusal and got
\* it ends the vector there; so does one that went otherwise (_ScenarioError).
StepVerdict(kind, doing, last) ==
    IF kind = "refuse" /\ doing \in Codes THEN {[verdict |-> "reject", code |-> doing]}
    ELSE IF ~Behaved(kind, doing)
         THEN {[verdict |-> "reject", code |-> IF doing \in Codes THEN doing ELSE NoCode]}
    ELSE IF last THEN {[verdict |-> "accept", code |-> NoCode]}
    ELSE {}

\* What a vector of the corpus declares: reject, with the code of its first refusal, or
\* accept.
Expectation ==
    IF \E i \in DOMAIN script : script[i].kind = "refuse"
    THEN [verdict |-> "reject",
          code |-> script[CHOOSE i \in DOMAIN script :
                            /\ script[i].kind = "refuse"
                            /\ \A j \in 1 .. (i - 1) : script[j].kind # "refuse"].code]
    ELSE [verdict |-> "accept", code |-> NoCode]

RunStep ==
    /\ task = "scenario" /\ judged = {}
    /\ Len(trace) < Len(script)
    /\ LET kind == script[Len(trace) + 1].kind
       IN  \E doing \in Doings(kind) :
             /\ trace' = Append(trace, doing)
             /\ judged' = {[ok |-> v = Expectation, code |-> v.code] :
                             v \in StepVerdict(kind, doing, Len(trace) + 1 = Len(script))}
    /\ UNCHANGED <<task, scope, reported, document, script, checks, capture>>

-----------------------------------------------------------------------------
(* Vendor captures.                                                        *)

Formats      == {"sev-snp-report", "tdx-quote", "nvidia-attestation-report"}
NonceKinds   == {"nonce-digest", "nonce-and-transport", "nonce-echo"}
BindingKinds == NonceKinds \cup {"attestation-key", "none"}
AllChecks    == {"validity", "anchor", "signature", "binding"}

\* A capture: bound says that REPORT_DATA really binds the vector's nonce, offset is the
\* nonce_offset it declares (NVIDIA's or another), expiry is the
\* earliest expiry on its chain, which has intermediates and a root the runner staged or not.
Captures == [format : Formats, kind : BindingKinds, nonce : BOOLEAN, bound : BOOLEAN,
             offset : {"none", "nvidia", "other"}, staged : BOOLEAN, expiry : Dates,
             notAfter : Dates, now : Dates]

\* _validate_shape: a nonce kind carries a nonce, and a GPU report echoes one, somewhere.
ShapeOk(c) ==
    /\ c.kind \in NonceKinds => c.nonce
    /\ (c.kind = "nonce-echo") <=> (c.offset # "none")
    /\ (c.format = "nvidia-attestation-report") <=> (c.kind = "nonce-echo")

\* evaluate_vendor refuses the vector itself: shape, root not staged, recorded horizon.
Usable(c) == ShapeOk(c) /\ c.staged /\ c.notAfter = c.expiry

\* What each check finds in the capture as it is.
Intact(c, now) ==
    [validity |-> now <= c.expiry, anchor |-> TRUE, signature |-> TRUE, binding |-> c.bound]

\* The first check, in the verifier's order, that notices something; "ok" if none does.
FirstRefusal(facts, asked) ==
    LET notices(check) == /\ check \in checks
                          /\ ~facts[check]
                          /\ check = "binding" => asked
    IN  CASE notices("validity") -> "validity"
          [] ~notices("validity") /\ notices("anchor") -> "anchor"
          [] ~notices("validity") /\ ~notices("anchor") /\ notices("signature") -> "signature"
          [] ~notices("validity") /\ ~notices("anchor") /\ ~notices("signature")
               /\ notices("binding") -> "binding"
          [] OTHER -> "ok"

\* _build_verifier: a GPU report whose vector misplaces the nonce is not verified at all.
NonceMisplaced(c) == c.format = "nvidia-attestation-report" /\ c.offset # "nvidia"

VendorRefusal(c, facts, asked) == IF NonceMisplaced(c) THEN "offset" ELSE FirstRefusal(facts, asked)

Cases == {"wrong-binding", "tampered-report", "tampered-signature", "stripped-chain",
          "out-of-chain-root", "expired-at-now"}

\* The reason each case declares (reason_contains).
DeclaredReason(case) ==
    CASE case = "wrong-binding"                             -> "binding"
      [] case \in {"tampered-report", "tampered-signature"} -> "signature"
      [] case \in {"stripped-chain", "out-of-chain-root"}   -> "anchor"
      [] OTHER                                              -> "validity"

\* The captured bytes: how many, which of them the report's signature covers, and where
\* the signature is. The rest of a TDX quote is certification data.
Size(format) ==
    CASE format = "sev-snp-report" -> 1184 [] format = "tdx-quote" -> 8000 [] OTHER -> 1000
SignedBytes(format) ==
    CASE format = "sev-snp-report" -> 0 .. 671
      [] format = "tdx-quote"      -> 0 .. (48 + 584 - 1)
      [] OTHER                     -> 0 .. (Size(format) - 96 - 1)
SignatureBytes(format) ==
    CASE format = "sev-snp-report" -> 672 .. (672 + 144 - 1)
      [] format = "tdx-quote"      -> (48 + 584 + 4) .. (48 + 584 + 4 + 64 - 1)
      [] OTHER                     -> (Size(format) - 96) .. (Size(format) - 1)

\* Fault: whatever the format, the byte in the middle.
MiddleByte(format) == Size(format) \div 2

SignedBodyOffset(format) ==
    CASE format = "tdx-quote"      -> 48 + 584 \div 2
      [] format = "sev-snp-report" -> 672 \div 2
      [] OTHER                     -> Size(format) \div 2
SignatureOffset(format) ==
    CASE format = "sev-snp-report" -> 672
      [] format = "tdx-quote"      -> 48 + 584 + 4
      [] OTHER                     -> Size(format) - 96

\* A flipped byte that the signature covers, or that belongs to it, spoils it.
SurvivesFlip(format, offset) == offset \notin SignedBytes(format) \cup SignatureBytes(format)

\* _mutate and _run_matrix: the case, and the reason the verifier then gives. Where the
\* capture asserts no nonce, wrong-binding asks for one. The expiry case steps to the
\* first instant after the recorded horizon.
MatrixRefusal(c, case) ==
    LET when  == IF case = "expired-at-now" THEN c.notAfter + 1 ELSE c.now
        facts == Intact(c, when)
        spoilt ==
          CASE case = "wrong-binding" -> [facts EXCEPT !.binding = FALSE]
            [] case = "tampered-report" ->
                 [facts EXCEPT !.signature = SurvivesFlip(c.format, SignedBodyOffset(c.format))]
            [] case = "tampered-signature" ->
                 [facts EXCEPT !.signature = SurvivesFlip(c.format, SignatureOffset(c.format))]
            [] case \in {"stripped-chain", "out-of-chain-root"} -> [facts EXCEPT !.anchor = FALSE]
            [] OTHER -> facts
    IN  VendorRefusal(c, spoilt, c.nonce \/ case = "wrong-binding")

\* _eval_vendor: the verdict, and then the matrix.
EvaluateVendor ==
    /\ task = "vendor" /\ judged = {}
    /\ LET c == capture
       IN  judged' = {[ok |-> /\ Usable(c)
                              /\ VendorRefusal(c, Intact(c, c.now), c.nonce) = "ok"
                              /\ \A case \in Cases : MatrixRefusal(c, case) = DeclaredReason(case),
                       code |-> NoCode]}
    /\ UNCHANGED <<task, scope, reported, document, script, trace, checks, capture>>

-----------------------------------------------------------------------------
NoResults == [id \in {} |-> NoCode]
SomeCapture == CHOOSE c \in Captures : TRUE

SomeDocument == [kind |-> "signature", defect |-> NoDefect, also |-> {}]

SuiteInit ==
    /\ trace = <<>> /\ judged = {} /\ reported = NoResults
    /\ \/ /\ task = "external" /\ scope \in Levels \cup {"all"}
          /\ document = SomeDocument /\ script = <<>> /\ checks = AllChecks /\ capture = SomeCapture
       \/ /\ task = "document" /\ scope = "all"
          /\ document \in DocumentVectors /\ script = <<>>
          /\ checks \in SUBSET Range(CodeOrder(document.kind)) /\ capture = SomeCapture
       \/ /\ task = "scenario" /\ scope = "all" /\ document = SomeDocument
          /\ script \in UNION {[1 .. n -> [kind : StepKinds, code : Codes]] : n \in 1 .. MaxSteps}
          /\ checks = AllChecks /\ capture = SomeCapture
       \/ /\ task = "vendor" /\ scope = "all" /\ document = SomeDocument
          /\ script = <<>> /\ checks \in SUBSET AllChecks /\ capture \in Captures

SuiteNext == ReportEntry \/ ScoreResults \/ EvaluateDocument \/ RunStep \/ EvaluateVendor

ConformanceSpec == SuiteInit /\ [][SuiteNext]_suiteVars

-----------------------------------------------------------------------------
Answered(v) ==
    /\ v.id \in DOMAIN reported
    /\ reported[v.id].verdict = v.expect
    /\ v.expect = "reject" => reported[v.id].code = v.code

\* A pass of the suite is earned: every vector in scope was answered, with its verdict and
\* its code; a document with a defect passes only for a verifier that looks for this defect,
\* and always for one that looks for all; an accepted scenario did in every step what the
\* step expects, and a rejected one gave the declared code; and a vendor capture passes only
\* for a verifier that makes every one of the checks, on a capture that is in date, that
\* binds the nonce it claims to and (a GPU report) has it where the vector says, and always
\* for such a verifier and capture
\* (score_results, _eval_signature, _eval_lineage, _eval_gate, _eval_custody, _eval_vendor
\* with its refusal matrix).
PassIsEarned ==
    /\ task = "document" /\ checks = Range(CodeOrder(document.kind)) => \A j \in judged : j.ok
    /\ /\ task = "vendor" /\ checks = AllChecks /\ Usable(capture)
       /\ capture.now <= capture.expiry /\ (capture.nonce => capture.bound)
       /\ ~NonceMisplaced(capture)
       => \A j \in judged : j.ok
    /\ (\E j \in judged : j.ok) =>
        /\ task = "external" => \A v \in InScope : Answered(v)
        /\ task = "document" => document.defect \in checks \cup {NoDefect}
        /\ task = "scenario" =>
             IF Expectation.verdict = "accept"
             THEN \A i \in DOMAIN script : i \in DOMAIN trace /\ Behaved(script[i].kind, trace[i])
             ELSE trace[Len(trace)] = Expectation.code
        /\ task = "vendor" =>
             /\ checks = AllChecks
             /\ capture.now <= capture.expiry /\ capture.staged
             /\ capture.kind \in NonceKinds => capture.bound
             /\ ~NonceMisplaced(capture)

\* A scenario vector that passes, with every step performed as the step declares, was walked
\* to its end. conformance.py says "an implementation in any language walks the steps,
\* performs each operation, and compares the outcome"; _eval_gate and _eval_custody return
\* at the first refusal that was expected, and leave the steps behind it alone.
ScenarioWalksTheSteps ==
    /\ task = "scenario" /\ \E j \in judged : j.ok
    /\ \A i \in DOMAIN trace : Behaved(script[i].kind, trace[i])
    => DOMAIN trace = DOMAIN script

(* The inductive invariants behind PassIsEarned.                           *)

SuiteTypes ==
    /\ task = "document" => /\ document \in DocumentVectors
                            /\ checks \in SUBSET Range(CodeOrder(document.kind))
    /\ task = "scenario" => script \in Seq([kind : StepKinds, code : Codes])
    /\ task = "vendor" => capture \in Captures /\ checks \in SUBSET AllChecks

\* A scenario that is still being walked went as expected and expected no refusal so far.
TraceInv ==
    task = "scenario" /\ judged = {} =>
        /\ trace \in Seq({"ok", "wrong"} \cup Codes) /\ Len(trace) <= Len(script)
        /\ \A i \in DOMAIN trace : script[i].kind # "refuse" /\ Behaved(script[i].kind, trace[i])

=============================================================================
