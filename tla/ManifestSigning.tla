-------------------------- MODULE ManifestSigning --------------------------
(***************************************************************************)
(* Joint signatures of a manifest: python/src/wcm/_signing.py, models.py   *)
(* (what a manifest may be and what its signatures cover), _verify.py, and *)
(* the sign and verify commands of cli.py. A manifest travels as a file    *)
(* between its signers and a verifier; whoever carries it may change the   *)
(* file, the role and the signer of a block included, which no signature   *)
(* covers.                                                                 *)
(*                                                                         *)
(* The pre-image stands for the bytes that are signed. The signatures      *)
(* array is a set: nothing depends on its order or on repetition.          *)
(***************************************************************************)
EXTENDS Integers, FiniteSets

CONSTANT MaxTampers   \* bound on what the carrier does to the file

VARIABLES
    doc,       \* the manifest's fields in the file
    blocks,    \* its signatures array
    context,   \* the verifier's trusted keys and bindings
    consent,   \* ghost: <<key, pre-image>>, what the holder of a key has really signed
    tampers    \* how often the file was tampered with

signingVars == <<doc, blocks, context, consent, tampers>>

-----------------------------------------------------------------------------
(* Manifests                                                               *)

\* builder_identity, custodian and sovereign_signer are parties; terms stands for every
\* other signed field; authority may be omitted from the file.
Documents ==
    [builder : {"B"}, custodian : {"B", "C"}, custody : {"hosted", "self"},
     deployment : {"builder-to-customer", "byom-symmetric"},
     authority : {"omitted", "builder-and-opaque-joint", "builder-and-custodian-joint", "quorum"},
     sovereign : BOOLEAN, terms : {"agreed", "other"}]

\* RevocationAuthority.canonical, and the default an omitted field is read with.
Materialized(d) ==
    IF d.authority = "omitted" THEN [d EXCEPT !.authority = "builder-and-opaque-joint"] ELSE d

\* The validators of SovereignProfile and WeightCustodyManifest. The sovereign profile
\* itself always says quorum and names S.
ValidDocument(d) ==
    /\ d.deployment = "byom-symmetric" => d.custody = "self"
    /\ d.sovereign => d.authority = "quorum"

\* signing_pre_image of unsigned_dict: the signed fields, defaults written out.
SigningPreImage(d) == Materialized(d)

\* Fault: the omitted field is rewritten whether or not somebody has signed.
RewriteOmitted(d, present) ==
    IF d.authority # "omitted" THEN d
    ELSE [d EXCEPT !.authority = "builder-and-custodian-joint"]

\* with_current_values
WithCurrentValues(d, present) ==
    IF present # {} \/ d.authority # "omitted" THEN d
    ELSE [d EXCEPT !.authority = "builder-and-custodian-joint"]

-----------------------------------------------------------------------------
(* Signing                                                                 *)

\* Each key with its holder; the key of S is a hybrid one, X is trusted by nobody.
SigningKeys == {"kB", "kC", "kS", "kX"}
Algorithm == [k \in SigningKeys |-> IF k = "kS" THEN "hybrid" ELSE "Ed25519"]

Components(alg) == IF alg = "hybrid" THEN {"classical", "pq"} ELSE {"value"}

\* A block of Ed25519Signer.sign or HybridSigner.sign over the fields of d.
SignatureBlock(k, role, signer, d) ==
    [role |-> role, signer |-> signer, algorithm |-> Algorithm[k], key |-> k,
     parts |-> {<<k, c, SigningPreImage(d)>> : c \in Components(Algorithm[k])}]

\* The verifiers' verify: the block holds that key's signature of this pre-image.
Verifies(b, c, d) == <<b.key, c, SigningPreImage(d)>> \in b.parts

\* _verify_one: every component of the algorithm is there and verifies.
VerifyOne(b, d) == \A c \in Components(Algorithm[b.key]) : Verifies(b, c, d)

-----------------------------------------------------------------------------
(* verify_manifest                                                         *)

RequiredRoles(d) == {"builder", "custodian"} \cup (IF d.sovereign THEN {"sovereign"} ELSE {})

Identity(d, role) ==
    CASE role = "builder"   -> d.builder
      [] role = "custodian" -> d.custodian
      [] role = "sovereign" -> "S"

RoleAuthorized(ctx, b, d) ==
    \/ ctx.bindings = {}
    \/ b.role \notin RequiredRoles(d)
    \/ b.signer = Identity(d, b.role) /\ <<b.key, b.role, b.signer>> \in ctx.bindings

ValidBlock(ctx, b, d) ==
    /\ b.key \in ctx.trusted
    /\ b.algorithm = Algorithm[b.key]
    /\ VerifyOne(b, d)
    /\ RoleAuthorized(ctx, b, d)

\* The keys that sign validly for a role.
Candidates(ctx, bs, d, role) ==
    {b.key : b \in {c \in bs : /\ ValidBlock(ctx, c, d)
                               /\ c.role = role
                               /\ role = "sovereign" => c.signer = "S"}}

SharedRoles(d) == d.deployment = "byom-symmetric" /\ d.builder = d.custodian

MayShare(d, r1, r2) ==
    r1 = r2 \/ (SharedRoles(d) /\ {r1, r2} = {"builder", "custodian"})

\* Fault: a role is covered by any valid key, also one that covers another role.
CoveredByAny(ctx, bs, d) ==
    \A role \in RequiredRoles(d) : Candidates(ctx, bs, d, role) # {}

\* _roles_with_distinct_keys finds keys for all the required roles at once.
CoveredByDistinctKeys(ctx, bs, d) ==
    \E key \in [RequiredRoles(d) -> ctx.trusted] :
        /\ \A role \in RequiredRoles(d) : key[role] \in Candidates(ctx, bs, d, role)
        /\ \A r1, r2 \in RequiredRoles(d) : key[r1] = key[r2] => MayShare(d, r1, r2)

VerifyManifest(ctx, bs, d) ==
    /\ \A b \in bs : ValidBlock(ctx, b, d)
    /\ CoveredByDistinctKeys(ctx, bs, d)

-----------------------------------------------------------------------------
(* The file on its way                                                     *)

\* Which key signs as what, when its holder is honest; B keeps both roles in self-custody.
HonestRole(d) ==
    {<<"kB", "builder", "B">>} \cup
    {IF d.custodian = "B" THEN <<"kB", "custodian", "B">> ELSE <<"kC", "custodian", "C">>} \cup
    (IF d.sovereign THEN {<<"kS", "sovereign", "S">>} ELSE {})

\* The bindings a strict verifier would make: the first one makes every role strict.
HonestBindings ==
    {<<"kB", "builder", "B">>, <<"kB", "custodian", "B">>, <<"kC", "custodian", "C">>,
     <<"kS", "sovereign", "S">>}

SigningInit ==
    /\ doc \in {d \in Documents : ValidDocument(d) /\ d.terms = "agreed"
                                  /\ d.authority \in {"omitted", "quorum"}}
    /\ blocks = {}
    /\ context \in [trusted : {{"kB", "kC", "kS"}}, bindings : {{}, HonestBindings}]
    /\ consent = {}
    /\ tampers = 0

Sign(k, role, signer, d) ==
    /\ blocks' = blocks \cup {SignatureBlock(k, role, signer, d)}
    /\ consent' = consent \cup {<<k, SigningPreImage(d)>>}
    /\ UNCHANGED <<context, tampers>>

\* cmd_sign: load, bring up to date, sign, append, and write every field out.
CmdSign(k, role, signer) ==
    LET current == WithCurrentValues(doc, blocks)
    IN  /\ ValidDocument(doc)
        /\ Sign(k, role, signer, current)
        /\ doc' = Materialized(current)

\* The signer of the library. with_signatures writes every field out; a block put into
\* the file as it stands leaves the authority omitted, as in manifests signed before 0.31.
LibrarySign(k, role, signer) ==
    /\ ValidDocument(doc)
    /\ Sign(k, role, signer, doc)
    /\ doc' \in {doc, Materialized(doc)}

HonestSigning ==
    \E s \in HonestRole(doc) :
        CmdSign(s[1], s[2], s[3]) \/ LibrarySign(s[1], s[2], s[3])

\* A stranger signs, in any required role and name.
StrangerSigns ==
    /\ tampers < MaxTampers
    /\ \E s \in HonestRole(doc) :
         blocks' = blocks \cup {SignatureBlock("kX", s[2], s[3], doc)}
    /\ consent' = consent \cup {<<"kX", SigningPreImage(doc)>>}
    /\ tampers' = tampers + 1
    /\ UNCHANGED <<doc, context>>

\* The carrier relabels or copies a block, leaves out a component, drops a block, or
\* edits the terms.
Tamper ==
    /\ tampers < MaxTampers
    /\ tampers' = tampers + 1
    /\ \/ \E b \in blocks, role \in {"builder", "custodian", "sovereign", "additional"},
             signer \in {"B", "C", "S"} :
            /\ \E kept \in {blocks, blocks \ {b}} :
                 blocks' = kept \cup {[b EXCEPT !.role = role, !.signer = signer]}
            /\ UNCHANGED doc
       \/ \E b \in blocks, p \in UNION {c.parts : c \in blocks}, alg \in {"Ed25519", "hybrid"} :
            /\ blocks' = (blocks \ {b}) \cup {[b EXCEPT !.parts = {p}, !.algorithm = alg]}
            /\ UNCHANGED doc
       \/ \E b \in blocks : blocks' = blocks \ {b} /\ UNCHANGED doc
       \/ /\ doc' = [doc EXCEPT !.terms = IF @ = "agreed" THEN "other" ELSE "agreed"]
          /\ UNCHANGED blocks
    /\ UNCHANGED <<context, consent>>

SigningNext == HonestSigning \/ StrangerSigns \/ Tamper

SigningSpec == SigningInit /\ [][SigningNext]_signingVars

-----------------------------------------------------------------------------
(* Properties                                                              *)

\* A manifest that verifies was signed, over exactly these fields, by the holders of
\* as many trusted keys as it has required roles (one less in self-custody under
\* byom-symmetric), whatever was done to the file and to the blocks; with bindings,
\* by the parties it names (verify_manifest, _roles_with_distinct_keys).
JointlySigned ==
    VerifyManifest(context, blocks, doc) =>
        LET signers == {k \in context.trusted : <<k, SigningPreImage(doc)>> \in consent}
        IN  /\ Cardinality(signers) >=
                 Cardinality(RequiredRoles(doc)) - (IF SharedRoles(doc) THEN 1 ELSE 0)
            /\ context.bindings # {} =>
                 \A s \in HonestRole(doc) : s[1] \in signers

\* Signers who each use the command line or the library, in any order and mix, end with
\* a manifest that verifies: no signing step invalidates an earlier signature
\* (with_current_values, cmd_sign).
SigningConverges ==
    tampers = 0 /\ (\A s \in HonestRole(doc) :
                        \E b \in blocks : <<b.key, b.role, b.signer>> = s)
        => (VerifyManifest(context, blocks, doc)
            \/ (doc.custodian = "B" /\ ~SharedRoles(doc)))

(* The inductive invariants behind them.                                   *)

BlockParts == SigningKeys \X {"value", "classical", "pq"} \X Documents

SignatureBlocks ==
    [role : {"builder", "custodian", "sovereign", "additional"}, signer : {"B", "C", "S"},
     algorithm : {"Ed25519", "hybrid"}, key : SigningKeys, parts : SUBSET BlockParts]

SigningTypes ==
    /\ doc \in Documents
    /\ blocks \in SUBSET SignatureBlocks
    /\ context \in [trusted : {{"kB", "kC", "kS"}}, bindings : {{}, HonestBindings}]
    /\ tampers \in Nat

\* Blocks may be relabelled and cut up; their parts come from holders of keys all the same.
ConsentInv == \A b \in blocks : \A p \in b.parts : <<p[1], p[3]>> \in consent

\* In a file that nobody tampered with, every block is an honest party's over these fields.
HonestInv == tampers = 0 =>
    \A b \in blocks : \E s \in HonestRole(doc) : b = SignatureBlock(s[1], s[2], s[3], doc)

=============================================================================
