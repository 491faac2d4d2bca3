-------------------------- MODULE CertificateChain --------------------------
(***************************************************************************)
(* Certificate chains as python/src/wcm/_quote_verify.py and               *)
(* _certificates.py check them. A certificate is the key it certifies, the *)
(* key that signed it and the fields verify_cert_chain reads. The vendor   *)
(* issues VendorCerts. Others exist too, signed with the key of a          *)
(* platform's leaf ("chip"), with that of a retired CA ("held") or with a  *)
(* key from nowhere ("own"); the last two are in no hardware's hands.      *)
(***************************************************************************)
EXTENDS Integers, Sequences, FiniteSets

CONSTANT MaxChain   \* bound on the certificates of a chain

\* Room for a leaf and the CA that issued it.
ASSUME ChainAssumption == MaxChain \in Nat /\ MaxChain >= 2

AnyPath == 99   \* no pathLenConstraint

Certificate(key, by, ca, pathLen, certSign, current, serial) ==
    [key |-> key, by |-> by, ca |-> ca, pathLen |-> pathLen, certSign |-> certSign,
     current |-> current, serial |-> serial]

TrustedRoot == Certificate("root", "root", TRUE, AnyPath, TRUE, TRUE, 1)

VendorCerts ==
    {TrustedRoot,
     Certificate("inter", "root", TRUE, 0, TRUE, TRUE, 1),         \* issues leaves only
     Certificate("wide", "root", TRUE, AnyPath, TRUE, TRUE, 1),
     Certificate("chip", "inter", FALSE, AnyPath, FALSE, TRUE, 1),  \* a platform's VCEK, PCK or GPU leaf
     Certificate("chip", "inter", FALSE, AnyPath, FALSE, TRUE, 0),  \* the same, serial not positive
     Certificate("chip", "inter", TRUE, AnyPath, TRUE, TRUE, 1),    \* a leaf that is a CA, below pathLen 0
     Certificate("chip", "wide", TRUE, AnyPath, FALSE, TRUE, 1),    \* a CA without keyCertSign
     Certificate("held", "root", TRUE, AnyPath, TRUE, FALSE, 1)}    \* a CA past its validity

OtherCerts == {Certificate("own", by, ca, AnyPath, TRUE, TRUE, 1) :
                 by \in {"chip", "held", "own"}, ca \in BOOLEAN}

Certificates == VendorCerts \cup OtherCerts

\* load_pem_certificate(s): a serial that is not positive is refused, except on the Azure VCEK.
Loadable(chain, leafException) ==
    \A i \in DOMAIN chain : chain[i].serial > 0 \/ (i = 1 /\ leafException)

SignedBy(cert, issuer) == cert.by = issuer.key

\* Fault: any certificate below a trusted root may issue.
MayIssueAny(issuer, certsBelow) == TRUE

MayIssue(issuer, certsBelow) ==
    issuer.ca /\ certsBelow <= issuer.pathLen /\ issuer.certSign

\* verify_cert_chain: leaf first; the top is the trusted root or is issued by it. Positions
\* count from 1 here and from 0 in the source.
ChainAccepted(chain) ==
    LET top == chain[Len(chain)]
    IN  /\ \A i \in DOMAIN chain : chain[i].current
        /\ \A i \in 1 .. (Len(chain) - 1) :
             SignedBy(chain[i], chain[i + 1]) /\ MayIssue(chain[i + 1], i - 1)
        /\ \/ top = TrustedRoot
           \/ SignedBy(top, TrustedRoot) /\ MayIssue(TrustedRoot, Len(chain) - 1)

\* The chains some evidence may carry, by what the checks above make of them.
ChainsOf(leafException) ==
    {chain \in UNION {[1 .. n -> Certificates] : n \in 1 .. MaxChain} :
        Loadable(chain, leafException) /\ ChainAccepted(chain)}

\* The keys a verifier takes for a vendor's attestation key.
TrustedLeafKeys == {chain[1].key : chain \in ChainsOf(FALSE)}
TrustedAzureLeafKeys == {chain[1].key : chain \in ChainsOf(TRUE)}

=============================================================================
