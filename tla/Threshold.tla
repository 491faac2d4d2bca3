----------------------------- MODULE Threshold -----------------------------
(***************************************************************************)
(* Threshold custody of a key: Shamir sharing over GF(256) as in           *)
(* python/src/wcm/threshold.py. A dealer splits one byte of the key; the   *)
(* custodians who answer bring their shares, some of them damaged on the   *)
(* way, and the shares are combined. Every byte is shared independently.   *)
(***************************************************************************)
EXTENDS Integers, Sequences, FiniteSets, SequencesExt, Bitwise

CONSTANTS
    SecretBytes,    \* key bytes tried
    Coefficients,   \* random coefficient bytes tried
    MaxShares       \* bound on the number of shares

VARIABLES
    secret,      \* the key byte
    threshold,   \* shares needed
    dealt,       \* the shares: dealt[x] is the value at x
    brought,     \* the shares brought to combine_shares, a sequence of <<x, y>>
    outcome      \* what combine_shares returned, or a refusal

thresholdVars == <<secret, threshold, dealt, brought, outcome>>

-----------------------------------------------------------------------------
(* GF(256)                                                                 *)

GfAdd(a, b) == a ^^ b

Xtime(a) == IF 2 * a >= 256 THEN GfAdd(2 * a, 283) % 256 ELSE 2 * a

\* _GF_EXP: the powers of the generator 3; exponents count from 0, the sequence from 1.
GfExp == FoldLeft(LAMBDA acc, i : Append(acc, GfAdd(Last(acc), Xtime(Last(acc)))),
                  <<1>>, [i \in 1 .. 254 |-> i])

\* _GF_LOG
GfLog == LET exp == GfExp
         IN  [x \in 1 .. 255 |-> (CHOOSE i \in 1 .. 255 : exp[i] = x) - 1]

Mul(a, b) == IF a = 0 \/ b = 0 THEN 0 ELSE GfExp[((GfLog[a] + GfLog[b]) % 255) + 1]

\* Fault: the logarithms are subtracted modulo 256, the size of the field.
DivMod256(a, b) == IF a = 0 THEN 0 ELSE GfExp[(((GfLog[a] - GfLog[b]) % 256) % 255) + 1]

Div(a, b) == IF a = 0 THEN 0 ELSE GfExp[((GfLog[a] - GfLog[b]) % 255) + 1]

\* Horner's rule at x; coefficients with the secret first.
Eval(coeffs, x) == FoldRight(LAMBDA c, acc : GfAdd(Mul(acc, x), c), coeffs, 0)

-----------------------------------------------------------------------------
SplitSecret(byte, coeffs, n) == [x \in 1 .. n |-> Eval(<<byte>> \o coeffs, x)]

\* The Lagrange weight of the i-th share at 0.
Weight(shares, i) ==
    LET others == [j \in DOMAIN shares |-> IF j = i THEN 0 ELSE shares[j][1]]
        num    == FoldLeft(LAMBDA acc, x : IF x = 0 THEN acc ELSE Mul(acc, x), 1, others)
        den    == FoldLeft(LAMBDA acc, x : IF x = 0 THEN acc ELSE Mul(acc, GfAdd(shares[i][1], x)),
                           1, others)
    IN  Div(num, den)

\* combine_shares: refuses no shares, coordinates out of range, and duplicates.
Refusal == -1

CombineShares(shares) ==
    IF \/ shares = <<>>
       \/ \E i \in DOMAIN shares : shares[i][1] \notin 1 .. 255
       \/ \E i, j \in DOMAIN shares : i # j /\ shares[i][1] = shares[j][1]
    THEN Refusal
    ELSE FoldLeft(LAMBDA acc, i : GfAdd(acc, Mul(shares[i][2], Weight(shares, i))),
                  0, [i \in DOMAIN shares |-> i])

-----------------------------------------------------------------------------
ThresholdInit ==
    /\ secret \in SecretBytes
    /\ threshold \in 2 .. MaxShares
    /\ \E n \in threshold .. MaxShares, coeffs \in [1 .. (threshold - 1) -> Coefficients] :
         dealt = SplitSecret(secret, coeffs, n)
    /\ brought = <<>>
    /\ outcome = Refusal - 1

\* A custodian answers with its share, in any order; the same one may answer twice, and
\* a share may arrive under the coordinate 0, which is the secret's own.
BringShare ==
    /\ outcome < Refusal
    /\ Len(brought) < MaxShares
    /\ \E x \in DOMAIN dealt, at \in {0, 1} :
         brought' = Append(brought, <<at * x, dealt[x]>>)
    /\ UNCHANGED <<secret, threshold, dealt, outcome>>

Combine ==
    /\ outcome < Refusal
    /\ outcome' = CombineShares(brought)
    /\ UNCHANGED <<secret, threshold, dealt, brought>>

ThresholdNext == BringShare \/ Combine

-----------------------------------------------------------------------------
\* Whichever custodians answer and in whatever order: from the threshold on the secret
\* comes back, a repeated share or one at coordinate 0 is refused, and a single share of
\* a two-of-n split is consistent with every secret byte (split_secret, combine_shares).
ThresholdHolds ==
    /\ outcome >= Refusal =>
         LET coords == {brought[i][1] : i \in DOMAIN brought}
         IN  IF brought = <<>> \/ 0 \in coords \/ Cardinality(coords) < Len(brought)
             THEN outcome = Refusal
             ELSE Len(brought) >= threshold => outcome = secret
    /\ threshold = 2 /\ outcome >= Refusal /\ Len(brought) = 1 /\ brought[1][1] # 0 =>
         \A other \in SecretBytes :
            LET x == brought[1][1]
            IN  Eval(<<other, Div(GfAdd(brought[1][2], other), x)>>, x) = brought[1][2]

=============================================================================
