----------------------------- MODULE NonceGate ------------------------------
(***************************************************************************)
(* What the challenge store promises its users, the key broker and the     *)
(* owner's provisioner (python/src/wcm/_challenge.py, issue and consume):  *)
(* a nonce is let through once, before it expires, and only if it was      *)
(* issued.  The two tables and their pruning do not show.                  *)
(***************************************************************************)
EXTENDS Integers

CONSTANTS Nonces, TTL, Skew     \* Skew: the store's clock minus the clock now

VARIABLES
    now,
    gate,       \* each nonce: never issued, open, or spent (used, burnt or dropped)
    expires,    \* when an open nonce expires; 0 otherwise
    verdict     \* outcome of the latest call

gateVars == <<now, gate, expires, verdict>>

Clock == now + Skew

GateInit ==
    /\ gate = [n \in Nonces |-> "unissued"]
    /\ expires = [n \in Nonces |-> 0]
    /\ verdict = "none"

Expired(n) == gate[n] = "open" /\ Clock > expires[n]

\* The nonces of S are spent.
Spend(S) ==
    /\ gate' = [n \in Nonces |-> IF n \in S THEN "spent" ELSE gate[n]]
    /\ expires' = [n \in Nonces |-> IF n \in S THEN 0 ELSE expires[n]]

\* Issuing may drop challenges that have expired, and no other.
Issue(n) ==
    /\ gate[n] = "unissued"
    /\ \E S \in SUBSET {m \in Nonces : Expired(m)} :
        /\ gate' = [m \in Nonces |-> IF m = n THEN "open"
                                     ELSE IF m \in S THEN "spent" ELSE gate[m]]
        /\ expires' = [m \in Nonces |-> IF m = n THEN Clock + TTL
                                        ELSE IF m \in S THEN 0 ELSE expires[m]]
    /\ verdict' = "issued"

\* A nonce that is let through is spent by it.
Accept(n) ==
    /\ gate[n] = "open"
    /\ ~Expired(n)
    /\ Spend({n})
    /\ verdict' = "ok"

\* A refusal opens nothing; a presentation that came too late burns the nonce.
Refuse(n) ==
    /\ gate[n] = "open" => Expired(n)
    /\ Spend({n} \cap {m \in Nonces : Expired(m)})
    /\ verdict' = "refused"

Use(n) == Accept(n) \/ Refuse(n)

GateNext ==
    \/ \E n \in Nonces : (Issue(n) \/ Use(n)) /\ UNCHANGED now
    \/ UNCHANGED <<gate, expires, verdict>>

Spec == GateInit /\ [][GateNext]_gateVars

=============================================================================
