---------------------------- MODULE Provisioning ----------------------------
(***************************************************************************)
(* Delivery of a model key from its owner to a broker: OwnerProvisioner    *)
(* (python/src/wcm/provisioning.py), the durable epoch floor shared by the *)
(* owner's processes (provisioning_state.py), and BrokerReceiver           *)
(* (broker_receiver.py) behind its HTTP routes (broker_server.py).         *)
(*                                                                         *)
(* Every owner operation runs inside one write transaction of the floor    *)
(* database and under the process lock; every receiver operation runs      *)
(* under the receiver's lock: each is one action.  Between them everything *)
(* travels through an untrusted network: challenges, reports and envelopes *)
(* may be lost, delayed, reordered and repeated, and the timestamps of a   *)
(* challenge are not signed.  Owner processes and receivers may crash at   *)
(* any time.  The owner's challenge store is the NonceGate it implements:  *)
(* a nonce is open in one process until it is used or the process replaces *)
(* its store.                                                              *)
(***************************************************************************)
EXTENDS Integers, FiniteSets

CONSTANTS
    Owners,     \* owner processes sharing the floor database
    Policies,   \* BrokerProvisioningPolicy values: [epoch, text]
    Boots,      \* receiver processes; each has its own transport key
    Nonces,     \* owner challenges
    TTL,        \* challenge_ttl_seconds of the owner
    Window,     \* the receiver's own bound on a pending request (60 seconds)
    MaxTime     \* bound on the clock

ASSUME PolicyAssumption == \A p \in Policies : p.epoch \in Nat
ASSUME TimeAssumption   == TTL \in Nat /\ Window \in Nat /\ MaxTime \in Nat

NoPolicy == [epoch |-> -1, text |-> "none"]
NoNonce  == "none"
Never    == MaxTime + 1

ASSUME NoneAssumption == NoPolicy \notin Policies /\ NoNonce \notin Nonces

VARIABLES
    now,
    floor,          \* the row of policy_floor; NoPolicy before the first admission
    policy,         \* _policy of each running owner process; NoPolicy when down
    open,           \* the challenges each owner process would accept
    minted,         \* nonces handed out
    expires,        \* when a nonce expires at the owner
    boot,           \* each receiver: off, waiting, provisioned or retired
    runs,           \* the policy each receiver was booted with
    pending,        \* the nonce of its pending request
    until,          \* when the pending request ends
    seen,           \* _seen_provisioning_nonces
    reports,        \* signed hardware reports
    envelopes,      \* envelopes the owner signed
    superseded,     \* ghost: when a policy stopped being the floor
    installs        \* ghost: successful installations

owner    == <<floor, policy, open, minted, expires, superseded>>
receiver == <<boot, runs, pending, until, seen, installs>>
vars     == <<now, owner, receiver, reports, envelopes>>

MinOf(a, b) == IF a <= b THEN a ELSE b

Init ==
    /\ now = 0
    /\ floor = NoPolicy
    /\ policy = [o \in Owners |-> NoPolicy]
    /\ open = [o \in Owners |-> {}]
    /\ minted = {}
    /\ expires = [n \in Nonces |-> 0]
    /\ boot = [b \in Boots |-> "off"]
    /\ runs = [b \in Boots |-> NoPolicy]
    /\ pending = [b \in Boots |-> NoNonce]
    /\ until = [b \in Boots |-> 0]
    /\ seen = [b \in Boots |-> {}]
    /\ reports = {}
    /\ envelopes = {}
    /\ superseded = [p \in Policies |-> Never]
    /\ installs = {}

-----------------------------------------------------------------------------
(* OwnerEpochStore.guard                                                   *)

\* Fault: any policy of the floor's epoch passes.
AdmissibleByEpoch(p) == p.epoch >= floor.epoch

\* The floor may be advanced to p, or is p already.
Admissible(p) == p.epoch > floor.epoch \/ p = floor

\* Fault: an ordinary operation passes with any policy that is not below the floor.
AdmittedAtLeast(p) == p.epoch >= floor.epoch

\* An ordinary operation requires an exact match.
Admitted(p) == p = floor

MoveFloor(p) ==
    /\ floor' = p
    /\ superseded' = IF p # floor /\ floor \in Policies
                     THEN [superseded EXCEPT ![floor] = now] ELSE superseded

-----------------------------------------------------------------------------
(* OwnerProvisioner                                                        *)

\* The constructor admits its policy; a commit that fails leaves no process.
OwnerStart(o, p) ==
    /\ policy[o] = NoPolicy
    /\ Admissible(p)
    /\ MoveFloor(p)
    /\ policy' = [policy EXCEPT ![o] = p]
    /\ open' = [open EXCEPT ![o] = {}]
    /\ UNCHANGED <<now, minted, expires, receiver, reports, envelopes>>

OwnerCrash(o) ==
    /\ policy[o] # NoPolicy
    /\ policy' = [policy EXCEPT ![o] = NoPolicy]
    /\ open' = [open EXCEPT ![o] = {}]
    /\ UNCHANGED <<now, floor, minted, expires, superseded, receiver, reports, envelopes>>

\* update_policy: the new policy and the new challenge store are assigned inside the
\* transaction; if its commit fails the floor rolls back and they do not.
UpdatePolicy(o, p) ==
    /\ policy[o] # NoPolicy
    /\ p.epoch > policy[o].epoch
    /\ Admissible(p)
    /\ MoveFloor(p) \/ UNCHANGED <<floor, superseded>>
    /\ policy' = [policy EXCEPT ![o] = p]
    /\ open' = [open EXCEPT ![o] = {}]
    /\ UNCHANGED <<now, minted, expires, receiver, reports, envelopes>>

IssueChallenge(o, n) ==
    /\ policy[o] # NoPolicy
    /\ Admitted(policy[o])
    /\ n \notin minted
    /\ minted' = minted \cup {n}
    /\ open' = [open EXCEPT ![o] = @ \cup {n}]
    /\ expires' = [expires EXCEPT ![n] = now + TTL]
    /\ UNCHANGED <<now, floor, policy, superseded, receiver, reports, envelopes>>

\* provision: the challenge is consumed before anything is verified.  The report
\* must bind the nonce, this exact policy and the receiver's transport key.
Provision(o, r) ==
    /\ policy[o] # NoPolicy
    /\ Admitted(policy[o])
    /\ open' = [open EXCEPT ![o] = @ \ {r.nonce}]
    /\ \/ /\ r.nonce \in open[o]
          /\ now <= expires[r.nonce]
          /\ r.policy = policy[o]
          /\ envelopes' = envelopes \cup
                {[nonce |-> r.nonce, policy |-> policy[o], boot |-> r.boot]}
       \/ UNCHANGED envelopes       \* refused, or lost with a failed commit
    /\ UNCHANGED <<now, floor, policy, minted, expires, superseded, receiver, reports>>

-----------------------------------------------------------------------------
(* BrokerReceiver                                                          *)

\* A fresh process: new transport key, nothing pending.  (Its configuration is the
\* one its policy names: the constructor compares the digests.)
Boot(b, p) ==
    /\ boot[b] = "off"
    /\ boot' = [boot EXCEPT ![b] = "waiting"]
    /\ runs' = [runs EXCEPT ![b] = p]
    /\ UNCHANGED <<now, owner, pending, until, seen, installs, reports, envelopes>>

\* provisioning_report_data, and the hardware report over it.  The expiry that
\* arrives is whatever the network says; the receiver caps it.
Report(b, n, offered) ==
    /\ boot[b] = "waiting"
    /\ n \notin seen[b]
    /\ now <= offered
    /\ seen' = [seen EXCEPT ![b] = @ \cup {n}]
    /\ pending' = [pending EXCEPT ![b] = n]
    /\ until' = [until EXCEPT ![b] = MinOf(offered, now + Window)]
    /\ \/ reports' = reports \cup {[nonce |-> n, policy |-> runs[b], boot |-> b]}
       \/ UNCHANGED reports         \* AttestationUnavailableError
    /\ UNCHANGED <<now, owner, boot, runs, installs, envelopes>>

\* Fault: neither the nonce nor the time of the pending request is compared.
InstallAnyRequest(b, e) ==
    /\ boot[b] = "waiting" /\ pending[b] # NoNonce
    /\ pending' = [pending EXCEPT ![b] = NoNonce]
    /\ until' = [until EXCEPT ![b] = 0]
    /\ IF e.policy = runs[b] /\ e.boot = b
       THEN /\ boot' = [boot EXCEPT ![b] = "provisioned"]
            /\ installs' = installs \cup
                {[boot |-> b, nonce |-> e.nonce, policy |-> e.policy, at |-> now]}
       ELSE UNCHANGED <<boot, installs>>
    /\ UNCHANGED <<now, owner, runs, seen, reports, envelopes>>

\* Fault: the receiver an envelope was made for is not compared.
InstallAnyReceiver(b, e) ==
    /\ boot[b] = "waiting" /\ pending[b] # NoNonce
    /\ pending' = [pending EXCEPT ![b] = NoNonce]
    /\ until' = [until EXCEPT ![b] = 0]
    /\ IF e.nonce = pending[b] /\ now <= until[b] /\ e.policy = runs[b]
       THEN /\ boot' = [boot EXCEPT ![b] = "provisioned"]
            /\ installs' = installs \cup
                {[boot |-> b, nonce |-> e.nonce, policy |-> e.policy, at |-> now]}
       ELSE UNCHANGED <<boot, installs>>
    /\ UNCHANGED <<now, owner, runs, seen, reports, envelopes>>

\* install: any attempt consumes the pending request, before it is judged.
Install(b, e) ==
    /\ boot[b] = "waiting" /\ pending[b] # NoNonce
    /\ pending' = [pending EXCEPT ![b] = NoNonce]
    /\ until' = [until EXCEPT ![b] = 0]
    /\ IF e.nonce = pending[b] /\ now <= until[b] /\ e.policy = runs[b] /\ e.boot = b
       THEN /\ boot' = [boot EXCEPT ![b] = "provisioned"]
            /\ installs' = installs \cup
                {[boot |-> b, nonce |-> e.nonce, policy |-> e.policy, at |-> now]}
       ELSE UNCHANGED <<boot, installs>>
    /\ UNCHANGED <<now, owner, runs, seen, reports, envelopes>>

\* retire(), or the end of the process: a transport key never comes back.
Retire(b) ==
    /\ boot[b] \in {"waiting", "provisioned"}
    /\ boot' = [boot EXCEPT ![b] = "retired"]
    /\ pending' = [pending EXCEPT ![b] = NoNonce]
    /\ until' = [until EXCEPT ![b] = 0]
    /\ UNCHANGED <<now, owner, runs, seen, installs, reports, envelopes>>

ClockMoves ==
    /\ now < MaxTime
    /\ now' = now + 1
    /\ UNCHANGED <<owner, receiver, reports, envelopes>>

Next ==
    \/ \E o \in Owners, p \in Policies : OwnerStart(o, p) \/ UpdatePolicy(o, p)
    \/ \E o \in Owners : OwnerCrash(o)
    \/ \E o \in Owners, n \in Nonces : IssueChallenge(o, n)
    \/ \E o \in Owners, r \in reports : Provision(o, r)
    \/ \E b \in Boots, p \in Policies : Boot(b, p)
    \/ \E b \in Boots, n \in minted :
        \E offered \in {expires[n], Never} : Report(b, n, offered)
    \/ \E b \in Boots, e \in envelopes : Install(b, e)
    \/ \E b \in Boots : Retire(b)
    \/ ClockMoves

Spec == Init /\ [][Next]_vars

-----------------------------------------------------------------------------

Letter == [nonce : Nonces, policy : Policies, boot : Boots]

\* Every variable has its type.
TypeOK ==
    /\ now \in 0..MaxTime
    /\ floor \in Policies \cup {NoPolicy}
    /\ policy \in [Owners -> Policies \cup {NoPolicy}]
    /\ open \in [Owners -> SUBSET Nonces]
    /\ minted \in SUBSET Nonces
    /\ expires \in [Nonces -> Nat]
    /\ boot \in [Boots -> {"off", "waiting", "provisioned", "retired"}]
    /\ runs \in [Boots -> Policies \cup {NoPolicy}]
    /\ \A b \in Boots : boot[b] # "off" => runs[b] \in Policies
    /\ pending \in [Boots -> Nonces \cup {NoNonce}]
    /\ until \in [Boots -> Nat]
    /\ seen \in [Boots -> SUBSET Nonces]
    /\ reports \in SUBSET Letter
    /\ envelopes \in SUBSET Letter
    /\ superseded \in [Policies -> Nat]
    /\ installs \in SUBSET [boot : Boots, nonce : Nonces, policy : Policies, at : Nat]

\* "owner policy rollback or same-epoch substitution": over all owner processes,
\* restarts and commits that failed, no two different policies of one epoch ever
\* receive the key.
OnePolicyPerEpoch ==
    \A e, f \in envelopes : e.policy.epoch = f.policy.epoch => e.policy = f.policy

\* "rejects stale live owner processes": an envelope is never made for a policy
\* older than one the key was already provisioned under.
NoRollback ==
    [][\A e \in envelopes' \ envelopes, f \in envelopes :
          f.policy.epoch <= e.policy.epoch]_vars

\* The inductive form of both: the key was provisioned under the floor's policy, or
\* under policies of earlier epochs, one for each.
GrantInv ==
    /\ \A e \in envelopes : e.policy.epoch < floor.epoch \/ e.policy = floor
    /\ OnePolicyPerEpoch

\* "one envelope bound to policy, nonce and receiver boot key" and "install an
\* envelope once": over all receivers and repeated deliveries one challenge
\* installs one key, and a receiver is installed once.
InstallOnce ==
    \A i, j \in installs : i.nonce = j.nonce \/ i.boot = j.boot => i = j

\* "Previously produced envelopes remain usable at their original receiver within
\* its pending window", and no longer: once the owner has moved on, an envelope of
\* the old policy installs for at most one window, even if the network prolonged
\* the challenge.
SupersededExpires ==
    \A i \in installs : i.at <= superseded[i.policy] + Window

(* The inductive invariant behind these two.                               *)

\* An open challenge is open in one owner process and no envelope answers it yet.
ChallengeInv ==
    /\ \A o \in Owners : open[o] \subseteq minted
    /\ \A o, q \in Owners : o # q => open[o] \cap open[q] = {}
    /\ \A e \in envelopes : /\ e.nonce \in minted
                            /\ \A o \in Owners : e.nonce \notin open[o]
    /\ \A e, f \in envelopes : e.nonce = f.nonce => e = f

\* A receiver that was installed never waits again.
InstallInv ==
    /\ \A i \in installs : /\ boot[i.boot] \in {"provisioned", "retired"}
                           /\ \E e \in envelopes : e.nonce = i.nonce /\ e.boot = i.boot
    /\ InstallOnce

\* A receiver reports on a challenge once, so the pending request an envelope answers
\* was made before the envelope, and that while its policy was the floor.
WindowInv ==
    /\ \A r \in reports \cup envelopes : r.nonce \in seen[r.boot]
    /\ \A b \in Boots : until[b] <= now + Window
    /\ \A p \in Policies : superseded[p] = Never \/ p.epoch < floor.epoch
    /\ \A e \in envelopes : pending[e.boot] = e.nonce =>
                                until[e.boot] <= superseded[e.policy] + Window
    /\ \A i \in installs : i.at <= now
    /\ SupersededExpires

=============================================================================
