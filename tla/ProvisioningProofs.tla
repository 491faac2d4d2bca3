------------------------- MODULE ProvisioningProofs -------------------------
(***************************************************************************)
(* Proofs about Provisioning: types, and what the epoch floor guarantees   *)
(* for any number of owner processes, policies, receivers and challenges.  *)
(***************************************************************************)
EXTENDS Provisioning, TLAPS

LEMMA MinOfNat ==
    ASSUME NEW a \in Nat, NEW b \in Nat
    PROVE  MinOf(a, b) \in Nat /\ MinOf(a, b) <= a /\ MinOf(a, b) <= b
BY DEF MinOf

\* Moving the floor keeps its type and that of the ghost beside it.
LEMMA MoveFloorType ==
    ASSUME TypeOK, NEW p \in Policies, MoveFloor(p)
    PROVE  /\ floor' \in Policies \cup {NoPolicy}
           /\ superseded' \in [Policies -> Nat]
BY DEF MoveFloor, TypeOK

\* Every variable keeps its type, for every instance of the constants.
THEOREM TypeCorrect == Spec => []TypeOK
<1>1. Init => TypeOK
  BY TimeAssumption DEF Init, TypeOK, Never
<1>2. TypeOK /\ [Next]_vars => TypeOK'
  <2> SUFFICES ASSUME TypeOK, [Next]_vars
               PROVE  TypeOK'
    OBVIOUS
  <2>1. ASSUME NEW o \in Owners, NEW p \in Policies, OwnerStart(o, p)
        PROVE  TypeOK'
    BY <2>1, MoveFloorType DEF OwnerStart, TypeOK, receiver
  <2>2. ASSUME NEW o \in Owners, NEW p \in Policies, UpdatePolicy(o, p)
        PROVE  TypeOK'
    <3>1. /\ floor' \in Policies \cup {NoPolicy}
          /\ superseded' \in [Policies -> Nat]
      BY <2>2, MoveFloorType DEF UpdatePolicy, TypeOK
    <3> QED BY <2>2, <3>1 DEF UpdatePolicy, TypeOK, receiver
  <2>3. ASSUME NEW o \in Owners, OwnerCrash(o)
        PROVE  TypeOK'
    BY <2>3 DEF OwnerCrash, TypeOK, receiver
  <2>4. ASSUME NEW o \in Owners, NEW n \in Nonces, IssueChallenge(o, n)
        PROVE  TypeOK'
    BY <2>4, TimeAssumption DEF IssueChallenge, TypeOK, receiver
  <2>5. ASSUME NEW o \in Owners, NEW r \in reports, Provision(o, r)
        PROVE  TypeOK'
    <3>1. r \in Letter /\ policy[o] \in Policies
      BY <2>5 DEF TypeOK, Provision
    <3>2. envelopes' \in SUBSET Letter
      BY <2>5, <3>1 DEF TypeOK, Provision, Letter
    <3>3. open' \in [Owners -> SUBSET Nonces]
      BY <2>5 DEF TypeOK, Provision
    <3> QED BY <2>5, <3>2, <3>3 DEF Provision, TypeOK, receiver
  <2>6. ASSUME NEW b \in Boots, NEW p \in Policies, Boot(b, p)
        PROVE  TypeOK'
    BY <2>6 DEF Boot, TypeOK, owner
  <2>7. ASSUME NEW b \in Boots, NEW n \in minted, NEW offered \in {expires[n], Never},
               Report(b, n, offered)
        PROVE  TypeOK'
    <3>1. n \in Nonces /\ offered \in Nat /\ now \in Nat /\ runs[b] \in Policies
      BY <2>7, TimeAssumption DEF TypeOK, Never, Report
    <3>2. MinOf(offered, now + Window) \in Nat
      BY <3>1, MinOfNat, TimeAssumption
    <3>3. reports' \in SUBSET Letter
      BY <2>7, <3>1 DEF TypeOK, Report, Letter
    <3> QED BY <2>7, <3>1, <3>2, <3>3 DEF Report, TypeOK, owner
  <2>8. ASSUME NEW b \in Boots, NEW e \in envelopes, Install(b, e)
        PROVE  TypeOK'
    <3>1. e.nonce \in Nonces /\ e.policy \in Policies /\ now \in Nat
      BY DEF TypeOK, Letter
    <3>2. installs' \in SUBSET [boot : Boots, nonce : Nonces, policy : Policies, at : Nat]
      BY <2>8, <3>1 DEF Install, TypeOK
    <3> QED BY <2>8, <3>2 DEF Install, TypeOK, owner
  <2>9. ASSUME NEW b \in Boots, Retire(b)
        PROVE  TypeOK'
    BY <2>9 DEF Retire, TypeOK, owner
  <2>10. CASE ClockMoves
    BY <2>10, TimeAssumption DEF ClockMoves, TypeOK, owner, receiver
  <2>11. CASE UNCHANGED vars
    BY <2>11 DEF vars, owner, receiver, TypeOK
  <2> QED
    BY <2>1, <2>2, <2>3, <2>4, <2>5, <2>6, <2>7, <2>8, <2>9, <2>10, <2>11 DEF Next
<1> QED BY <1>1, <1>2, PTL DEF Spec

-----------------------------------------------------------------------------

\* An admissible policy is the floor's or of a later epoch, so that moving the
\* floor to it leaves every earlier grant behind or equal.
LEMMA MoveFloorGrants ==
    ASSUME TypeOK, GrantInv, NEW p \in Policies, Admissible(p), MoveFloor(p),
           UNCHANGED envelopes
    PROVE  GrantInv'
<1>1. p.epoch \in Int /\ floor.epoch \in Int
  BY PolicyAssumption DEF TypeOK, NoPolicy
<1>2. \A e \in envelopes : e.policy.epoch \in Int
  BY PolicyAssumption DEF TypeOK, Letter
<1> QED BY <1>1, <1>2 DEF GrantInv, OnePolicyPerEpoch, Admissible, MoveFloor

\* An envelope that is made is for the floor's policy.
LEMMA NewEnvelopes ==
    ASSUME NEW o \in Owners, NEW r \in reports, Provision(o, r)
    PROVE  /\ \A e \in envelopes' : e \in envelopes \/ e.policy = floor
           /\ floor' = floor
BY DEF Provision, Admitted

LEMMA GrantInductive == TypeOK /\ GrantInv /\ [Next]_vars => GrantInv'
<1> SUFFICES ASSUME TypeOK, GrantInv, [Next]_vars
             PROVE  GrantInv'
  OBVIOUS
<1>1. ASSUME NEW o \in Owners, NEW p \in Policies, OwnerStart(o, p)
      PROVE  GrantInv'
  BY <1>1, MoveFloorGrants DEF OwnerStart
<1>2. ASSUME NEW o \in Owners, NEW p \in Policies, UpdatePolicy(o, p)
      PROVE  GrantInv'
  <2>1. CASE MoveFloor(p)
    BY <1>2, <2>1, MoveFloorGrants DEF UpdatePolicy
  <2>2. CASE UNCHANGED <<floor, superseded>>
    BY <1>2, <2>2 DEF UpdatePolicy, GrantInv, OnePolicyPerEpoch
  <2> QED BY <1>2, <2>1, <2>2 DEF UpdatePolicy
<1>3. ASSUME NEW o \in Owners, NEW r \in reports, Provision(o, r)
      PROVE  GrantInv'
  <2>1. floor.epoch \in Int
    BY PolicyAssumption DEF TypeOK, NoPolicy
  <2>2. \A e \in envelopes : e.policy.epoch \in Int
    BY PolicyAssumption DEF TypeOK, Letter
  <2> QED BY <1>3, <2>1, <2>2, NewEnvelopes DEF GrantInv, OnePolicyPerEpoch
<1>4. CASE UNCHANGED <<floor, envelopes>>
  BY <1>4 DEF GrantInv, OnePolicyPerEpoch
<1> QED
  BY <1>1, <1>2, <1>3, <1>4 DEF Next, OwnerCrash, IssueChallenge, Boot, Report, Install,
     Retire, ClockMoves, owner, vars

\* However many owner processes share the floor, crash, restart and fail to commit,
\* the key is provisioned under at most one policy of an epoch.
THEOREM PolicyOfAnEpochIsUnique == Spec => []OnePolicyPerEpoch
<1>1. Init => GrantInv
  BY DEF Init, GrantInv, OnePolicyPerEpoch
<1>2. GrantInv => OnePolicyPerEpoch
  BY DEF GrantInv
<1> QED BY <1>1, <1>2, TypeCorrect, GrantInductive, PTL DEF Spec

\* A live owner process with a superseded policy never makes an envelope again.
THEOREM NoGrantIsRolledBack == Spec => NoRollback
<1> DEFINE Forward == \A e \in envelopes' \ envelopes, f \in envelopes :
                          f.policy.epoch <= e.policy.epoch
<1>1. Init => GrantInv
  BY DEF Init, GrantInv, OnePolicyPerEpoch
<1>2. TypeOK /\ GrantInv /\ [Next]_vars => Forward
  <2> SUFFICES ASSUME TypeOK, GrantInv, [Next]_vars
               PROVE  Forward
    OBVIOUS
  <2>1. floor.epoch \in Int /\ \A e \in envelopes : e.policy.epoch \in Int
    BY PolicyAssumption DEF TypeOK, NoPolicy, Letter
  <2>2. ASSUME NEW o \in Owners, NEW r \in reports, Provision(o, r)
        PROVE  Forward
    BY <2>1, <2>2, NewEnvelopes DEF GrantInv
  <2>3. CASE UNCHANGED envelopes
    BY <2>3
  <2> QED
    BY <2>2, <2>3 DEF Next, OwnerStart, UpdatePolicy, OwnerCrash, IssueChallenge, Boot,
       Report, Install, Retire, ClockMoves, vars
<1>3. TypeOK /\ GrantInv /\ [Next]_vars => [Forward]_vars
  BY <1>2
<1> QED BY <1>1, <1>3, TypeCorrect, GrantInductive, PTL DEF Spec, NoRollback

-----------------------------------------------------------------------------

Installed == [boot : Boots, nonce : Nonces, policy : Policies, at : Nat]

\* The envelope that Provision may add answers a challenge that was open, and was made
\* from a report.
LEMMA EnvelopeMade ==
    ASSUME TypeOK, NEW o \in Owners, NEW r \in reports, Provision(o, r),
           NEW e \in envelopes', e \notin envelopes
    PROVE  /\ e \in Letter /\ e.nonce = r.nonce /\ e.boot = r.boot /\ e.policy = floor
           /\ r.nonce \in open[o]
           /\ envelopes' = envelopes \cup {e}
           /\ floor \in Policies
<1>1. r \in Letter /\ policy[o] \in Policies /\ policy[o] = floor
  BY DEF TypeOK, Provision, Admitted
<1>2. /\ r.nonce \in open[o]
      /\ envelopes' = envelopes \cup {[nonce |-> r.nonce, policy |-> policy[o], boot |-> r.boot]}
  BY DEF Provision
<1>3. e = [nonce |-> r.nonce, policy |-> policy[o], boot |-> r.boot]
  BY <1>2
<1> QED BY <1>1, <1>2, <1>3 DEF Letter

LEMMA ChallengeInductive ==
    ASSUME TypeOK, ChallengeInv, [Next]_vars
    PROVE  ChallengeInv'
<1>1. ASSUME NEW o \in Owners, UNCHANGED <<minted, envelopes>>,
             open' = [open EXCEPT ![o] = {}]
      PROVE  ChallengeInv'
  <2>1. \A q \in Owners : open'[q] \subseteq open[q]
    BY <1>1 DEF TypeOK
  <2> QED BY <1>1, <2>1 DEF ChallengeInv
<1>2. ASSUME NEW o \in Owners, NEW n \in Nonces, IssueChallenge(o, n)
      PROVE  ChallengeInv'
  <2>1. /\ n \notin minted /\ minted' = minted \cup {n} /\ envelopes' = envelopes
        /\ \A q \in Owners : open'[q] = IF q = o THEN open[o] \cup {n} ELSE open[q]
    BY <1>2 DEF IssueChallenge, TypeOK
  <2>2. \A q \in Owners : open'[q] \subseteq minted'
    BY <2>1 DEF ChallengeInv
  <2>3. \A p, q \in Owners : p # q => open'[p] \cap open'[q] = {}
    BY <2>1 DEF ChallengeInv
  <2>4. \A e \in envelopes' : e.nonce \in minted' /\ \A q \in Owners : e.nonce \notin open'[q]
    BY <2>1 DEF ChallengeInv
  <2> QED BY <2>1, <2>2, <2>3, <2>4 DEF ChallengeInv
<1>3. ASSUME NEW o \in Owners, NEW r \in reports, Provision(o, r)
      PROVE  ChallengeInv'
  <2>1. /\ minted' = minted
        /\ \A q \in Owners : open'[q] = IF q = o THEN open[o] \ {r.nonce} ELSE open[q]
    BY <1>3 DEF Provision, TypeOK
  <2>2. CASE envelopes' \subseteq envelopes
    BY <2>1, <2>2 DEF ChallengeInv
  <2>3. CASE ~(envelopes' \subseteq envelopes)
    <3>1. PICK e \in envelopes' : e \notin envelopes
      BY <2>3
    <3>2. /\ e.nonce = r.nonce /\ r.nonce \in open[o]
          /\ envelopes' = envelopes \cup {e}
      BY <1>3, <3>1, EnvelopeMade
    <3>3. \A f \in envelopes : f.nonce # e.nonce
      BY <3>2 DEF ChallengeInv
    <3>4. e.nonce \in minted /\ \A q \in Owners : e.nonce \notin open'[q]
      BY <2>1, <3>2 DEF ChallengeInv
    <3>5. \A f \in envelopes' : f.nonce \in minted /\ \A q \in Owners : f.nonce \notin open'[q]
      BY <2>1, <3>2, <3>4 DEF ChallengeInv
    <3>6. \A f, g \in envelopes' : f.nonce = g.nonce => f = g
      BY <3>2, <3>3 DEF ChallengeInv
    <3> QED BY <2>1, <3>5, <3>6 DEF ChallengeInv
  <2> QED BY <2>2, <2>3
<1>4. CASE UNCHANGED <<open, minted, envelopes>>
  BY <1>4 DEF ChallengeInv
<1> QED
  BY <1>1, <1>2, <1>3, <1>4 DEF Next, OwnerStart, UpdatePolicy, OwnerCrash, Boot, Report,
     Install, Retire, ClockMoves, owner, vars

\* The one installation that Install may add.
LEMMA InstallMade ==
    ASSUME TypeOK, NEW b \in Boots, NEW e \in envelopes, Install(b, e)
    PROVE  \/ UNCHANGED <<boot, installs>>
           \/ \E i \in Installed :
                /\ i.boot = b /\ e.boot = b /\ i.nonce = e.nonce /\ i.policy = e.policy
                /\ i.at = now /\ now <= until[b] /\ pending[b] = e.nonce
                /\ boot[b] = "waiting" /\ boot' = [boot EXCEPT ![b] = "provisioned"]
                /\ installs' = installs \cup {i}
<1>1. CASE e.nonce = pending[b] /\ now <= until[b] /\ e.policy = runs[b] /\ e.boot = b
  <2> DEFINE i == [boot |-> b, nonce |-> e.nonce, policy |-> e.policy, at |-> now]
  <2>1. i \in Installed
    BY DEF TypeOK, Letter, Installed
  <2>2. installs' = installs \cup {i} /\ boot' = [boot EXCEPT ![b] = "provisioned"]
    BY <1>1 DEF Install
  <2>3. boot[b] = "waiting"
    BY DEF Install
  <2>4. i.boot = b /\ i.nonce = e.nonce /\ i.policy = e.policy /\ i.at = now
    OBVIOUS
  <2> HIDE DEF i
  <2> QED BY <1>1, <2>1, <2>2, <2>3, <2>4
<1>2. CASE ~(e.nonce = pending[b] /\ now <= until[b] /\ e.policy = runs[b] /\ e.boot = b)
  BY <1>2 DEF Install
<1> QED BY <1>1, <1>2

\* An envelope is never taken back.
LEMMA EnvelopesStay ==
    ASSUME [Next]_vars
    PROVE  envelopes \subseteq envelopes'
BY DEF Next, OwnerStart, UpdatePolicy, OwnerCrash, IssueChallenge, Provision, Boot, Report,
   Install, Retire, ClockMoves, vars

LEMMA InstallInductive ==
    ASSUME TypeOK, ChallengeInv, InstallInv, [Next]_vars
    PROVE  InstallInv'
<1>0. envelopes \subseteq envelopes'
  BY EnvelopesStay
<1>1. ASSUME UNCHANGED installs,
             \A b \in Boots : boot[b] \in {"provisioned", "retired"} =>
                                  boot'[b] \in {"provisioned", "retired"}
      PROVE  InstallInv'
  BY <1>0, <1>1 DEF InstallInv, InstallOnce, TypeOK
<1>2. ASSUME NEW b \in Boots, NEW e \in envelopes, Install(b, e)
      PROVE  InstallInv'
  <2>1. CASE UNCHANGED <<boot, installs>>
    BY <1>1, <2>1
  <2>2. ASSUME NEW i \in Installed, i.boot = b, e.boot = b, i.nonce = e.nonce,
               boot[b] = "waiting", boot' = [boot EXCEPT ![b] = "provisioned"],
               installs' = installs \cup {i}
        PROVE  InstallInv'
    <3>1. \A j \in installs : j.boot # b
      BY <2>2 DEF InstallInv
    <3>2. \A j \in installs : j.nonce # i.nonce
      BY <2>2, <3>1 DEF InstallInv, ChallengeInv
    <3>3. InstallOnce'
      BY <2>2, <3>1, <3>2 DEF InstallInv, InstallOnce
    <3>4. boot'[b] = "provisioned" /\ \A c \in Boots \ {b} : boot'[c] = boot[c]
      BY <2>2 DEF TypeOK
    <3>5. \A j \in installs' : boot'[j.boot] \in {"provisioned", "retired"}
      BY <2>2, <3>1, <3>4 DEF InstallInv, TypeOK
    <3>6. \A j \in installs' : \E f \in envelopes' : f.nonce = j.nonce /\ f.boot = j.boot
      BY <1>0, <2>2 DEF InstallInv
    <3> QED BY <3>3, <3>5, <3>6 DEF InstallInv
  <2> QED BY <1>2, <2>1, <2>2, InstallMade
<1>3. ASSUME NEW b \in Boots, NEW p \in Policies, Boot(b, p)
      PROVE  InstallInv'
  BY <1>1, <1>3 DEF Boot, TypeOK
<1>4. ASSUME NEW b \in Boots, Retire(b)
      PROVE  InstallInv'
  BY <1>1, <1>4 DEF Retire, TypeOK
<1>5. CASE UNCHANGED <<boot, installs>>
  BY <1>1, <1>5
<1> QED
  BY <1>2, <1>3, <1>4, <1>5 DEF Next, OwnerStart, UpdatePolicy, OwnerCrash,
     IssueChallenge, Provision, Report, ClockMoves, receiver, vars

\* One challenge installs one key and a receiver is installed once, however often and in
\* whatever order the network delivers challenges, reports and envelopes.
THEOREM InstalledOnce == Spec => []InstallOnce
<1>1. Init => ChallengeInv /\ InstallInv
  BY DEF Init, ChallengeInv, InstallInv, InstallOnce
<1>2. TypeOK /\ ChallengeInv /\ InstallInv /\ [Next]_vars => ChallengeInv' /\ InstallInv'
  BY ChallengeInductive, InstallInductive
<1>3. InstallInv => InstallOnce
  BY DEF InstallInv
<1> QED BY <1>1, <1>2, <1>3, TypeCorrect, PTL DEF Spec

-----------------------------------------------------------------------------

\* When the floor moves, the policy that was the floor is superseded now, and no other is.
LEMMA MoveFloorSupersedes ==
    ASSUME TypeOK, WindowInv, NEW p \in Policies, Admissible(p), MoveFloor(p)
    PROVE  /\ \A q \in Policies : superseded'[q] = superseded[q] \/ superseded'[q] = now
           /\ \A q \in Policies : superseded'[q] = Never \/ q.epoch < floor'.epoch
<1>1. /\ floor.epoch \in Int /\ \A q \in Policies : q.epoch \in Int
      /\ floor' = p /\ floor \in Policies \cup {NoPolicy}
  BY PolicyAssumption DEF TypeOK, NoPolicy, MoveFloor
<1>2. CASE p = floor
  <2>1. superseded' = superseded /\ floor' = floor
    BY <1>2 DEF MoveFloor
  <2> QED BY <2>1 DEF WindowInv
<1>3. CASE p # floor
  <2>1. p.epoch > floor.epoch
    BY <1>3 DEF Admissible
  <2>2. \A q \in Policies : superseded'[q] = IF q = floor THEN now ELSE superseded[q]
    <3>1. CASE floor \in Policies
      BY <1>3, <3>1 DEF MoveFloor, TypeOK
    <3>2. CASE floor \notin Policies
      BY <3>2 DEF MoveFloor
    <3> QED BY <3>1, <3>2
  <2>3. ASSUME NEW q \in Policies
        PROVE  superseded'[q] = Never \/ q.epoch < p.epoch
    <3>1. q = floor \/ superseded[q] = Never \/ q.epoch < floor.epoch
      BY DEF WindowInv
    <3> QED BY <1>1, <2>1, <2>2, <3>1
  <2> QED BY <1>1, <2>2, <2>3
<1> QED BY <1>2, <1>3

\* What moving the floor leaves of WindowInv.
LEMMA MoveFloorWindow ==
    ASSUME TypeOK, TypeOK', WindowInv, NEW p \in Policies, Admissible(p), MoveFloor(p),
           UNCHANGED <<now, reports, envelopes, receiver>>
    PROVE  WindowInv'
<1>0. UNCHANGED <<now, reports, envelopes, boot, runs, pending, until, seen, installs>>
  BY DEF receiver
<1>1. /\ \A q \in Policies : superseded'[q] = superseded[q] \/ superseded'[q] = now
      /\ \A q \in Policies : superseded'[q] = Never \/ q.epoch < floor'.epoch
  BY MoveFloorSupersedes
<1>2. ASSUME NEW e \in envelopes, pending[e.boot] = e.nonce
      PROVE  until[e.boot] <= superseded'[e.policy] + Window
  <2>1. e.policy \in Policies /\ e.boot \in Boots
    BY DEF TypeOK, Letter
  <2> QED BY <1>1, <1>2, <2>1 DEF WindowInv
<1>3. ASSUME NEW i \in installs
      PROVE  i.at <= superseded'[i.policy] + Window
  <2>1. i.policy \in Policies /\ i.at \in Nat /\ now \in Nat /\ Window \in Nat
    BY TimeAssumption DEF TypeOK
  <2>2. i.at <= now /\ i.at <= superseded[i.policy] + Window
    BY DEF WindowInv, SupersededExpires
  <2> QED BY <1>1, <2>1, <2>2
<1> QED BY <1>0, <1>1, <1>2, <1>3 DEF WindowInv, SupersededExpires

LEMMA WindowInductive ==
    ASSUME TypeOK, TypeOK', WindowInv, [Next]_vars
    PROVE  WindowInv'
<1>0. now \in Nat /\ now <= MaxTime /\ Window \in Nat /\ MaxTime \in Nat
  BY TimeAssumption DEF TypeOK
<1>1. ASSUME NEW o \in Owners, NEW p \in Policies, OwnerStart(o, p)
      PROVE  WindowInv'
  BY <1>1, MoveFloorWindow DEF OwnerStart
<1>2. ASSUME NEW o \in Owners, NEW p \in Policies, UpdatePolicy(o, p)
      PROVE  WindowInv'
  <2>1. CASE MoveFloor(p)
    BY <1>2, <2>1, MoveFloorWindow DEF UpdatePolicy
  <2>2. CASE UNCHANGED <<floor, superseded>>
    BY <1>2, <2>2 DEF UpdatePolicy, receiver, WindowInv, SupersededExpires
  <2> QED BY <1>2, <2>1, <2>2 DEF UpdatePolicy
<1>3. ASSUME NEW o \in Owners, NEW r \in reports, Provision(o, r)
      PROVE  WindowInv'
  <2>1. UNCHANGED <<now, floor, superseded, boot, pending, until, seen, installs, reports>>
    BY <1>3 DEF Provision, receiver
  <2>2. ASSUME NEW e \in envelopes', e \notin envelopes
        PROVE  /\ e.nonce \in seen[e.boot]
               /\ until[e.boot] <= superseded[e.policy] + Window
    <3>1. /\ e \in Letter /\ e.nonce = r.nonce /\ e.boot = r.boot /\ e.policy = floor
          /\ floor \in Policies
      BY <1>3, <2>2, EnvelopeMade
    <3>2. e.nonce \in seen[e.boot]
      BY <3>1 DEF WindowInv
    <3>3. floor.epoch \in Int
      BY <3>1, PolicyAssumption
    <3>4. superseded[floor] = Never
      BY <3>1, <3>3 DEF WindowInv
    <3>5. until[r.boot] <= now + Window /\ until[r.boot] \in Nat
      BY <3>1 DEF WindowInv, TypeOK, Letter
    <3> QED BY <1>0, <3>1, <3>2, <3>4, <3>5 DEF Never
  <2> QED BY <2>1, <2>2 DEF WindowInv, SupersededExpires
<1>4. ASSUME NEW b \in Boots, NEW n \in minted, NEW offered \in {expires[n], Never},
             Report(b, n, offered)
      PROVE  WindowInv'
  <2>1. /\ n \notin seen[b]
        /\ \A c \in Boots : seen'[c] = IF c = b THEN seen[b] \cup {n} ELSE seen[c]
        /\ \A c \in Boots : pending'[c] = IF c = b THEN n ELSE pending[c]
        /\ \A c \in Boots : until'[c] = IF c = b THEN MinOf(offered, now + Window) ELSE until[c]
        /\ UNCHANGED <<now, floor, superseded, installs, envelopes>>
    BY <1>4 DEF Report, TypeOK, owner
  <2>2. \A r \in reports' : r \in reports \/ (r.nonce = n /\ r.boot = b)
    BY <1>4 DEF Report
  <2>3. MinOf(offered, now + Window) <= now + Window
    <3>1. offered \in Nat /\ now + Window \in Nat
      BY <1>0 DEF TypeOK, Never
    <3> QED BY <3>1, MinOfNat
  <2>4. \A r \in reports \cup envelopes : r.boot \in Boots
    BY DEF TypeOK, Letter
  <2>5. \A r \in reports' \cup envelopes' : r.nonce \in seen'[r.boot]
    BY <2>1, <2>2, <2>4 DEF WindowInv
  <2>6. \A c \in Boots : until'[c] <= now + Window
    BY <2>1, <2>3 DEF WindowInv
  <2>7. ASSUME NEW e \in envelopes, pending'[e.boot] = e.nonce
        PROVE  until'[e.boot] <= superseded[e.policy] + Window
    <3>1. e.boot # b
      BY <2>1, <2>4, <2>7 DEF WindowInv
    <3> QED BY <2>1, <2>4, <2>7, <3>1 DEF WindowInv
  <2> QED BY <2>1, <2>5, <2>6, <2>7 DEF WindowInv, SupersededExpires
<1>5. ASSUME NEW b \in Boots, pending' = [pending EXCEPT ![b] = NoNonce],
             until' = [until EXCEPT ![b] = 0],
             UNCHANGED <<now, floor, superseded, seen, reports, envelopes>>,
             \A i \in installs' : i.at <= now /\ i.at <= superseded[i.policy] + Window
      PROVE  WindowInv'
  <2>1. \A c \in Boots : /\ pending'[c] = IF c = b THEN NoNonce ELSE pending[c]
                         /\ until'[c] = IF c = b THEN 0 ELSE until[c]
    BY <1>5 DEF TypeOK
  <2>2. \A c \in Boots : until'[c] <= now + Window
    BY <1>0, <2>1 DEF WindowInv
  <2>3. ASSUME NEW e \in envelopes, pending'[e.boot] = e.nonce
        PROVE  until'[e.boot] <= superseded[e.policy] + Window
    <3>1. e.boot \in Boots /\ e.nonce # NoNonce
      BY NoneAssumption DEF TypeOK, Letter
    <3> QED BY <2>1, <2>3, <3>1 DEF WindowInv
  <2> QED BY <1>5, <2>2, <2>3 DEF WindowInv, SupersededExpires
<1>6. ASSUME NEW b \in Boots, NEW e \in envelopes, Install(b, e)
      PROVE  WindowInv'
  <2>1. /\ pending' = [pending EXCEPT ![b] = NoNonce] /\ until' = [until EXCEPT ![b] = 0]
        /\ UNCHANGED <<now, floor, superseded, seen, reports, envelopes>>
    BY <1>6 DEF Install, owner
  <2>2. \A i \in installs : i.at <= now /\ i.at <= superseded[i.policy] + Window
    BY DEF WindowInv, SupersededExpires
  <2>3. CASE installs' = installs
    BY <1>5, <2>1, <2>2, <2>3
  <2>4. ASSUME NEW i \in Installed, i.boot = b, e.boot = b, i.nonce = e.nonce,
               i.policy = e.policy, i.at = now, now <= until[b], pending[b] = e.nonce,
               installs' = installs \cup {i}
        PROVE  WindowInv'
    <3>1. until[b] <= superseded[i.policy] + Window
      BY <2>4 DEF WindowInv
    <3>2. until[b] \in Nat /\ superseded[i.policy] \in Nat
      BY DEF TypeOK, Installed
    <3>3. i.at <= now /\ i.at <= superseded[i.policy] + Window
      BY <1>0, <2>4, <3>1, <3>2
    <3>4. \A j \in installs' : j.at <= now /\ j.at <= superseded[j.policy] + Window
      BY <2>2, <2>4, <3>3
    <3> QED BY <1>5, <2>1, <3>4
  <2> QED BY <1>6, <2>3, <2>4, InstallMade
<1>7. ASSUME NEW b \in Boots, Retire(b)
      PROVE  WindowInv'
  <2>1. \A i \in installs : i.at <= now /\ i.at <= superseded[i.policy] + Window
    BY DEF WindowInv, SupersededExpires
  <2> QED BY <1>5, <1>7, <2>1 DEF Retire, owner
<1>8. CASE ClockMoves
  <2>1. now' = now + 1 /\ UNCHANGED <<floor, superseded, pending, until, seen, installs,
                                      reports, envelopes>>
    BY <1>8 DEF ClockMoves, owner, receiver
  <2>2. \A b \in Boots : until[b] <= now' + Window
    BY <1>0, <2>1 DEF WindowInv, TypeOK
  <2>3. \A i \in installs : i.at <= now'
    BY <1>0, <2>1 DEF WindowInv, TypeOK
  <2> QED BY <2>1, <2>2, <2>3 DEF WindowInv, SupersededExpires
<1>9. CASE UNCHANGED <<now, floor, superseded, pending, until, seen, installs, reports, envelopes>>
  BY <1>9 DEF WindowInv, SupersededExpires
<1> QED
  BY <1>1, <1>2, <1>3, <1>4, <1>6, <1>7, <1>8, <1>9 DEF Next, OwnerCrash, IssueChallenge,
     Boot, owner, receiver, vars

\* Once the owner has moved to another policy, an envelope of the old one installs for at
\* most one window, however long the network pretends the challenge lives.
THEOREM SupersededGrantsExpire == Spec => []SupersededExpires
<1>1. Init => WindowInv
  BY TimeAssumption DEF Init, WindowInv, SupersededExpires
<1>2. TypeOK /\ TypeOK' /\ WindowInv /\ [Next]_vars => WindowInv'
  BY WindowInductive
<1>3. WindowInv => SupersededExpires
  BY DEF WindowInv
<1> QED BY <1>1, <1>2, <1>3, TypeCorrect, PTL DEF Spec

=============================================================================
