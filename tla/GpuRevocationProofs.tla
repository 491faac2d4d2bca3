------------------------ MODULE GpuRevocationProofs -------------------------
(***************************************************************************)
(* Proofs about GpuRevocation: what a check that passes says about the     *)
(* links of its chain, for any number of threads, certificates and chains  *)
(* of any length, any window and any clock unit.                           *)
(***************************************************************************)
EXTENDS GpuRevocation, TLAPS

LEMMA MinOfNat ==
    ASSUME NEW a \in Nat, NEW b \in Nat
    PROVE  MinOf(a, b) \in Nat /\ MinOf(a, b) <= a /\ MinOf(a, b) <= b
BY DEF MinOf

LEMMA ProductNat ==
    ASSUME NEW a \in Nat, NEW b \in Nat
    PROVE  a * b \in Nat
OBVIOUS

LEMMA ConstantTypes ==
    Window \in Nat /\ Never \in Nat /\ Unit \in Nat \ {0} /\ MaxAge \in Nat
BY AgeAssumption, TimeAssumption, ProductNat DEF Window, Never

\* A GOOD or other answer is one of the three statuses.
LEMMA RepliesHaveStatus ==
    ASSUME NEW r \in Replies
    PROVE  r.status \in Statuses
BY DEF Replies

LEMMA NoneTypes ==
    NoCheck \in Checks /\ NoAnswer \in Answers /\ NotHeld \in HeldAnswers
<1>1. <<>> \in Seq(Links)
  OBVIOUS
<1> QED BY <1>1, ConstantTypes DEF NoCheck, NoAnswer, NotHeld, Checks, Answers, HeldAnswers

\* A check that runs asks about a link.
LEMMA LinkType ==
    ASSUME TypeOK, NEW t \in Threads, pc[t] # "idle"
    PROVE  Link(t) \in Links
<1>1. check[t].chain \in Seq(Links) /\ check[t].at \in 1 .. Len(check[t].chain)
  BY DEF TypeOK, Checks
<1> QED BY <1>1 DEF Link

\* A refused check leaves nothing behind.
LEMMA RefuseEffect ==
    ASSUME TypeOK, NEW t \in Threads, Refuse(t)
    PROVE  /\ pc' \in [Threads -> Places] /\ check' \in [Threads -> Checks]
           /\ pc'[t] = "idle"
           /\ \A u \in Threads \ {t} : pc'[u] = pc[u] /\ check'[u] = check[u]
BY NoneTypes DEF Refuse, Goto, TypeOK, Places

\* What the loop body of check_chain does to a check whose link is good.
LEMMA ProceedEffect ==
    ASSUME TypeOK, NEW t \in Threads, pc[t] # "idle", NEW bound \in Nat,
           Proceed(t, "GOOD", bound)
    PROVE  /\ pc' \in [Threads -> Places] /\ check' \in [Threads -> Checks]
           /\ \A u \in Threads \ {t} : pc'[u] = pc[u] /\ check'[u] = check[u]
           /\ pc'[t] = IF check[t].at = Len(check[t].chain) THEN "passed" ELSE "asking"
           /\ check'[t].chain = check[t].chain
           /\ check'[t].start = check[t].start
           /\ check'[t].renewal = check[t].renewal
           /\ check'[t].not_after = MinOf(check[t].not_after, bound)
           /\ check'[t].at = IF check[t].at = Len(check[t].chain) THEN check[t].at
                             ELSE check[t].at + 1
           /\ check'[t].at \in 1 .. Len(check'[t].chain)
<1> DEFINE c == check[t]
           d == [chain |-> c.chain, at |-> IF c.at = Len(c.chain) THEN c.at ELSE c.at + 1,
                 start |-> c.start, renewal |-> c.renewal,
                 not_after |-> MinOf(c.not_after, bound)]
<1>1. c \in Checks /\ c.at \in 1 .. Len(c.chain) /\ Len(c.chain) \in Nat
  BY DEF TypeOK, Checks
<1>2. MinOf(c.not_after, bound) \in Nat
  BY <1>1, MinOfNat DEF Checks
<1>3. d \in Checks /\ d.at \in 1 .. Len(d.chain)
  BY <1>1, <1>2 DEF Checks
<1>4. check' = [check EXCEPT ![t] = d]
  BY <1>1 DEF Proceed, TypeOK, Checks
<1>5. pc' = [pc EXCEPT ![t] = IF c.at = Len(c.chain) THEN "passed" ELSE "asking"]
  BY DEF Proceed, Goto
<1> QED BY <1>3, <1>4, <1>5 DEF TypeOK, Places

\* A held answer stands for at most one window from when it was obtained.
LEMMA ReuseBoundType ==
    ASSUME NEW h \in HeldAnswers
    PROVE  ReuseBound(h) \in Nat /\ ReuseBound(h) <= h.fetched + Window
<1>1. h.fetched \in Nat /\ h.next \in Nat
  BY DEF HeldAnswers
<1>2. Window \in Nat
  BY ConstantTypes
<1>3. h.fetched + Window \in Nat
  BY <1>1, <1>2
<1>4. ReuseBound(h) = MinOf(h.fetched + Window, h.next)
  BY DEF ReuseBound, Window
<1> QED BY <1>1, <1>3, <1>4, MinOfNat

\* Every variable keeps its type, for every instance of the constants.
THEOREM TypeCorrect == Spec => []TypeOK
<1>1. Init => TypeOK
  BY NoneTypes, ConstantTypes DEF Init, TypeOK, Places
<1>2. TypeOK /\ [Next]_vars => TypeOK'
  <2> SUFFICES ASSUME TypeOK, [Next]_vars
               PROVE  TypeOK'
    OBVIOUS
  <2>1. ASSUME NEW t \in Threads, Refuse(t), UNCHANGED <<now, revokedAt, held>>,
               answer' \in [Threads -> Answers], reused' \in [Threads -> SUBSET Links]
        PROVE  TypeOK'
    BY <2>1, RefuseEffect DEF TypeOK
  <2>2. ASSUME NEW t \in Threads, NEW c \in Chains, NEW renewal \in BOOLEAN,
               Begin(t, c, renewal)
        PROVE  TypeOK'
    <3>1. CASE c = <<>>
      BY <2>1, <2>2, <3>1 DEF Begin, TypeOK
    <3>2. CASE c # <<>>
      <4> DEFINE d == [chain |-> c, at |-> 1, start |-> now, renewal |-> renewal,
                       not_after |-> Never]
      <4>1. c \in Seq(Links) /\ 1 \in 1 .. Len(c)
        BY <3>2, ChainAssumption
      <4>2. d \in Checks
        BY <4>1, ConstantTypes DEF Checks, TypeOK
      <4>3. check' = [check EXCEPT ![t] = d] /\ pc' = [pc EXCEPT ![t] = "asking"]
        BY <2>2, <3>2 DEF Begin, Goto
      <4> QED BY <2>2, <4>1, <4>2, <4>3 DEF Begin, TypeOK, Places
    <3> QED BY <3>1, <3>2
  <2>3. ASSUME NEW t \in Threads, Receive(t)
        PROVE  TypeOK'
    <3>1. PICK r \in Replies, next \in {now + v : v \in Validities} \cup {Never} :
            answer' = [answer EXCEPT ![t] = [status |-> r.status, next |-> next]]
      BY <2>3 DEF Receive
    <3>2. [status |-> r.status, next |-> next] \in Answers
      BY <3>1, RepliesHaveStatus, ConstantTypes, TimeAssumption DEF TypeOK, Answers
    <3> QED BY <2>3, <3>1, <3>2 DEF Receive, Goto, TypeOK, Places
  <2>4. ASSUME NEW t \in Threads, Reject(t)
        PROVE  TypeOK'
    BY <2>1, <2>4 DEF Reject, TypeOK
  <2>5. ASSUME NEW t \in Threads, Store(t)
        PROVE  TypeOK'
    <3> DEFINE a == answer[t]
               h == [status |-> a.status, fetched |-> check[t].start, next |-> a.next]
    <3>1. a \in Answers /\ h \in HeldAnswers /\ a.next \in Nat
      BY DEF TypeOK, Answers, HeldAnswers, Checks
    <3>2. answer' \in [Threads -> Answers] /\ UNCHANGED <<now, revokedAt, reused>>
      BY <2>5, NoneTypes DEF Store, TypeOK
    <3>3. CASE check[t].start >= a.next
      BY <2>1, <2>5, <3>2, <3>3 DEF Store, TypeOK
    <3>4. CASE ~(check[t].start >= a.next)
      <4>1. held' = [held EXCEPT ![Link(t)] = h] /\ Proceed(t, a.status, a.next)
        BY <2>5, <3>4 DEF Store
      <4>2. held' \in [Links -> HeldAnswers]
        BY <3>1, <4>1 DEF TypeOK
      <4>3. CASE a.status # "GOOD"
        BY <3>2, <4>1, <4>2, <4>3, RefuseEffect DEF Proceed, TypeOK
      <4>4. CASE a.status = "GOOD"
        <5>1. pc[t] # "idle" /\ Proceed(t, "GOOD", a.next)
          BY <2>5, <4>1, <4>4 DEF Store
        <5> QED BY <3>1, <3>2, <4>2, <5>1, ProceedEffect DEF TypeOK
      <4> QED BY <4>3, <4>4
    <3> QED BY <3>3, <3>4
  <2>6. ASSUME NEW t \in Threads, Unreachable(t)
        PROVE  TypeOK'
    <3> DEFINE h == held[Link(t)]
    <3>1. pc[t] # "idle" /\ UNCHANGED <<now, revokedAt, held, answer>>
      BY <2>6 DEF Unreachable
    <3>2. Link(t) \in Links /\ h \in HeldAnswers
      BY <3>1, LinkType DEF TypeOK
    <3>3. CASE Refuse(t) /\ UNCHANGED reused
      BY <2>1, <3>1, <3>3 DEF TypeOK
    <3>4. CASE Proceed(t, h.status, ReuseBound(h)) /\ reused' = [reused EXCEPT ![t] = @ \cup {Link(t)}]
      <4>1. reused' \in [Threads -> SUBSET Links]
        BY <3>2, <3>4 DEF TypeOK
      <4>2. ReuseBound(h) \in Nat
        BY <3>2, ReuseBoundType
      <4>3. CASE h.status # "GOOD"
        BY <2>1, <3>1, <3>4, <4>1, <4>3 DEF Proceed, TypeOK
      <4>4. CASE h.status = "GOOD"
        <5>1. Proceed(t, "GOOD", ReuseBound(h))
          BY <3>4, <4>4
        <5> QED BY <3>1, <4>1, <4>2, <5>1, ProceedEffect DEF TypeOK
      <4> QED BY <4>3, <4>4
    <3> QED BY <2>6, <3>3, <3>4 DEF Unreachable
  <2>7. ASSUME NEW l \in Links, Revoke(l)
        PROVE  TypeOK'
    BY <2>7 DEF Revoke, TypeOK
  <2>8. CASE Restart
    BY <2>8, NoneTypes DEF Restart, TypeOK, Places
  <2>9. CASE ClockMoves
    BY <2>9 DEF ClockMoves, TypeOK
  <2>10. CASE UNCHANGED vars
    BY <2>10 DEF vars, TypeOK
  <2> QED BY <2>2, <2>3, <2>4, <2>5, <2>6, <2>7, <2>8, <2>9, <2>10 DEF Next
<1> QED BY <1>1, <1>2, PTL DEF Spec

-----------------------------------------------------------------------------

Inv == TypeOK /\ HeldInv /\ CheckInv

\* The age of a held answer is rounded down, so it may be almost a second more than
\* the limit it is compared with.
LEMMA AgeRoundsDown ==
    ASSUME NEW start \in Nat, NEW fetched \in Nat, Age(start, fetched) <= MaxAge
    PROVE  start < fetched + Window + Unit
<1>1. Unit \in Nat /\ Unit > 0 /\ MaxAge \in Nat /\ Window \in Nat
  BY ConstantTypes
<1>2. CASE start < fetched
  BY <1>1, <1>2
<1>3. CASE start >= fetched
  <2> DEFINE d == start - fetched
             q == d \div Unit
             m == d % Unit
  <2>1. d \in Nat
    BY <1>3
  <2>2. q \in Int /\ m \in 0 .. (Unit - 1) /\ d = Unit * q + m
    BY <1>1, <2>1
  <2>3. q <= MaxAge
    BY <1>3 DEF Age
  <2>4. Unit * q <= Unit * MaxAge
    <3> HIDE DEF q
    <3> QED BY <1>1, <2>2, <2>3
  <2>5. Unit * MaxAge = Window
    BY <1>1 DEF Window
  <2> HIDE DEF q, m
  <2>6. d < Window + Unit
    <3> HIDE DEF d
    <3>1. Unit * q \in Int
      BY <1>1, <2>2
    <3> DEFINE p == Unit * q
    <3>2. p \in Int /\ p <= Window /\ d = p + m
      BY <2>2, <2>4, <2>5, <3>1
    <3> HIDE DEF p
    <3> QED BY <1>1, <2>1, <2>2, <3>2
  <2> QED BY <1>1, <2>6
<1> QED BY <1>2, <1>3

\* What CheckInv says of one check.
CheckOK(t) ==
    pc[t] # "idle" =>
        /\ check[t].start <= now
        /\ pc[t] = "storing" /\ answer[t].status = "GOOD" =>
             check[t].start <= revokedAt[Link(t)]
        /\ \A i \in 1 .. Behind(t) : LinkCleared(t, check[t].chain[i])
        /\ \A l \in reused[t] : /\ check[t].not_after <= revokedAt[l] + Window
                                /\ check[t].not_after <= now + Window

\* A check is not disturbed by what other threads do.
LEMMA OthersUndisturbed ==
    ASSUME NEW t \in Threads, CheckOK(t), now' = now, revokedAt' = revokedAt,
           pc'[t] = pc[t], check'[t] = check[t], answer'[t] = answer[t],
           reused'[t] = reused[t]
    PROVE  CheckOK(t)'
BY DEF CheckOK, Link, Behind, LinkCleared

\* A link that is good lets the check go on: what holds of the links behind it and of the
\* reused ones holds with this link too.
LEMMA ProceedKeeps ==
    ASSUME TypeOK, NEW t \in Threads, pc[t] \in {"asking", "storing"}, CheckOK(t),
           NEW bound \in Nat, Proceed(t, "GOOD", bound),
           now' = now, revokedAt' = revokedAt,
           LinkCleared(t, Link(t)),
           \/ reused'[t] = reused[t]
           \/ /\ reused'[t] = reused[t] \cup {Link(t)}
              /\ bound <= revokedAt[Link(t)] + Window /\ bound <= now + Window
    PROVE  CheckOK(t)'
<1> DEFINE c == check[t]
           d == check'[t]
<1>1. c \in Checks /\ Len(c.chain) \in Nat /\ c.at \in 1 .. Len(c.chain) /\ pc[t] # "idle"
  BY DEF TypeOK, Checks
<1>2. /\ d.chain = c.chain /\ d.start = c.start /\ d.renewal = c.renewal
      /\ d.not_after = MinOf(c.not_after, bound)
      /\ pc'[t] = IF c.at = Len(c.chain) THEN "passed" ELSE "asking"
      /\ d.at = IF c.at = Len(c.chain) THEN c.at ELSE c.at + 1
  BY <1>1, ProceedEffect
<1>3. Behind(t) = c.at - 1
  BY DEF Behind
<1>4. Behind(t)' = c.at
  BY <1>1, <1>2 DEF Behind
<1>5. \A l \in Links : LinkCleared(t, l) => LinkCleared(t, l)'
  BY <1>2 DEF LinkCleared
<1>6. ASSUME NEW i \in 1 .. c.at
      PROVE  LinkCleared(t, check[t].chain[i])'
  <2>1. c.chain[i] \in Links
    BY <1>1 DEF Checks
  <2>2. LinkCleared(t, c.chain[i])
    BY <1>1, <1>3 DEF CheckOK, Link
  <2> QED BY <1>2, <1>5, <2>1, <2>2 DEF LinkCleared
<1>7. d.not_after \in Nat /\ d.not_after <= c.not_after /\ d.not_after <= bound /\ c.not_after \in Nat
  BY <1>1, <1>2, MinOfNat DEF Checks
<1>8. ASSUME NEW l \in reused'[t]
      PROVE  d.not_after <= revokedAt[l] + Window /\ d.not_after <= now + Window
  <2>1. Link(t) \in Links /\ reused[t] \subseteq Links
    BY <1>1, LinkType DEF TypeOK
  <2>2. l \in Links
    BY <1>8, <2>1
  <2>3. revokedAt[l] \in Nat /\ now \in Nat /\ Window \in Nat
    BY <2>2, ConstantTypes DEF TypeOK
  <2>4. CASE l \in reused[t]
    BY <1>1, <1>7, <2>3, <2>4 DEF CheckOK
  <2>5. CASE l \notin reused[t]
    BY <1>7, <1>8, <2>3, <2>5
  <2> QED BY <2>4, <2>5
<1>9. d.start <= now /\ pc'[t] # "storing"
  BY <1>1, <1>2 DEF CheckOK
<1> QED BY <1>4, <1>6, <1>8, <1>9 DEF CheckOK

\* A held answer that may be reused clears its link, and bounds the permission.
LEMMA ReuseClears ==
    ASSUME TypeOK, HeldInv, NEW t \in Threads, pc[t] # "idle", CheckOK(t),
           check[t].renewal, Reusable(held[Link(t)], check[t].start),
           held[Link(t)].status = "GOOD"
    PROVE  /\ LinkCleared(t, Link(t))
           /\ ReuseBound(held[Link(t)]) <= revokedAt[Link(t)] + Window
           /\ ReuseBound(held[Link(t)]) <= now + Window
<1> DEFINE l == Link(t)
           h == held[l]
           s == check[t].start
<1>1. l \in Links
  BY LinkType
<1>2. h \in HeldAnswers /\ h.fetched \in Nat /\ revokedAt[l] \in Nat /\ s \in Nat /\ now \in Nat
  BY <1>1 DEF TypeOK, HeldAnswers, Checks
<1>3. h.fetched <= now /\ h.fetched <= revokedAt[l]
  BY <1>1 DEF HeldInv
<1>4. Window \in Nat /\ Unit \in Nat
  BY ConstantTypes
<1>5. ReuseBound(h) \in Nat /\ ReuseBound(h) <= h.fetched + Window
  BY <1>2, ReuseBoundType
<1>6. s < h.fetched + Window + Unit
  BY <1>2, AgeRoundsDown DEF Reusable
<1>7. s < revokedAt[l] + Window + Unit
  <2> HIDE DEF l, h, s
  <2> QED BY <1>2, <1>3, <1>4, <1>6
<1>8. ReuseBound(h) <= revokedAt[l] + Window /\ ReuseBound(h) <= now + Window
  <2> DEFINE b == ReuseBound(h)
  <2> HIDE DEF l, h, s, b
  <2> QED BY <1>2, <1>3, <1>4, <1>5 DEF b
<1> QED BY <1>7, <1>8 DEF LinkCleared

\* A GOOD from NVIDIA dates the revocation after the answer.
LEMMA GoodIsNotRevoked ==
    ASSUME NEW r \in Replies, NEW l \in Links, VerifyAnswer(r, l), r.status = "GOOD"
    PROVE  ~Revoked(l)
BY DEF Replies, VerifyAnswer, Names, SignatureVerifies, Told

LEMMA InvInit == Init => Inv
<1> SUFFICES ASSUME Init PROVE Inv
  OBVIOUS
<1>1. TypeOK
  BY NoneTypes, ConstantTypes DEF Init, TypeOK, Places
<1>2. HeldInv
  BY DEF Init, HeldInv, NotHeld
<1>3. CheckInv
  BY DEF Init, CheckInv
<1> QED BY <1>1, <1>2, <1>3 DEF Inv

LEMMA InvStep ==
    ASSUME Inv, TypeOK', [Next]_vars
    PROVE  HeldInv' /\ CheckInv'
<1> USE DEF Inv
<1>0. \A u \in Threads : CheckOK(u)
  BY DEF CheckInv, CheckOK
<1>1. ASSUME \A u \in Threads : CheckOK(u)'
      PROVE  CheckInv'
  BY <1>1 DEF CheckInv, CheckOK
<1>2. ASSUME UNCHANGED <<now, revokedAt, held>>
      PROVE  HeldInv'
  BY <1>2 DEF HeldInv
<1>3. ASSUME NEW t \in Threads, Refuse(t), UNCHANGED <<now, revokedAt>>,
             \A u \in Threads \ {t} : answer'[u] = answer[u] /\ reused'[u] = reused[u]
      PROVE  CheckInv'
  <2>1. pc'[t] = "idle" /\ \A u \in Threads \ {t} : pc'[u] = pc[u] /\ check'[u] = check[u]
    BY <1>3, RefuseEffect
  <2>2. CheckOK(t)'
    BY <2>1 DEF CheckOK
  <2>3. ASSUME NEW u \in Threads \ {t} PROVE CheckOK(u)'
    BY <1>0, <1>3, <2>1, OthersUndisturbed
  <2> QED BY <1>1, <2>2, <2>3
<1>4. ASSUME NEW t \in Threads, NEW c \in Chains, NEW renewal \in BOOLEAN,
             Begin(t, c, renewal)
      PROVE  HeldInv' /\ CheckInv'
  <2>1. HeldInv'
    BY <1>2, <1>4 DEF Begin
  <2>2. reused'[t] = {} /\ \A u \in Threads \ {t} : answer'[u] = answer[u] /\ reused'[u] = reused[u]
    BY <1>4 DEF Begin, TypeOK
  <2>3. CASE c = <<>>
    BY <1>3, <1>4, <2>1, <2>2, <2>3 DEF Begin
  <2>4. CASE c # <<>>
    <3>1. /\ pc'[t] = "asking" /\ check'[t].start = now /\ check'[t].at = 1 /\ now' = now
          /\ revokedAt' = revokedAt
          /\ \A u \in Threads \ {t} : pc'[u] = pc[u] /\ check'[u] = check[u]
      BY <1>4, <2>4 DEF Begin, Goto, TypeOK
    <3>2. Behind(t)' = 0
      BY <3>1 DEF Behind
    <3>3. CheckOK(t)'
      BY <2>2, <3>1, <3>2 DEF CheckOK, TypeOK
    <3>4. ASSUME NEW u \in Threads \ {t} PROVE CheckOK(u)'
      BY <1>0, <2>2, <3>1, OthersUndisturbed
    <3> QED BY <1>1, <2>1, <3>3, <3>4
  <2> QED BY <2>3, <2>4
<1>5. ASSUME NEW t \in Threads, Receive(t)
      PROVE  HeldInv' /\ CheckInv'
  <2>1. PICK r \in Replies, next \in {now + v : v \in Validities} \cup {Never} :
          /\ VerifyAnswer(r, Link(t))
          /\ answer' = [answer EXCEPT ![t] = [status |-> r.status, next |-> next]]
    BY <1>5 DEF Receive
  <2>2. /\ pc[t] = "asking" /\ pc' = [pc EXCEPT ![t] = "storing"]
        /\ UNCHANGED <<now, revokedAt, held, check, seen, reused>>
    BY <1>5 DEF Receive, Goto
  <2>3. answer'[t].status = r.status
    BY <2>1 DEF TypeOK
  <2>4. Link(t) \in Links
    BY <2>2, LinkType
  <2>5. check[t].start <= now /\ check[t].start \in Nat /\ now \in Nat /\ revokedAt[Link(t)] \in Nat
    BY <1>0, <2>2, <2>4 DEF CheckOK, TypeOK, Checks
  <2>6. r.status = "GOOD" => check[t].start <= revokedAt[Link(t)]
    BY <2>1, <2>4, <2>5, GoodIsNotRevoked DEF Revoked
  <2>7. Link(t)' = Link(t) /\ Behind(t)' = Behind(t) /\ pc'[t] = "storing"
    BY <2>2 DEF Link, Behind, TypeOK
  <2>8. CheckOK(t)'
    BY <1>0, <2>2, <2>3, <2>6, <2>7 DEF CheckOK, LinkCleared
  <2>9. ASSUME NEW u \in Threads \ {t} PROVE CheckOK(u)'
    <3>1. pc'[u] = pc[u] /\ answer'[u] = answer[u]
      BY <2>1, <2>2 DEF TypeOK
    <3> QED BY <1>0, <2>2, <3>1, OthersUndisturbed
  <2> QED BY <1>1, <1>2, <2>2, <2>8, <2>9
<1>6. ASSUME NEW t \in Threads, Reject(t)
      PROVE  HeldInv' /\ CheckInv'
  BY <1>2, <1>3, <1>6 DEF Reject
<1>7. ASSUME NEW t \in Threads, Store(t)
      PROVE  HeldInv' /\ CheckInv'
  <2> DEFINE a == answer[t]
             l == Link(t)
             h == [status |-> a.status, fetched |-> check[t].start, next |-> a.next]
  <2>1. /\ pc[t] = "storing" /\ UNCHANGED <<now, revokedAt, reused>>
        /\ answer' = [answer EXCEPT ![t] = NoAnswer]
    BY <1>7 DEF Store
  <2>2. \A u \in Threads \ {t} : answer'[u] = answer[u] /\ reused'[u] = reused[u]
    BY <2>1 DEF TypeOK
  <2>3. l \in Links
    BY <2>1, LinkType
  <2>4. /\ check[t].start <= now /\ check[t].start \in Nat /\ now \in Nat /\ revokedAt[l] \in Nat
        /\ a.status = "GOOD" => check[t].start <= revokedAt[l]
        /\ a.next \in Nat
    BY <1>0, <2>1, <2>3 DEF CheckOK, TypeOK, Checks, Answers
  <2>5. CASE check[t].start >= a.next
    <3>1. Refuse(t) /\ held' = held
      BY <1>7, <2>5 DEF Store
    <3> QED BY <1>2, <1>3, <2>1, <2>2, <3>1
  <2>6. CASE ~(check[t].start >= a.next)
    <3>1. held' = [held EXCEPT ![l] = h] /\ Proceed(t, a.status, a.next)
      BY <1>7, <2>6 DEF Store
    <3>2. HeldInv'
      <4> SUFFICES ASSUME NEW k \in Links
                   PROVE  /\ held'[k].fetched <= now
                          /\ held'[k].status = "GOOD" => held'[k].fetched <= revokedAt[k]
        BY <2>1 DEF HeldInv
      <4>1. CASE k = l
        BY <2>3, <2>4, <3>1, <4>1 DEF TypeOK
      <4>2. CASE k # l
        BY <3>1, <4>2 DEF TypeOK, HeldInv
      <4> QED BY <4>1, <4>2
    <3>3. CASE a.status # "GOOD"
      BY <1>3, <2>1, <2>2, <3>1, <3>2, <3>3 DEF Proceed
    <3>4. CASE a.status = "GOOD"
      <4>1. Proceed(t, "GOOD", a.next)
        BY <3>1, <3>4
      <4>2. LinkCleared(t, l)
        <5>1. check[t].start < revokedAt[l] + Window + Unit
          <6> DEFINE s == check[t].start
          <6>1. Window \in Nat /\ Unit \in Nat /\ Unit > 0
            BY ConstantTypes
          <6> HIDE DEF l, a, s
          <6> QED BY <2>4, <3>4, <6>1 DEF s
        <5> QED BY <2>4, <3>4, <5>1 DEF LinkCleared
      <4>3. CheckOK(t)'
        BY <1>0, <2>1, <2>4, <4>1, <4>2, ProceedKeeps
      <4>4. ASSUME NEW u \in Threads \ {t} PROVE CheckOK(u)'
        BY <1>0, <2>1, <2>2, <2>4, <4>1, ProceedEffect, OthersUndisturbed
      <4> QED BY <1>1, <3>2, <4>3, <4>4
    <3> QED BY <3>3, <3>4
  <2> QED BY <2>5, <2>6
<1>8. ASSUME NEW t \in Threads, Unreachable(t)
      PROVE  HeldInv' /\ CheckInv'
  <2> DEFINE l == Link(t)
             h == held[l]
  <2>1. pc[t] = "asking" /\ UNCHANGED <<now, revokedAt, held, answer>>
    BY <1>8 DEF Unreachable
  <2>2. HeldInv' /\ l \in Links /\ h \in HeldAnswers
    BY <1>2, <2>1, LinkType DEF TypeOK
  <2>3. CASE Refuse(t) /\ UNCHANGED reused
    BY <1>3, <2>1, <2>2, <2>3
  <2>4. CASE /\ check[t].renewal /\ Reusable(h, check[t].start)
             /\ Proceed(t, h.status, ReuseBound(h))
             /\ reused' = [reused EXCEPT ![t] = @ \cup {l}]
    <3>1. reused'[t] = reused[t] \cup {l} /\ \A u \in Threads \ {t} : reused'[u] = reused[u]
      BY <2>4 DEF TypeOK
    <3>2. CASE h.status # "GOOD"
      BY <1>3, <2>1, <2>2, <2>4, <3>1, <3>2 DEF Proceed
    <3>3. CASE h.status = "GOOD"
      <4>1. Proceed(t, "GOOD", ReuseBound(h)) /\ ReuseBound(h) \in Nat
        BY <2>2, <2>4, <3>3, ReuseBoundType
      <4>2. /\ LinkCleared(t, l)
            /\ ReuseBound(h) <= revokedAt[l] + Window /\ ReuseBound(h) <= now + Window
        BY <1>0, <2>1, <2>4, <3>3, ReuseClears
      <4>3. CheckOK(t)'
        BY <1>0, <2>1, <3>1, <4>1, <4>2, ProceedKeeps
      <4>4. ASSUME NEW u \in Threads \ {t} PROVE CheckOK(u)'
        BY <1>0, <2>1, <3>1, <4>1, ProceedEffect, OthersUndisturbed
      <4> QED BY <1>1, <2>2, <4>3, <4>4
    <3> QED BY <3>2, <3>3
  <2> QED BY <1>8, <2>3, <2>4 DEF Unreachable
<1>9. ASSUME NEW l \in Links, Revoke(l)
      PROVE  HeldInv' /\ CheckInv'
  <2>1. /\ UNCHANGED <<now, held, pc, check, answer, seen, reused>>
        /\ revokedAt' = [revokedAt EXCEPT ![l] = now]
    BY <1>9 DEF Revoke
  <2>2. \A k \in Links : revokedAt'[k] = revokedAt[k] \/ revokedAt'[k] = now
    BY <2>1 DEF TypeOK
  <2>3. HeldInv'
    BY <2>1, <2>2 DEF HeldInv
  <2>4. ASSUME NEW u \in Threads, pc[u] # "idle", NEW k \in Links, LinkCleared(u, k)
        PROVE  LinkCleared(u, k)'
    <3>1. check[u].start <= now /\ check[u].start \in Nat /\ now \in Nat
      BY <1>0, <2>4 DEF CheckOK, TypeOK, Checks
    <3>2. Window \in Nat /\ Unit \in Nat /\ Unit > 0
      BY ConstantTypes
    <3>3. check[u].start < now + Window + Unit
      <4> DEFINE s == check[u].start
      <4> HIDE DEF s
      <4> QED BY <3>1, <3>2 DEF s
    <3> QED BY <2>1, <2>2, <2>4, <3>1, <3>3 DEF LinkCleared
  <2>5. ASSUME NEW u \in Threads, pc[u] # "idle" PROVE CheckOK(u)'
    <3>1. Link(u) \in Links /\ Link(u)' = Link(u) /\ Behind(u)' = Behind(u)
      BY <2>1, <2>5, LinkType DEF Link, Behind
    <3>2. Behind(u) <= Len(check[u].chain) /\ check[u].chain \in Seq(Links) /\ Behind(u) \in Int
      <4>1. check[u].chain \in Seq(Links)
        BY DEF TypeOK, Checks
      <4>2. check[u].at \in 1 .. Len(check[u].chain)
        BY <2>5 DEF TypeOK
      <4>3. Len(check[u].chain) \in Nat
        BY <4>1
      <4>4. Behind(u) = Len(check[u].chain) \/ Behind(u) = check[u].at - 1
        BY DEF Behind
      <4> HIDE DEF Behind
      <4> QED BY <4>1, <4>2, <4>3, <4>4
    <3>3. \A i \in 1 .. Behind(u) : LinkCleared(u, check[u].chain[i])'
      <4> SUFFICES ASSUME NEW i \in 1 .. Behind(u)
                   PROVE  LinkCleared(u, check[u].chain[i])'
        OBVIOUS
      <4>1. check[u].chain[i] \in Links
        BY <3>2
      <4>2. LinkCleared(u, check[u].chain[i])
        BY <1>0, <2>5 DEF CheckOK
      <4>3. PICK k \in Links : k = check[u].chain[i]
        BY <4>1
      <4>4. LinkCleared(u, k)'
        BY <2>4, <2>5, <4>2, <4>3
      <4> QED BY <2>1, <4>3, <4>4 DEF LinkCleared
    <3>4. \A k \in reused[u] : check[u].not_after <= revokedAt'[k] + Window
      BY <1>0, <2>2, <2>5 DEF CheckOK, TypeOK
    <3>5. check[u].start <= now /\ (answer[u].status = "GOOD" /\ pc[u] = "storing" => check[u].start <= revokedAt'[Link(u)])
      BY <1>0, <2>2, <2>5, <3>1 DEF CheckOK
    <3>6. \A k \in reused[u] : check[u].not_after <= now + Window
      BY <1>0, <2>5 DEF CheckOK
    <3> QED BY <2>1, <3>1, <3>3, <3>4, <3>5, <3>6 DEF CheckOK
  <2>6. ASSUME NEW u \in Threads, pc[u] = "idle" PROVE CheckOK(u)'
    BY <2>1, <2>6 DEF CheckOK
  <2> QED BY <1>1, <2>3, <2>5, <2>6
<1>10. CASE Restart
  <2>1. HeldInv'
    BY <1>10 DEF Restart, HeldInv, NotHeld, TypeOK
  <2>2. CheckInv'
    BY <1>10 DEF Restart, CheckInv
  <2> QED BY <2>1, <2>2
<1>11. CASE ClockMoves
  <2>1. UNCHANGED <<revokedAt, held, pc, check, answer, seen, reused>> /\ now' = now + 1
    BY <1>11 DEF ClockMoves
  <2>2. HeldInv'
    BY <2>1 DEF HeldInv, TypeOK, HeldAnswers
  <2>3. ASSUME NEW u \in Threads PROVE CheckOK(u)'
    <3>1. /\ check[u].start \in Nat /\ check[u].not_after \in Nat
          /\ now \in Nat /\ Window \in Nat
      BY ConstantTypes DEF TypeOK, Checks
    <3>2. check[u].start <= now => check[u].start <= now + 1
      BY <3>1
    <3>3. check[u].not_after <= now + Window => check[u].not_after <= (now + 1) + Window
      BY <3>1
    <3>4. Link(u)' = Link(u) /\ Behind(u)' = Behind(u)
      BY <2>1 DEF Link, Behind
    <3>5. CASE pc[u] # "idle"
      BY <1>0, <2>1, <3>2, <3>3, <3>4, <3>5 DEF CheckOK, LinkCleared
    <3>6. CASE pc[u] = "idle"
      BY <2>1, <3>6 DEF CheckOK
    <3> QED BY <3>5, <3>6
  <2> QED BY <1>1, <2>2, <2>3
<1>12. CASE UNCHANGED vars
  BY <1>12 DEF vars, HeldInv, CheckInv, Link, Behind, LinkCleared
<1> QED BY <1>4, <1>5, <1>6, <1>7, <1>8, <1>9, <1>10, <1>11, <1>12 DEF Next

LEMMA InvHolds == Spec => []Inv
<1>1. Inv /\ TypeOK' /\ [Next]_vars => Inv'
  BY InvStep DEF Inv
<1> QED BY InvInit, <1>1, TypeCorrect, PTL DEF Spec

\* A chain is walked to its end before the check passes.
LEMMA PassedIsCleared ==
    ASSUME Inv, NEW t \in Threads, pc[t] = "passed", NEW l \in Asked(t)
    PROVE  LinkCleared(t, l)
<1>1. check[t].chain \in Seq(Links)
  BY DEF Inv, TypeOK, Checks
<1>2. PICK i \in 1 .. Len(check[t].chain) : l = check[t].chain[i]
  BY <1>1 DEF Asked
<1> QED BY <1>2 DEF Inv, CheckInv, Behind

\* A first release that passes had every link of its chain unrevoked when it began, in any
\* interleaving of the threads that ask, store and reuse answers about the same links.
THEOREM FirstReleasesAreFresh == Spec => []FirstReleaseIsFresh
<1>1. Inv => FirstReleaseIsFresh
  BY PassedIsCleared DEF FirstReleaseIsFresh, LinkCleared
<1> QED BY <1>1, InvHolds, PTL

\* A renewal through an outage rests on a link revoked less than a window and the rounding
\* before, and the permission ends within one window of it, however often it is renewed.
THEOREM OutagesAreBounded == Spec => []OutageIsBounded
<1>1. (MaxAge + 1) * Unit = Window + Unit
  BY ConstantTypes DEF Window
<1>2. Inv => OutageIsBounded
  <2> SUFFICES ASSUME Inv, NEW t \in Threads, pc[t] = "passed"
               PROVE  /\ \A l \in Asked(t) : check[t].start < revokedAt[l] + (MaxAge + 1) * Unit
                      /\ \A l \in reused[t] : check[t].not_after <= revokedAt[l] + MaxAge * Unit
    BY DEF OutageIsBounded
  <2>1. ASSUME NEW l \in Asked(t)
        PROVE  check[t].start < revokedAt[l] + (MaxAge + 1) * Unit
    <3>1. l \in Links
      BY DEF Asked, Inv, TypeOK, Checks
    <3>2. revokedAt[l] \in Nat /\ Window \in Nat /\ Unit \in Nat
      BY <3>1, ConstantTypes DEF Inv, TypeOK
    <3>3. revokedAt[l] + (Window + Unit) = revokedAt[l] + Window + Unit
      BY <3>2
    <3>4. check[t].start < revokedAt[l] + Window + Unit
      BY PassedIsCleared DEF LinkCleared
    <3> QED BY <1>1, <3>3, <3>4
  <2>2. ASSUME NEW l \in reused[t]
        PROVE  check[t].not_after <= revokedAt[l] + MaxAge * Unit
    BY DEF Inv, CheckInv, Window
  <2> QED BY <2>1, <2>2
<1> QED BY <1>2, InvHolds, PTL

=============================================================================
