------------------------ MODULE ChallengeStoreProofs ------------------------
(***************************************************************************)
(* Proofs about the nonce store, for every set of nonces, every TTL and    *)
(* every clock bound.                                                      *)
(***************************************************************************)
EXTENDS ChallengeStore, SequenceTheorems, WellFoundedInduction, TLAPS

-----------------------------------------------------------------------------
(* Facts about the helpers.                                                *)

\* A nonempty set of naturals has a least element, which Min returns.
LEMMA MinProperties ==
    ASSUME NEW T, T \subseteq Nat, T # {}
    PROVE  Min(T) \in T /\ \A y \in T : Min(T) <= y
<1>1. PICK x \in T : \A y \in T : ~(<<y, x>> \in OpToRel(<, Nat))
  BY NatLessThanWellFounded, WFMin
<1>2. \A y \in T : ~(<<y, x>> \in {ss \in Nat \X Nat : ss[1] < ss[2]})
  BY <1>1, Zenon DEF OpToRel
<1>3. ASSUME NEW y \in T PROVE x <= y
  <2>1. x \in Nat /\ y \in Nat
    OBVIOUS
  <2>2. <<y, x>> \in Nat \X Nat /\ <<y, x>>[1] = y /\ <<y, x>>[2] = x
    BY <2>1
  <2>3. ~(y < x)
    BY <1>2, <2>2, Zenon
  <2>. QED
    BY <2>1, <2>3
<1>. QED
  BY <1>3 DEF Min

\* Pruning leaves a suffix of the table that starts at a live entry, and drops only
\* expired ones.
LEMMA PrunedIsSuffix ==
    ASSUME NEW table \in Seq(Entry), NEW t \in Int
    PROVE  /\ Pruned(table, t) \in Seq(Entry)
           /\ \E k \in 0..Len(table) :
                /\ Len(Pruned(table, t)) = Len(table) - k
                /\ \A i \in 1..(Len(table) - k) : Pruned(table, t)[i] = table[i + k]
                /\ k < Len(table) => t <= table[k + 1].expires
                /\ \A i \in 1..k : t > table[i].expires
<1>0. \A i \in 1..Len(table) : table[i].expires \in Nat
  <2>1. \A i \in 1..Len(table) : table[i] \in Entry
    OBVIOUS
  <2>. QED
    BY <2>1 DEF Entry
<1>1. Live(table, t) \subseteq Nat /\ Live(table, t) \subseteq 1..Len(table)
  BY DEF Live
<1>2. CASE Live(table, t) = {}
  <2>1. Pruned(table, t) = <<>>
    BY <1>2 DEF Pruned
  <2>2. \A i \in 1..Len(table) : t > table[i].expires
    BY <1>0, <1>2 DEF Live
  <2>. QED
    BY <2>1, <2>2
<1>3. CASE Live(table, t) # {}
  <2>. DEFINE m == Min(Live(table, t))
  <2>1. m \in Live(table, t)
    BY <1>1, <1>3, MinProperties
  <2>2. m \in 1..Len(table) /\ t <= table[m].expires
    BY <2>1 DEF Live
  <2>3. Pruned(table, t) = SubSeq(table, m, Len(table))
    BY <1>3 DEF Pruned
  <2>7. \A i \in 1..(m - 1) : t > table[i].expires
    <3>. SUFFICES ASSUME NEW i \in 1..(m - 1) PROVE t > table[i].expires
      OBVIOUS
    <3>1. i \in 1..Len(table) /\ ~(m <= i)
      BY <2>2
    <3>2. i \notin Live(table, t)
      BY <1>1, <1>3, <3>1, MinProperties
    <3>. QED
      BY <1>0, <3>1, <3>2 DEF Live
  <2>. HIDE DEF m
  <2>4. /\ SubSeq(table, m, Len(table)) \in Seq(Entry)
        /\ Len(SubSeq(table, m, Len(table))) = Len(table) - (m - 1)
        /\ \A i \in 1..(Len(table) - (m - 1)) :
               SubSeq(table, m, Len(table))[i] = table[i + (m - 1)]
    BY <2>2
  <2>5. m - 1 \in 0..Len(table) /\ (m - 1) + 1 = m
    BY <2>2
  <2>6. \E k \in 0..Len(table) :
            /\ Len(Pruned(table, t)) = Len(table) - k
            /\ \A i \in 1..(Len(table) - k) : Pruned(table, t)[i] = table[i + k]
            /\ k < Len(table) => t <= table[k + 1].expires
            /\ \A i \in 1..k : t > table[i].expires
    <3>. USE <2>5
    <3>. WITNESS m - 1 \in 0..Len(table)
    <3>. QED
      BY <2>2, <2>3, <2>4, <2>5, <2>7
  <2>. QED
    BY <2>3, <2>4, <2>6
<1>. QED
  BY <1>2, <1>3

\* Removing one entry shifts the later ones by one and keeps the earlier ones.
LEMMA RemoveAtProperties ==
    ASSUME NEW table \in Seq(Entry), NEW k \in 1..Len(table)
    PROVE  /\ RemoveAt(table, k) \in Seq(Entry)
           /\ Len(RemoveAt(table, k)) = Len(table) - 1
           /\ \A i \in 1..(Len(table) - 1) :
                RemoveAt(table, k)[i] = IF i < k THEN table[i] ELSE table[i + 1]
<1>. DEFINE a == SubSeq(table, 1, k - 1)
            b == SubSeq(table, k + 1, Len(table))
<1>1. a \in Seq(Entry) /\ Len(a) = k - 1 /\ \A i \in 1..(k - 1) : a[i] = table[i]
  OBVIOUS
<1>2. /\ b \in Seq(Entry)
      /\ Len(b) = Len(table) - k
      /\ \A i \in 1..(Len(table) - k) : b[i] = table[i + k]
  OBVIOUS
<1>3. RemoveAt(table, k) = a \o b
  BY DEF RemoveAt
<1>. HIDE DEF a, b
<1>4. /\ a \o b \in Seq(Entry)
      /\ Len(a \o b) = Len(a) + Len(b)
      /\ \A i \in 1..(Len(a) + Len(b)) :
             (a \o b)[i] = IF i <= Len(a) THEN a[i] ELSE b[i - Len(a)]
  BY <1>1, <1>2, ConcatProperties, Zenon
<1>5. ASSUME NEW i \in 1..(Len(table) - 1)
      PROVE  (a \o b)[i] = IF i < k THEN table[i] ELSE table[i + 1]
  <2>1. CASE i < k
    BY <1>1, <1>2, <1>4, <2>1
  <2>2. CASE ~(i < k)
    <3>1. i - (k - 1) \in 1..(Len(table) - k) /\ (i - (k - 1)) + k = i + 1
      BY <2>2
    <3>2. (a \o b)[i] = b[i - (k - 1)]
      BY <1>1, <1>2, <1>4, <2>2
    <3>. QED
      BY <1>2, <2>2, <3>1, <3>2
  <2>. QED
    BY <2>1, <2>2
<1>6. Len(a \o b) = Len(table) - 1
  BY <1>1, <1>2, <1>4
<1>. QED
  BY <1>3, <1>4, <1>5, <1>6, Zenon

-----------------------------------------------------------------------------
(* Type correctness.                                                       *)

\* Every call leaves the tables well formed.
THEOREM TypeCorrect == Spec => []TypeOK
<1>. USE TTLAssumption, TimeAssumption
<1>1. Init => TypeOK
  BY DEF Init, TypeOK, Verdicts, Entry
<1>2. TypeOK /\ [Next]_vars => TypeOK'
  <2>. SUFFICES ASSUME TypeOK, [Next]_vars PROVE TypeOK'
    OBVIOUS
  <2>. USE DEF TypeOK
  <2>1. ASSUME NEW n \in Nonces, Issue(n) PROVE TypeOK'
    <3>0. now \in Int /\ issued \in Seq(Entry) /\ consumed \in Seq(Entry)
      OBVIOUS
    <3>1. Pruned(issued, now) \in Seq(Entry) /\ Pruned(consumed, now) \in Seq(Entry)
      BY <3>0, PrunedIsSuffix, Zenon
    <3>2. [nonce |-> n, expires |-> now + TTL] \in Entry
      BY DEF Entry
    <3>. QED
      BY <2>1, <3>1, <3>2, AppendProperties DEF Issue, Verdicts
  <2>2. ASSUME NEW n \in Nonces, Consume(n) PROVE TypeOK'
    <3>1. CASE ConsumeReplay(n)
      BY <3>1 DEF ConsumeReplay, Verdicts
    <3>2. CASE ConsumeUnknown(n)
      BY <3>2 DEF ConsumeUnknown, Verdicts
    <3>3. CASE ConsumeTake(n)
      <4>1. PICK i \in DOMAIN issued : issued[i].nonce = n /\ Take(n, i)
        BY <3>3 DEF ConsumeTake
      <4>2. i \in 1..Len(issued) /\ issued[i] \in Entry
        OBVIOUS
      <4>3. RemoveAt(issued, i) \in Seq(Entry) /\ Append(consumed, issued[i]) \in Seq(Entry)
        BY <4>2, RemoveAtProperties
      <4>. QED
        BY <4>1, <4>3 DEF Take, Verdicts
    <3>. QED
      BY <2>2, <3>1, <3>2, <3>3 DEF Consume
  <2>3. CASE ClockMoves
    BY <2>3 DEF ClockMoves
  <2>4. CASE UNCHANGED vars
    BY <2>4 DEF vars
  <2>. QED
    BY <2>1, <2>2, <2>3, <2>4 DEF Next
<1>. QED
  BY <1>1, <1>2, PTL DEF Spec

-----------------------------------------------------------------------------
(* Single use, whatever the clock does.                                    *)

LEMMA SingleUseHolds == Spec => []SingleUseInv
<1>. USE DEF SingleUse
<1>1. Init => SingleUseInv
  BY DEF Init, SingleUseInv
<1>2. TypeOK /\ SingleUseInv /\ [Next]_vars => SingleUseInv'
  <2>. SUFFICES ASSUME TypeOK, SingleUseInv, [Next]_vars PROVE SingleUseInv'
    OBVIOUS
  <2>1. ASSUME NEW n \in Nonces, Issue(n) PROVE SingleUseInv'
    <3>. DEFINE kept == Pruned(issued, now)
                new == [nonce |-> n, expires |-> now + TTL]
    <3>1. issued' = Append(kept, new) /\ n \notin minted
          /\ minted' = minted \cup {n} /\ takes' = takes
      BY <2>1 DEF Issue
    <3>2. new \in Entry /\ new.nonce = n
      BY TTLAssumption DEF TypeOK, Entry
    <3>3. kept \in Seq(Entry)
      BY PrunedIsSuffix DEF TypeOK
    <3>4. PICK k \in 0..Len(issued) :
            /\ Len(kept) = Len(issued) - k
            /\ \A i \in 1..(Len(issued) - k) : kept[i] = issued[i + k]
            /\ k < Len(issued) => now <= issued[k + 1].expires
      <4>1. issued \in Seq(Entry) /\ now \in Int
        BY DEF TypeOK
      <4>. QED
        BY <4>1, PrunedIsSuffix, Zenon
    <3>. HIDE DEF kept, new
    <3>5. /\ DOMAIN issued' = 1..(Len(kept) + 1)
          /\ \A i \in 1..Len(kept) : issued'[i] = kept[i]
          /\ issued'[Len(kept) + 1] = new
      BY <3>1, <3>2, <3>3
    <3>6. \A i \in 1..Len(kept) : i + k \in DOMAIN issued /\ issued'[i] = issued[i + k]
      BY <3>3, <3>4, <3>5 DEF TypeOK
    <3>7. \A i \in DOMAIN issued' :
            issued'[i].nonce \in minted' /\ takes'[issued'[i].nonce] = 0
      BY <3>1, <3>2, <3>3, <3>5, <3>6 DEF SingleUseInv, TypeOK
    <3>8. \A i, j \in DOMAIN issued' : issued'[i].nonce = issued'[j].nonce => i = j
      <4>. SUFFICES ASSUME NEW i \in DOMAIN issued', NEW j \in DOMAIN issued',
                           issued'[i].nonce = issued'[j].nonce
                    PROVE  i = j
        OBVIOUS
      <4>1. CASE i \in 1..Len(kept) /\ j \in 1..Len(kept)
        <5>1. i + k = j + k
          BY <3>6, <4>1 DEF SingleUseInv
        <5>. QED
          BY <4>1, <5>1
      <4>2. CASE i = Len(kept) + 1 \/ j = Len(kept) + 1
        BY <3>1, <3>2, <3>3, <3>5, <3>6, <4>2 DEF SingleUseInv
      <4>. QED
        BY <3>3, <3>5, <4>1, <4>2
    <3>9. \A m \in Nonces \ minted' : takes'[m] = 0
      BY <3>1 DEF SingleUseInv
    <3>. QED
      BY <3>1, <3>7, <3>8, <3>9 DEF SingleUseInv
  <2>2. ASSUME NEW n \in Nonces, ConsumeTake(n) PROVE SingleUseInv'
    <3>1. PICK k \in DOMAIN issued : issued[k].nonce = n /\ Take(n, k)
      BY <2>2 DEF ConsumeTake
    <3>2. k \in 1..Len(issued) /\ issued' = RemoveAt(issued, k) /\ minted' = minted
          /\ takes' = [takes EXCEPT ![n] = @ + 1]
      BY <3>1 DEF Take, TypeOK
    <3>3. /\ DOMAIN issued' = 1..(Len(issued) - 1)
          /\ \A i \in 1..(Len(issued) - 1) :
               issued'[i] = IF i < k THEN issued[i] ELSE issued[i + 1]
      <4>1. issued \in Seq(Entry)
        BY DEF TypeOK
      <4>2. /\ issued' \in Seq(Entry)
            /\ Len(issued') = Len(issued) - 1
            /\ \A i \in 1..(Len(issued) - 1) :
                 issued'[i] = IF i < k THEN issued[i] ELSE issued[i + 1]
        BY <3>2, <4>1, RemoveAtProperties, Zenon
      <4>. QED
        BY <4>2
    <3>4. takes[n] = 0 /\ n \in minted
      BY <3>1 DEF SingleUseInv
    <3>. DEFINE old(i) == IF i < k THEN i ELSE i + 1
    <3>5. \A i \in DOMAIN issued' :
            old(i) \in DOMAIN issued /\ old(i) # k /\ issued'[i] = issued[old(i)]
      <4>. SUFFICES ASSUME NEW i \in DOMAIN issued'
                    PROVE  old(i) \in DOMAIN issued /\ old(i) # k /\ issued'[i] = issued[old(i)]
        OBVIOUS
      <4>1. i \in 1..(Len(issued) - 1) /\ DOMAIN issued = 1..Len(issued) /\ Len(issued) \in Nat
        BY <3>3 DEF TypeOK
      <4>2. CASE i < k
        BY <3>2, <3>3, <4>1, <4>2
      <4>3. CASE ~(i < k)
        BY <3>2, <3>3, <4>1, <4>3
      <4>. QED
        BY <4>2, <4>3
    <3>6. \A i, j \in DOMAIN issued' : old(i) = old(j) => i = j
      BY <3>3
    <3>. HIDE DEF old
    <3>7. \A i \in DOMAIN issued' : issued'[i].nonce # n
      BY <3>1, <3>5 DEF SingleUseInv
    <3>8. \A i \in DOMAIN issued' :
            issued'[i].nonce \in minted' /\ takes'[issued'[i].nonce] = 0
      BY <3>2, <3>5, <3>7 DEF SingleUseInv, TypeOK
    <3>9. \A i, j \in DOMAIN issued' : issued'[i].nonce = issued'[j].nonce => i = j
      BY <3>5, <3>6 DEF SingleUseInv
    <3>10. (\A m \in Nonces \ minted' : takes'[m] = 0) /\ \A m \in Nonces : takes'[m] <= 1
      BY <3>2, <3>4 DEF SingleUseInv, TypeOK
    <3>. QED
      BY <3>8, <3>9, <3>10 DEF SingleUseInv
  <2>3. ASSUME NEW n \in Nonces, ConsumeReplay(n) \/ ConsumeUnknown(n) PROVE SingleUseInv'
    BY <2>3 DEF ConsumeReplay, ConsumeUnknown, SingleUseInv
  <2>4. CASE ClockMoves
    BY <2>4 DEF ClockMoves, SingleUseInv
  <2>5. CASE UNCHANGED vars
    BY <2>5 DEF vars, SingleUseInv
  <2>. QED
    BY <2>1, <2>2, <2>3, <2>4, <2>5 DEF Next, Consume
<1>. QED
  BY <1>1, <1>2, TypeCorrect, PTL DEF Spec

\* consume() lets no nonce through twice, for every clock and every history of
\* pruning: the argument rests on pop() alone, not on the _consumed table.
THEOREM NoncesAreSingleUse == Spec => []SingleUse
<1>1. SingleUseInv => SingleUse
  BY DEF SingleUseInv
<1>. QED
  BY <1>1, SingleUseHolds, PTL

-----------------------------------------------------------------------------
(* Retention, until the clock steps back.                                  *)

\* issue() prunes each table up to a live entry; what follows that entry is no
\* older, and the new challenge is the last to expire.
LEMMA IssueKeepsOrder ==
    ASSUME TypeOK, IssuedInOrder, ConsumedInOrder, NEW n \in Nonces, Issue(n)
    PROVE  IssuedInOrder' /\ ConsumedInOrder'
<1>. DEFINE keptI == Pruned(issued, now)
            keptC == Pruned(consumed, now)
            new   == [nonce |-> n, expires |-> now + TTL]
<1>. USE TTLAssumption, TimeAssumption
<1>1. /\ issued' = Append(keptI, new) /\ consumed' = keptC
      /\ prunedAt' = now /\ now' = now /\ usedAt' = usedAt
  BY DEF Issue
<1>2. /\ now \in Nat /\ now \in Int /\ issued \in Seq(Entry) /\ consumed \in Seq(Entry)
      /\ usedAt \in [Nonces -> Nat]
  BY DEF TypeOK
<1>3. new \in Entry /\ new.expires = now + TTL
  BY <1>2 DEF Entry
<1>4. keptI \in Seq(Entry) /\ keptC \in Seq(Entry)
  BY <1>2, PrunedIsSuffix, Zenon
<1>5. PICK k \in 0..Len(issued) :
        /\ Len(keptI) = Len(issued) - k
        /\ \A i \in 1..(Len(issued) - k) : keptI[i] = issued[i + k]
        /\ k < Len(issued) => now <= issued[k + 1].expires
  BY <1>2, PrunedIsSuffix, Zenon
<1>6. PICK c \in 0..Len(consumed) :
        /\ Len(keptC) = Len(consumed) - c
        /\ \A i \in 1..(Len(consumed) - c) : keptC[i] = consumed[i + c]
        /\ c < Len(consumed) => now <= consumed[c + 1].expires
  BY <1>2, PrunedIsSuffix, Zenon
<1>. HIDE DEF keptI, keptC, new
<1>7. /\ DOMAIN issued' = 1..(Len(keptI) + 1)
      /\ \A i \in 1..Len(keptI) : issued'[i] = keptI[i]
      /\ issued'[Len(keptI) + 1] = new
  BY <1>1, <1>3, <1>4
<1>8. /\ Len(issued) \in Nat /\ Len(consumed) \in Nat
      /\ DOMAIN issued = 1..Len(issued) /\ DOMAIN consumed = 1..Len(consumed)
      /\ \A i \in DOMAIN issued : issued[i] \in Entry
      /\ \A i \in DOMAIN consumed : consumed[i] \in Entry
  BY <1>2
<1>9. \A i \in DOMAIN issued : issued[i].expires \in Nat
  BY <1>8 DEF Entry
<1>10. \A i \in DOMAIN consumed : consumed[i].expires \in Nat /\ Used(i) \in Nat
  BY <1>2, <1>8 DEF Entry, Used
<1>11. \A i \in 1..Len(keptI) :
         /\ i + k \in DOMAIN issued
         /\ issued'[i] = issued[i + k]
         /\ now <= issued'[i].expires /\ issued'[i].expires <= now + TTL
  <2>. SUFFICES ASSUME NEW i \in 1..Len(keptI)
                PROVE  /\ i + k \in DOMAIN issued
                       /\ issued'[i] = issued[i + k]
                       /\ now <= issued'[i].expires /\ issued'[i].expires <= now + TTL
    OBVIOUS
  <2>1. i \in 1..(Len(issued) - k) /\ i + k \in DOMAIN issued /\ k + 1 \in DOMAIN issued
        /\ k < Len(issued) /\ k + 1 <= i + k
    BY <1>5, <1>8
  <2>2. issued'[i] = issued[i + k]
    BY <1>5, <1>7, <2>1
  <2>3. issued[k + 1].expires <= issued[i + k].expires /\ issued[i + k].expires <= now + TTL
    BY <2>1 DEF IssuedInOrder
  <2>4. now <= issued[k + 1].expires
    BY <1>5, <2>1
  <2>5. issued[k + 1].expires \in Nat /\ issued[i + k].expires \in Nat
    BY <1>9, <2>1
  <2>6. now <= issued[i + k].expires
    <3>1. now \in Nat
      BY <1>2
    <3>2. issued[k + 1].expires <= issued[i + k].expires
      BY <2>3
    <3>. HIDE TTLAssumption, TimeAssumption
    <3>. QED
      BY <2>4, <2>5, <3>1, <3>2
  <2>. QED
    BY <2>1, <2>2, <2>3, <2>6
<1>12. \A i \in DOMAIN consumed' :
         /\ i + c \in DOMAIN consumed
         /\ consumed'[i] = consumed[i + c] /\ Used(i)' = Used(i + c)
         /\ Used(i + c) <= now
         /\ consumed[i + c].expires <= Used(i + c) + TTL
         /\ now <= Used(i + c) + TTL
  <2>. SUFFICES ASSUME NEW i \in DOMAIN consumed'
                PROVE  /\ i + c \in DOMAIN consumed
                       /\ consumed'[i] = consumed[i + c] /\ Used(i)' = Used(i + c)
                       /\ Used(i + c) <= now
                       /\ consumed[i + c].expires <= Used(i + c) + TTL
                       /\ now <= Used(i + c) + TTL
    OBVIOUS
  <2>1. i \in 1..(Len(consumed) - c)
    BY <1>1, <1>4, <1>6
  <2>2. i + c \in DOMAIN consumed /\ c + 1 \in DOMAIN consumed
        /\ c < Len(consumed) /\ c + 1 <= i + c
    BY <1>8, <2>1
  <2>3. consumed'[i] = consumed[i + c]
    BY <1>1, <1>6, <2>1
  <2>4. Used(i)' = Used(i + c)
    BY <1>1, <2>3 DEF Used
  <2>5. /\ Used(c + 1) <= Used(i + c)
        /\ consumed[c + 1].expires <= Used(c + 1) + TTL
        /\ Used(i + c) <= now
        /\ consumed[i + c].expires <= Used(i + c) + TTL
    BY <2>2 DEF ConsumedInOrder
  <2>6. now <= consumed[c + 1].expires
    BY <1>6, <2>2
  <2>7. now <= Used(i + c) + TTL
    <3>1. Used(i + c) \in Int /\ Used(c + 1) \in Int /\ consumed[c + 1].expires \in Int
      BY <1>2, <1>10, <2>2
    <3>. HIDE DEF Used
    <3>. QED
      BY <1>2, <2>5, <2>6, <3>1
  <2>. QED
    BY <2>2, <2>3, <2>4, <2>5, <2>7
<1>13. IssuedInOrder'
  <2>1. \A i \in DOMAIN issued' :
          prunedAt' <= issued'[i].expires /\ issued'[i].expires <= now' + TTL
    <3>. SUFFICES ASSUME NEW i \in DOMAIN issued'
                  PROVE  prunedAt' <= issued'[i].expires /\ issued'[i].expires <= now' + TTL
      OBVIOUS
    <3>1. CASE i \in 1 .. Len(keptI)
      BY <1>1, <1>2, <1>11, <3>1
    <3>2. CASE i \notin 1 .. Len(keptI)
      BY <1>1, <1>2, <1>3, <1>4, <1>7, <3>2
    <3>. QED
      BY <3>1, <3>2
  <2>2. \A i, j \in DOMAIN issued' : i <= j => issued'[i].expires <= issued'[j].expires
    <3>. SUFFICES ASSUME NEW i \in DOMAIN issued', NEW j \in DOMAIN issued', i <= j
                  PROVE  issued'[i].expires <= issued'[j].expires
      OBVIOUS
    <3>1. CASE j \in 1..Len(keptI)
      <4>1. i \in 1..Len(keptI) /\ i + k <= j + k
        BY <1>4, <1>5, <1>7, <3>1
      <4>. QED
        BY <1>11, <3>1, <4>1 DEF IssuedInOrder
    <3>2. CASE j = Len(keptI) + 1
      BY <1>1, <1>3, <1>7, <2>1, <3>2
    <3>. QED
      BY <1>4, <1>7, <3>1, <3>2
  <2>3. prunedAt' <= now'
    <3>1. now <= now
      BY <1>2
    <3>. QED
      BY <1>1, <3>1, Zenon
  <2>. QED
    BY <2>1, <2>2, <2>3, Zenon DEF IssuedInOrder
<1>14. ConsumedInOrder'
  <2>1. \A i \in DOMAIN consumed' :
          /\ Used(i)' <= now' /\ consumed'[i].expires <= Used(i)' + TTL
          /\ prunedAt' <= Used(i)' + TTL
    BY <1>1, <1>12
  <2>2. ASSUME NEW i \in DOMAIN consumed', NEW j \in DOMAIN consumed', i <= j
        PROVE  Used(i)' <= Used(j)'
    <3>1. i + c <= j + c
      BY <1>1, <1>4, <2>2
    <3>. QED
      BY <1>12, <3>1 DEF ConsumedInOrder
  <2>. QED
    BY <2>1, <2>2 DEF ConsumedInOrder
<1>. QED
  BY <1>13, <1>14

\* consume() takes an entry out of the middle of _issued, which stays in order,
\* and puts it at the end of _consumed, where it is the latest one used.
LEMMA TakeKeepsOrder ==
    ASSUME TypeOK, IssuedInOrder, ConsumedInOrder,
           NEW n \in Nonces, ConsumeTake(n)
    PROVE  IssuedInOrder' /\ ConsumedInOrder'
<1>. USE TTLAssumption, TimeAssumption
<1>1. PICK k \in DOMAIN issued : issued[k].nonce = n /\ Take(n, k)
  BY DEF ConsumeTake
<1>2. /\ issued' = RemoveAt(issued, k) /\ consumed' = Append(consumed, issued[k])
      /\ usedAt' = [usedAt EXCEPT ![n] = now] /\ now' = now /\ prunedAt' = prunedAt
  BY <1>1 DEF Take
<1>3. /\ now \in Nat /\ prunedAt \in Nat
      /\ issued \in Seq(Entry) /\ consumed \in Seq(Entry) /\ usedAt \in [Nonces -> Nat]
  BY DEF TypeOK
<1>4. /\ k \in 1..Len(issued) /\ Len(issued) \in Nat /\ Len(consumed) \in Nat
      /\ DOMAIN issued = 1..Len(issued) /\ DOMAIN consumed = 1..Len(consumed)
      /\ issued[k] \in Entry
      /\ \A i \in DOMAIN consumed : consumed[i] \in Entry
  BY <1>3
<1>5. /\ issued' \in Seq(Entry)
      /\ Len(issued') = Len(issued) - 1
      /\ \A i \in 1..(Len(issued) - 1) :
           issued'[i] = IF i < k THEN issued[i] ELSE issued[i + 1]
  BY <1>2, <1>3, <1>4, RemoveAtProperties, Zenon
<1>6. IssuedInOrder'
  <2>. DEFINE old(i) == IF i < k THEN i ELSE i + 1
  <2>1. ASSUME NEW i \in DOMAIN issued'
        PROVE  i \in 1..(Len(issued) - 1) /\ old(i) \in DOMAIN issued
               /\ issued'[i] = issued[old(i)]
    <3>1. i \in 1..(Len(issued) - 1)
      BY <1>5
    <3>2. CASE i < k
      BY <1>4, <1>5, <3>1, <3>2
    <3>3. CASE ~(i < k)
      BY <1>4, <1>5, <3>1, <3>3
    <3>. QED
      BY <3>1, <3>2, <3>3
  <2>2. \A i, j \in 1..(Len(issued) - 1) : i <= j => old(i) <= old(j)
    BY <1>4
  <2>. HIDE DEF old
  <2>3. \A i, j \in DOMAIN issued' : i <= j => issued'[i].expires <= issued'[j].expires
    BY <2>1, <2>2 DEF IssuedInOrder
  <2>4. \A i \in DOMAIN issued' :
          prunedAt <= issued'[i].expires /\ issued'[i].expires <= now + TTL
    BY <2>1 DEF IssuedInOrder
  <2>. QED
    BY <1>2, <2>3, <2>4 DEF IssuedInOrder
<1>7. ConsumedInOrder'
  <2>0. PICK m \in Nat : m = Len(consumed) + 1
    BY <1>4
  <2>1. /\ DOMAIN consumed' = 1..m
        /\ \A i \in DOMAIN consumed : consumed'[i] = consumed[i]
        /\ consumed'[m] = issued[k]
    BY <1>2, <1>3, <1>4, <2>0
  <2>2. \A i \in DOMAIN consumed : Used(i)' = Used(i)
    <3>1. \A i \in DOMAIN consumed : consumed[i].nonce # n /\ consumed[i].nonce \in Nonces
      BY <1>4 DEF ConsumeTake, Holds, Entry
    <3>. QED
      BY <1>2, <1>3, <2>1, <3>1 DEF Used
  <2>3. Used(m)' = now
    BY <1>1, <1>2, <1>3, <2>1 DEF Used
  <2>4. issued[k].expires \in Nat /\ \A i \in DOMAIN consumed : Used(i) \in Nat
    BY <1>3, <1>4 DEF Entry, Used
  <2>5. prunedAt <= now /\ issued[k].expires <= now + TTL
    BY <1>1 DEF IssuedInOrder
  <2>6. \A i \in 1..m : i \in DOMAIN consumed \/ i = m
    BY <1>4, <2>0
  <2>7. ASSUME NEW i \in DOMAIN consumed'
        PROVE  /\ Used(i)' <= now /\ consumed'[i].expires <= Used(i)' + TTL
               /\ prunedAt <= Used(i)' + TTL
    <3>1. CASE i \in DOMAIN consumed
      BY <2>1, <2>2, <3>1 DEF ConsumedInOrder
    <3>2. CASE i = m
      BY <1>3, <2>1, <2>3, <2>5, <3>2
    <3>. QED
      BY <2>1, <2>6, <3>1, <3>2
  <2>8. ASSUME NEW i \in DOMAIN consumed', NEW j \in DOMAIN consumed', i <= j
        PROVE  Used(i)' <= Used(j)'
    <3>1. CASE j = m
      BY <2>3, <2>7, <3>1
    <3>2. CASE j # m
      <4>1. i \in DOMAIN consumed /\ j \in DOMAIN consumed
        BY <1>4, <2>0, <2>1, <2>8, <3>2
      <4>. QED
        BY <2>2, <2>8, <4>1 DEF ConsumedInOrder
    <3>. QED
      BY <3>1, <3>2
  <2>. QED
    BY <1>2, <2>7, <2>8 DEF ConsumedInOrder
<1>. QED
  BY <1>6, <1>7

\* Until the clock steps back both tables stay in order.
LEMMA RetentionHolds == Spec => []RetentionInv
<1>1. Init => RetentionInv
  BY TTLAssumption DEF Init, RetentionInv, IssuedInOrder, ConsumedInOrder
<1>2. TypeOK /\ RetentionInv /\ [Next]_vars => RetentionInv'
  <2>. SUFFICES ASSUME TypeOK, RetentionInv, [Next]_vars, steady'
                PROVE  IssuedInOrder' /\ ConsumedInOrder'
    BY DEF RetentionInv
  <2>1. ASSUME NEW n \in Nonces, Issue(n) PROVE IssuedInOrder' /\ ConsumedInOrder'
    <3>1. IssuedInOrder /\ ConsumedInOrder
      BY <2>1 DEF RetentionInv, Issue
    <3>. QED
      BY <2>1, <3>1, IssueKeepsOrder
  <2>2. ASSUME NEW n \in Nonces, ConsumeTake(n) PROVE IssuedInOrder' /\ ConsumedInOrder'
    <3>1. steady' = steady
      BY <2>2 DEF ConsumeTake, Take
    <3>2. IssuedInOrder /\ ConsumedInOrder
      BY <3>1 DEF RetentionInv
    <3>. QED
      BY <2>2, <3>2, TakeKeepsOrder
  <2>3. ASSUME NEW n \in Nonces, ConsumeReplay(n) \/ ConsumeUnknown(n)
        PROVE  IssuedInOrder' /\ ConsumedInOrder'
    BY <2>3 DEF ConsumeReplay, ConsumeUnknown, RetentionInv, IssuedInOrder,
                ConsumedInOrder, Used
  <2>4. CASE ClockMoves
    <3>0. PICK t \in 0..MaxTime : now' = t /\ steady' = (steady /\ t > now)
      BY <2>4 DEF ClockMoves
    <3>1. steady /\ now < now' /\ now \in Nat /\ now' \in Nat
      <4>1. steady /\ t > now
        BY <3>0, Zenon
      <4>2. now \in Nat /\ t \in Nat
        BY TimeAssumption DEF TypeOK
      <4>. QED
        BY <3>0, <4>1, <4>2
    <3>2. IssuedInOrder /\ ConsumedInOrder
      BY <3>1 DEF RetentionInv
    <3>3. /\ issued' = issued /\ consumed' = consumed
          /\ usedAt' = usedAt /\ prunedAt' = prunedAt
      BY <2>4 DEF ClockMoves
    <3>4. /\ prunedAt \in Nat
          /\ \A i \in DOMAIN issued : issued[i].expires \in Nat
          /\ \A i \in DOMAIN consumed : Used(i) \in Nat
      <4>1. /\ prunedAt \in Nat /\ usedAt \in [Nonces -> Nat]
            /\ issued \in Seq(Entry) /\ consumed \in Seq(Entry)
        BY TimeAssumption DEF TypeOK
      <4>2. /\ \A i \in DOMAIN issued : issued[i] \in Entry
            /\ \A i \in DOMAIN consumed : consumed[i] \in Entry
        BY <4>1
      <4>. QED
        BY <4>1, <4>2 DEF Entry, Used
    <3>5. IssuedInOrder'
      BY <3>1, <3>2, <3>3, <3>4, TTLAssumption DEF IssuedInOrder
    <3>6. ConsumedInOrder'
      BY <3>1, <3>2, <3>3, <3>4, TTLAssumption DEF ConsumedInOrder, Used
    <3>. QED
      BY <3>5, <3>6
  <2>5. CASE UNCHANGED vars
    BY <2>5 DEF vars, RetentionInv, IssuedInOrder, ConsumedInOrder, Used
  <2>. QED
    BY <2>1, <2>2, <2>3, <2>4, <2>5 DEF Next, Consume
<1>. QED
  BY <1>1, <1>2, TypeCorrect, PTL DEF Spec

\* issue() leaves no expired challenge in _issued, for every TTL and every history
\* of a clock that has not stepped back.
THEOREM ExpiredChallengesGo == Spec => []IssuedDropped
<1>1. RetentionInv => IssuedDropped
  BY DEF RetentionInv, IssuedInOrder, IssuedDropped
<1>. QED
  BY <1>1, RetentionHolds, PTL

\* issue() leaves a used nonce in _consumed for at most a TTL after its use, although
\* _consumed is not in order of expiry.
THEOREM UsedNoncesGo == Spec => []RetentionWindow
<1>1. RetentionInv => RetentionWindow
  BY DEF RetentionInv, ConsumedInOrder, Used, RetentionWindow
<1>. QED
  BY <1>1, RetentionHolds, PTL

-----------------------------------------------------------------------------
(* The store implements the gate.                                          *)

\* What is in _consumed was taken, so it is not in _issued any more.
ConsumedTaken == \A i \in DOMAIN consumed : takes[consumed[i].nonce] >= 1

LEMMA ConsumedTakenInductive ==
    ASSUME TypeOK, ConsumedTaken, [Next]_vars
    PROVE  ConsumedTaken'
<1>1. consumed \in Seq(Entry) /\ issued \in Seq(Entry) /\ takes \in [Nonces -> Nat] /\ now \in Int
  BY DEF TypeOK
<1>2. ASSUME NEW n \in Nonces, Issue(n) PROVE ConsumedTaken'
  <2>1. PICK k \in 0..Len(consumed) :
          /\ Len(Pruned(consumed, now)) = Len(consumed) - k
          /\ \A i \in 1..(Len(consumed) - k) : Pruned(consumed, now)[i] = consumed[i + k]
    BY <1>1, PrunedIsSuffix, Zenon
  <2>2. Pruned(consumed, now) \in Seq(Entry)
    BY <1>1, PrunedIsSuffix, Zenon
  <2>3. consumed' = Pruned(consumed, now) /\ takes' = takes
    BY <1>2 DEF Issue
  <2>4. ASSUME NEW i \in DOMAIN consumed'
        PROVE  takes[consumed'[i].nonce] >= 1
    <3>1. i \in 1..(Len(consumed) - k) /\ i + k \in DOMAIN consumed
      BY <1>1, <2>1, <2>2, <2>3
    <3>. QED
      BY <2>1, <2>3, <3>1 DEF ConsumedTaken
  <2>. QED
    BY <2>3, <2>4 DEF ConsumedTaken
<1>3. ASSUME NEW n \in Nonces, ConsumeTake(n) PROVE ConsumedTaken'
  <2>1. PICK k \in DOMAIN issued : issued[k].nonce = n /\ Take(n, k)
    BY <1>3 DEF ConsumeTake
  <2>2. /\ consumed' = Append(consumed, issued[k]) /\ issued[k] \in Entry
        /\ takes' = [takes EXCEPT ![n] = @ + 1]
    BY <1>1, <2>1 DEF Take
  <2>3. \A m \in Nonces : takes'[m] >= takes[m] /\ takes'[n] >= 1
    BY <1>1, <2>2
  <2>4. ASSUME NEW i \in DOMAIN consumed'
        PROVE  takes'[consumed'[i].nonce] >= 1
    <3>1. CASE i \in DOMAIN consumed
      <4>0. consumed'[i] = consumed[i] /\ consumed[i] \in Entry
        BY <1>1, <2>2, <3>1
      <4>1. consumed'[i] = consumed[i] /\ consumed[i].nonce \in Nonces
        BY <4>0 DEF Entry
      <4>2. takes[consumed[i].nonce] >= 1 /\ takes[consumed[i].nonce] \in Nat
        BY <1>1, <3>1, <4>1 DEF ConsumedTaken
      <4>. QED
        BY <1>1, <2>2, <4>1, <4>2
    <3>2. CASE i \notin DOMAIN consumed
      <4>1. consumed'[i] = issued[k]
        BY <1>1, <2>2, <3>2
      <4>. QED
        BY <2>1, <2>3, <4>1
    <3>. QED
      BY <3>1, <3>2
  <2>. QED
    BY <2>4 DEF ConsumedTaken
<1>4. CASE UNCHANGED <<consumed, takes>>
  BY <1>4 DEF ConsumedTaken
<1>. QED
  BY <1>2, <1>3, <1>4 DEF Next, Consume, ConsumeReplay, ConsumeUnknown, ClockMoves, vars

Mapped == TypeOK /\ SingleUseInv /\ ConsumedTaken

Distinct(table) == \A i, j \in DOMAIN table : table[i].nonce = table[j].nonce => i = j

\* The only entry of a nonce says when it expires.
LEMMA ExpiryOfIssued ==
    ASSUME NEW table \in Seq(Entry), Distinct(table), NEW k \in DOMAIN table
    PROVE  ExpiryIn(table, table[k].nonce) = table[k].expires
<1>. DEFINE at == {i \in DOMAIN table : table[i].nonce = table[k].nonce}
<1>1. at = {k} /\ at \subseteq Nat
  BY DEF Distinct
<1>2. ExpiryIn(table, table[k].nonce) = IF at = {} THEN 0 ELSE table[Min(at)].expires
  BY DEF ExpiryIn
<1>. HIDE DEF at
<1>3. Min(at) \in at
  BY <1>1, MinProperties
<1>4. at # {} /\ Min(at) = k
  BY <1>1, <1>3
<1>. QED
  BY <1>2, <1>4

LEMMA ExpiryOfOthers ==
    ASSUME NEW table, NEW n, ~Holds(table, n)
    PROVE  ExpiryIn(table, n) = 0
<1>1. {i \in DOMAIN table : table[i].nonce = n} = {}
  BY DEF Holds
<1>. QED
  BY <1>1 DEF ExpiryIn

LEMMA MappedTables ==
    /\ Mapped => issued \in Seq(Entry) /\ Distinct(issued)
    /\ Mapped' => issued' \in Seq(Entry) /\ Distinct(issued')
BY DEF Mapped, TypeOK, SingleUseInv, Distinct

\* The state of the gate after a step, from the state of each nonce.
LEMMA IssueMaps ==
    ASSUME Mapped, Mapped', NEW n \in Nonces, Issue(n)
    PROVE  Gate!Issue(n) /\ now' = now
<1>. DEFINE S == {m \in Nonces : Holds(issued, m) /\ ~Holds(issued', m)}
            kept == Pruned(issued, now)
            new == [nonce |-> n, expires |-> now + TTL]
<1>1. /\ issued' = Append(kept, new) /\ n \notin minted /\ minted' = minted \cup {n}
      /\ verdict' = "issued" /\ now' = now
  BY DEF Issue
<1>2. issued \in Seq(Entry) /\ now \in Int /\ now \in Nat
  BY DEF Mapped, TypeOK
<1>3. kept \in Seq(Entry) /\ new \in Entry /\ new.nonce = n /\ new.expires = now + TTL
  <2>1. kept \in Seq(Entry)
    BY <1>2, PrunedIsSuffix, Zenon
  <2>. QED
    BY <1>2, <2>1, TTLAssumption DEF Entry
<1>4. PICK k \in 0..Len(issued) :
        /\ Len(kept) = Len(issued) - k
        /\ \A i \in 1..(Len(issued) - k) : kept[i] = issued[i + k]
        /\ \A i \in 1..k : now > issued[i].expires
  BY <1>2, PrunedIsSuffix, Zenon
<1>. HIDE DEF kept, new
<1>5. /\ DOMAIN issued' = 1..(Len(kept) + 1)
      /\ \A i \in 1..Len(kept) : issued'[i] = kept[i]
      /\ issued'[Len(kept) + 1] = new
  BY <1>1, <1>3
<1>6. \A i \in 1..Len(kept) : i + k \in DOMAIN issued /\ issued'[i] = issued[i + k]
  BY <1>2, <1>3, <1>4, <1>5
<1>7. Holds(issued', n) /\ ExpiryIn(issued', n) = now + TTL
  <2>1. Len(kept) + 1 \in DOMAIN issued' /\ issued'[Len(kept) + 1].nonce = n
    BY <1>3, <1>5
  <2>2. ExpiryIn(issued', n) = issued'[Len(kept) + 1].expires
    BY <2>1, ExpiryOfIssued, MappedTables
  <2>. QED
    BY <1>3, <1>5, <2>1, <2>2 DEF Holds
<1>8. ASSUME NEW m \in Nonces, m # n, Holds(issued', m)
      PROVE  Holds(issued, m) /\ ExpiryIn(issued', m) = ExpiryIn(issued, m)
  <2>1. PICK j \in DOMAIN issued' : issued'[j].nonce = m
    BY <1>8 DEF Holds
  <2>2. j \in 1..Len(kept)
    BY <1>3, <1>5, <1>8, <2>1
  <2>3. j + k \in DOMAIN issued /\ issued'[j] = issued[j + k]
    BY <1>6, <2>2
  <2>4. ExpiryIn(issued, m) = issued[j + k].expires
    BY <2>1, <2>3, ExpiryOfIssued, MappedTables
  <2>5. ExpiryIn(issued', m) = issued'[j].expires
    BY <2>1, ExpiryOfIssued, MappedTables
  <2>. QED
    BY <2>1, <2>3, <2>4, <2>5 DEF Holds
<1>9. ASSUME NEW m \in S
      PROVE  now > ExpiryIn(issued, m) /\ m # n /\ m \in minted
  <2>1. PICK i \in DOMAIN issued : issued[i].nonce = m
    BY DEF Holds
  <2>2. i \in 1..k
    <3>1. CASE i > k
      <4>1. i - k \in 1..Len(kept) /\ (i - k) + k = i /\ i - k \in DOMAIN issued'
        BY <1>2, <1>3, <1>4, <1>5, <3>1
      <4>2. issued'[i - k].nonce = m
        BY <1>6, <2>1, <4>1
      <4>. QED
        BY <4>1, <4>2 DEF Holds
    <3>2. CASE ~(i > k)
      BY <1>2, <3>2
    <3>. QED
      BY <3>1, <3>2
  <2>3. ExpiryIn(issued, m) = issued[i].expires
    BY <2>1, ExpiryOfIssued, MappedTables
  <2>4. m \in minted
    BY <2>1 DEF Mapped, SingleUseInv
  <2>. QED
    BY <1>1, <1>4, <2>2, <2>3, <2>4
<1>10. ~Holds(issued, n) /\ n \notin minted
  BY <1>1 DEF Holds, Mapped, SingleUseInv
<1>11. \A m \in Nonces : Standing(m)' = IF m = n THEN "open"
                                        ELSE IF m \in S THEN "spent" ELSE Standing(m)
  <2>. SUFFICES ASSUME NEW m \in Nonces
                PROVE  Standing(m)' = IF m = n THEN "open"
                                      ELSE IF m \in S THEN "spent" ELSE Standing(m)
    OBVIOUS
  <2>1. CASE m = n
    BY <1>7, <2>1 DEF Standing
  <2>2. CASE m # n /\ m \in S
    BY <1>1, <1>9, <2>2 DEF Standing
  <2>3. CASE m # n /\ m \notin S
    BY <1>1, <1>8, <2>3 DEF Standing
  <2>. QED
    BY <2>1, <2>2, <2>3
<1>12. \A m \in Nonces : ExpiryIn(issued', m) = IF m = n THEN now + TTL
                                      ELSE IF m \in S THEN 0 ELSE ExpiryIn(issued, m)
  <2>. SUFFICES ASSUME NEW m \in Nonces
                PROVE  ExpiryIn(issued', m) = IF m = n THEN now + TTL
                                    ELSE IF m \in S THEN 0 ELSE ExpiryIn(issued, m)
    OBVIOUS
  <2>1. CASE m = n
    BY <1>7, <2>1
  <2>2. CASE m # n /\ Holds(issued', m)
    BY <1>8, <2>2
  <2>3. CASE m # n /\ ~Holds(issued', m)
    <3>1. ExpiryIn(issued', m) = 0
      BY <2>3, ExpiryOfOthers
    <3>2. ~Holds(issued, m) => ExpiryIn(issued, m) = 0
      BY ExpiryOfOthers
    <3>. QED
      BY <2>3, <3>1, <3>2
  <2>. QED
    BY <2>1, <2>2, <2>3
<1>13. \A m \in S : Gate!Expired(m)
  <2>. SUFFICES ASSUME NEW m \in S PROVE Gate!Expired(m)
    OBVIOUS
  <2>1. now + 0 = now /\ now > ExpiryIn(issued, m) /\ Holds(issued, m)
    BY <1>2, <1>9
  <2>. QED
    BY <2>1 DEF Gate!Expired, Gate!Clock, Standing
<1>14. Gate!Clock = now
  BY <1>2 DEF Gate!Clock
<1>15. S \in SUBSET {m \in Nonces : Gate!Expired(m)}
  BY <1>13
<1>. HIDE DEF S
<1>. DEFINE G == [m \in Nonces |-> Standing(m)]
            E == [m \in Nonces |-> ExpiryIn(issued, m)]
<1>16. /\ G' = [m \in Nonces |-> IF m = n THEN "open" ELSE IF m \in S THEN "spent" ELSE G[m]]
       /\ E' = [m \in Nonces |-> IF m = n THEN Gate!Clock + TTL
                                 ELSE IF m \in S THEN 0 ELSE E[m]]
  BY <1>11, <1>12, <1>14
<1>17. G[n] = "unissued"
  BY <1>10 DEF Standing
<1>. QED
  BY <1>1, <1>15, <1>16, <1>17 DEF Gate!Issue

\* A presentation that finds its nonce in _issued opens the gate for it, or burns it.
LEMMA TakeMaps ==
    ASSUME Mapped, Mapped', NEW n \in Nonces, ConsumeTake(n)
    PROVE  Gate!Use(n) /\ now' = now
<1>1. PICK k \in DOMAIN issued : issued[k].nonce = n /\ Take(n, k)
  BY DEF ConsumeTake
<1>2. /\ issued' = RemoveAt(issued, k) /\ minted' = minted /\ now' = now
      /\ verdict' = IF now > issued[k].expires THEN "expired" ELSE "ok"
  BY <1>1 DEF Take
<1>3. issued \in Seq(Entry) /\ issued' \in Seq(Entry) /\ Distinct(issued) /\ Distinct(issued')
  BY MappedTables
<1>4. now \in Nat /\ k \in 1..Len(issued) /\ Len(issued) \in Nat
  BY <1>3 DEF Mapped, TypeOK
<1>5. /\ Len(issued') = Len(issued) - 1
      /\ \A i \in 1..(Len(issued) - 1) :
           issued'[i] = IF i < k THEN issued[i] ELSE issued[i + 1]
  BY <1>2, <1>3, <1>4, RemoveAtProperties, Zenon
<1>6. ~Holds(issued', n)
  <2>. SUFFICES ASSUME NEW i \in DOMAIN issued', issued'[i].nonce = n PROVE FALSE
    BY DEF Holds
  <2>1. i \in 1..(Len(issued) - 1)
    BY <1>3, <1>5
  <2>2. CASE i < k
    <3>1. issued[i].nonce = n /\ i \in DOMAIN issued
      BY <1>3, <1>4, <1>5, <2>1, <2>2
    <3>. QED
      BY <1>1, <1>3, <1>4, <2>1, <2>2, <3>1 DEF Distinct
  <2>3. CASE ~(i < k)
    <3>1. issued[i + 1].nonce = n /\ i + 1 \in DOMAIN issued /\ i + 1 # k
      BY <1>3, <1>4, <1>5, <2>1, <2>3
    <3>. QED
      BY <1>1, <1>3, <3>1 DEF Distinct
  <2>. QED
    BY <2>2, <2>3
<1>7. ASSUME NEW m \in Nonces, m # n
      PROVE  /\ Holds(issued', m) <=> Holds(issued, m)
             /\ ExpiryIn(issued', m) = ExpiryIn(issued, m)
  <2>1. ASSUME NEW j \in DOMAIN issued', issued'[j].nonce = m
        PROVE  Holds(issued, m) /\ ExpiryIn(issued, m) = issued'[j].expires
    <3>1. PICK i \in DOMAIN issued : issued'[j] = issued[i]
      <4>1. j \in 1..(Len(issued) - 1)
        BY <1>3, <1>5
      <4>2. CASE j < k
        BY <1>3, <1>4, <1>5, <4>1, <4>2
      <4>3. CASE ~(j < k)
        <5>1. j + 1 \in DOMAIN issued /\ issued'[j] = issued[j + 1]
          BY <1>3, <1>4, <1>5, <4>1, <4>3
        <5>. QED
          BY <5>1
      <4>. QED
        BY <4>2, <4>3
    <3>. QED
      BY <1>3, <2>1, <3>1, ExpiryOfIssued DEF Holds
  <2>2. ASSUME Holds(issued', m) PROVE Holds(issued, m) /\ ExpiryIn(issued', m) = ExpiryIn(issued, m)
    <3>1. PICK j \in DOMAIN issued' : issued'[j].nonce = m
      BY <2>2 DEF Holds
    <3>2. ExpiryIn(issued', m) = issued'[j].expires
      BY <1>3, <3>1, ExpiryOfIssued
    <3>. QED
      BY <2>1, <3>1, <3>2
  <2>3. ASSUME Holds(issued, m) PROVE Holds(issued', m)
    <3>1. PICK i \in DOMAIN issued : issued[i].nonce = m
      BY <2>3 DEF Holds
    <3>2. i # k /\ i \in 1..Len(issued)
      BY <1>1, <1>3, <1>7, <3>1
    <3>3. CASE i < k
      <4>1. i \in DOMAIN issued' /\ issued'[i] = issued[i]
        BY <1>3, <1>4, <1>5, <3>2, <3>3
      <4>. QED
        BY <3>1, <4>1 DEF Holds
    <3>4. CASE ~(i < k)
      <4>1. i - 1 \in DOMAIN issued' /\ issued'[i - 1] = issued[(i - 1) + 1] /\ (i - 1) + 1 = i
        BY <1>3, <1>4, <1>5, <3>2, <3>4
      <4>. QED
        BY <3>1, <4>1 DEF Holds
    <3>. QED
      BY <3>3, <3>4
  <2>4. ASSUME ~Holds(issued', m), ~Holds(issued, m)
        PROVE  ExpiryIn(issued', m) = ExpiryIn(issued, m)
    BY <2>4, ExpiryOfOthers
  <2>. QED
    BY <2>2, <2>3, <2>4
<1>8. Holds(issued, n) /\ n \in minted /\ ExpiryIn(issued, n) = issued[k].expires
  <2>1. n \in minted
    BY <1>1 DEF Mapped, SingleUseInv
  <2>. QED
    BY <1>1, <1>3, <2>1, ExpiryOfIssued DEF Holds
<1>9. ExpiryIn(issued', n) = 0
  BY <1>6, ExpiryOfOthers
<1>. DEFINE G == [m \in Nonces |-> Standing(m)]
            E == [m \in Nonces |-> ExpiryIn(issued, m)]
<1>10. \A m \in Nonces : Standing(m)' = IF m \in {n} THEN "spent" ELSE Standing(m)
  BY <1>2, <1>6, <1>7, <1>8 DEF Standing
<1>11. \A m \in Nonces : ExpiryIn(issued', m) = IF m \in {n} THEN 0 ELSE ExpiryIn(issued, m)
  BY <1>7, <1>9
<1>12. /\ G' = [m \in Nonces |-> IF m \in {n} THEN "spent" ELSE G[m]]
       /\ E' = [m \in Nonces |-> IF m \in {n} THEN 0 ELSE E[m]]
  BY <1>10, <1>11
<1>13. Gate!Spend({n})
  BY <1>12 DEF Gate!Spend
<1>14. G[n] = "open" /\ E[n] = issued[k].expires
  BY <1>8 DEF Standing
<1>15. Gate!Clock = now
  BY <1>4 DEF Gate!Clock
<1>16. Gate!Expired(n) <=> now > issued[k].expires
  BY <1>14, <1>15 DEF Gate!Expired
<1>17. CASE now > issued[k].expires
  <2>1. {n} \cap {m \in Nonces : Gate!Expired(m)} = {n}
    BY <1>16, <1>17
  <2>2. verdict' = "expired"
    BY <1>2, <1>17
  <2>3. Gate!Refuse(n)
    BY <1>13, <1>16, <1>17, <2>1, <2>2 DEF Gate!Refuse
  <2>. QED
    BY <1>2, <2>3 DEF Gate!Use
<1>18. CASE ~(now > issued[k].expires)
  <2>1. verdict' = "ok"
    BY <1>2, <1>18
  <2>2. Gate!Accept(n)
    BY <1>13, <1>14, <1>16, <1>18, <2>1 DEF Gate!Accept
  <2>. QED
    BY <1>2, <2>2 DEF Gate!Use
<1>. QED
  BY <1>17, <1>18

\* A refusal that touches no table is one of a nonce that is not open.
LEMMA RefusalMaps ==
    ASSUME Mapped, NEW n \in Nonces, ConsumeReplay(n) \/ ConsumeUnknown(n)
    PROVE  Gate!Use(n) /\ now' = now
<1>1. UNCHANGED <<now, issued, minted>> /\ verdict' \in {"replay", "unknown"}
  BY DEF ConsumeReplay, ConsumeUnknown
<1>2. ~Holds(issued, n)
  <2>1. CASE ConsumeReplay(n)
    <3>1. PICK i \in DOMAIN consumed : consumed[i].nonce = n
      BY <2>1 DEF ConsumeReplay, Holds
    <3>2. takes[n] >= 1
      BY <3>1 DEF Mapped, ConsumedTaken
    <3>. QED
      BY <3>2 DEF Holds, Mapped, SingleUseInv
  <2>2. CASE ConsumeUnknown(n)
    BY <2>2 DEF ConsumeUnknown
  <2>. QED
    BY <2>1, <2>2
<1>. DEFINE G == [m \in Nonces |-> Standing(m)]
            E == [m \in Nonces |-> ExpiryIn(issued, m)]
<1>3. G[n] # "open"
  BY <1>2 DEF Standing
<1>4. ~Gate!Expired(n)
  BY <1>3 DEF Gate!Expired
<1>5. {n} \cap {m \in Nonces : Gate!Expired(m)} = {}
  BY <1>4
<1>6. \A m \in Nonces : Standing(m)' = Standing(m)
  BY <1>1 DEF Standing
<1>7. /\ G' = [m \in Nonces |-> IF m \in {} THEN "spent" ELSE G[m]]
      /\ E' = [m \in Nonces |-> IF m \in {} THEN 0 ELSE E[m]]
  BY <1>1, <1>6
<1>8. Gate!Spend({})
  BY <1>7 DEF Gate!Spend
<1>9. Gate!Refuse(n)
  BY <1>1, <1>3, <1>5, <1>8 DEF Gate!Refuse
<1>. QED
  BY <1>1, <1>9 DEF Gate!Use

\* The tables, the pruning and the steps of the clock do not show: to its users the store
\* is a gate that lets each issued nonce through once and before it expires.
THEOREM StoreImplementsGate == Spec => ImplementsGate
<1>1. Init => Gate!GateInit
  BY DEF Init, Gate!GateInit, Standing, Holds, ExpiryIn
<1>2. Init => ConsumedTaken
  BY DEF Init, ConsumedTaken
<1>3. ASSUME Mapped, Mapped', [Next]_vars PROVE [Gate!GateNext]_(Gate!gateVars)
  <2>1. ASSUME NEW n \in Nonces, Issue(n) PROVE Gate!GateNext
    BY <1>3, <2>1, IssueMaps DEF Gate!GateNext
  <2>2. ASSUME NEW n \in Nonces, Consume(n) PROVE Gate!GateNext
    <3>1. Gate!Use(n) /\ now' = now
      BY <1>3, <2>2, TakeMaps, RefusalMaps DEF Consume
    <3>. QED
      BY <3>1 DEF Gate!GateNext
  <2>3. CASE UNCHANGED <<issued, minted, verdict>>
    <3>1. \A m \in Nonces : Standing(m)' = Standing(m)
      BY <2>3 DEF Standing
    <3>. QED
      BY <2>3, <3>1 DEF Gate!GateNext
  <2>. QED
    BY <1>3, <2>1, <2>2, <2>3 DEF Next, ClockMoves, vars
<1>4. TypeOK /\ ConsumedTaken /\ [Next]_vars => ConsumedTaken'
  BY ConsumedTakenInductive
<1>5. Mapped <=> TypeOK /\ SingleUseInv /\ ConsumedTaken
  BY DEF Mapped
<1>. QED
  BY <1>1, <1>2, <1>3, <1>4, <1>5, TypeCorrect, SingleUseHolds, PTL DEF Spec, ImplementsGate, Gate!Spec

=============================================================================
