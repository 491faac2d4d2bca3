------------------------ MODULE EnclaveSessionProofs ------------------------
(***************************************************************************)
(* Proofs about EnclaveSession: what a session promises for any cadence,   *)
(* poll interval, operation ceiling and set of decisions.                  *)
(***************************************************************************)
EXTENDS EnclaveSession, FiniteSetTheorems, TLAPS

LEMMA MinOfNat ==
    ASSUME NEW a \in Nat, NEW b \in Nat
    PROVE  MinOf(a, b) \in Nat /\ MinOf(a, b) <= a /\ MinOf(a, b) <= b
BY DEF MinOf

\* A granted window is a time, and does not end in the past: a decision is applied no
\* later than it expires, and it expires no later than its evidence.
LEMMA NewDeadlineAhead ==
    ASSUME TypeOK, NEW d \in Decisions, Current(d)
    PROVE  NewDeadline(d) \in Nat /\ now <= NewDeadline(d)
<1>1. d.expires \in Nat /\ d.bound \in Nat /\ Cadence \in Nat /\ now \in Nat
  BY CadenceAssumption, DecisionAssumption DEF TypeOK, Decision
<1>2. d.evidence = "bounded" => d.expires <= d.bound
  BY IssuerAssumption
<1> QED BY <1>1, <1>2 DEF NewDeadline, MinOf, Current

\* Every step either leaves the lease alone, grants a window, serves or wipes; the
\* monitor and the clock move on their own.
THEOREM TypeCorrect == Spec => []TypeOK
<1>1. Init => TypeOK
  BY CadenceAssumption DEF Init, TypeOK
<1>2. TypeOK /\ [Next]_vars => TypeOK'
  <2> SUFFICES ASSUME TypeOK, [Next]_vars
               PROVE  TypeOK'
    OBVIOUS
  <2> USE DEF lease, task, ghost, mode
  <2>1. CASE Refused
    BY <2>1 DEF Refused, Zeroize, TypeOK
  <2>2. ASSUME NEW r, Answered(r)
        PROVE  TypeOK'
    BY <2>2 DEF Answered, TypeOK
  <2>3. CASE Serve
    BY <2>3 DEF Serve, TypeOK
  <2>4. CASE Reattest
    BY <2>1, <2>4, CadenceAssumption DEF Reattest, TypeOK
  <2>5. CASE EndCustody
    BY <2>5 DEF EndCustody, Zeroize, TypeOK
  <2>6. ASSUME NEW d \in Decisions, ApplyRenewal(d)
        PROVE  TypeOK'
    <3>1. CASE RenewalDenied(d) \/ RenewalUnreadable(d)
      BY <3>1 DEF RenewalDenied, RenewalUnreadable, TypeOK
    <3>2. CASE Renew(d)
      BY <3>2, NewDeadlineAhead DEF Renew, TypeOK
    <3> QED BY <2>1, <2>2, <2>6, <3>1, <3>2 DEF ApplyRenewal, RenewalInvalid
  <2>7. CASE MonitorCreate \/ MonitorAbandon
    BY <2>7 DEF MonitorCreate, MonitorAbandon, TypeOK
  <2>8. CASE MonitorSleep
    <3>1. SleepUntil \in Nat
      BY <2>8, PollAssumption DEF MonitorSleep, SleepUntil, Holding, MinOf, TypeOK
    <3> QED BY <2>8, <3>1 DEF MonitorSleep, TypeOK
  <2>9. CASE MonitorEnd \/ MonitorCancel
    BY <2>9 DEF MonitorEnd, MonitorCancel, Zeroize, TypeOK
  <2>10. CASE ClockTicks
    BY <2>10 DEF ClockTicks, TypeOK
  <2>11. CASE ClockSteps
    <3>1. TimeEnd \in Nat
      BY BoundsAssumption, CadenceAssumption, PollAssumption DEF TimeEnd
    <3>2. now' \in Nat
      BY <2>11, <3>1 DEF ClockSteps
    <3> QED BY <2>11, <3>2 DEF ClockSteps, TypeOK
  <2>12. CASE UNCHANGED vars
    BY <2>12 DEF vars, TypeOK
  <2> QED
    BY <2>1, <2>2, <2>3, <2>4, <2>5, <2>6, <2>7, <2>8, <2>9, <2>10, <2>11, <2>12
       DEF Next, Tick, AuthorizeOperation, MonitorStep
<1> QED BY <1>1, <1>2, PTL DEF Spec

-----------------------------------------------------------------------------
(* The operation budget                                                    *)

LEMMA OneMoreWindow ==
    ASSUME NEW m \in Nat, NEW k \in Nat
    PROVE  m * k \in Nat /\ m * (k + 1) = m * k + m
OBVIOUS

\* A window that is granted starts with a full budget: what the one before it served
\* is within its own.
LEMMA WindowGranted ==
    ASSUME TypeOK, BudgetInv, MaxOps # 0, ops' = 0, served' = served,
           renewals' + reattests' = renewals + reattests + 1
    PROVE  BudgetInv'
<1> DEFINE k == renewals + reattests
<1>1. k \in Nat /\ MaxOps \in Nat /\ ops \in Nat /\ served \in Nat
  BY MaxOpsAssumption DEF TypeOK
<1>2. MaxOps * k \in Nat /\ MaxOps * (k + 1) = MaxOps * k + MaxOps
  BY <1>1, OneMoreWindow
<1>3. ops <= MaxOps /\ served <= ops + MaxOps * k
  BY DEF BudgetInv
<1>4. served' <= ops' + MaxOps * (renewals' + reattests')
  <2> HIDE DEF k
  <2>1. served <= MaxOps * (k + 1)
    BY <1>1, <1>2, <1>3
  <2> QED BY <2>1, <1>1, <1>2 DEF k
<1> QED BY <1>1, <1>4 DEF BudgetInv

LEMMA BudgetInductive == TypeOK /\ BudgetInv /\ [Next]_vars => BudgetInv'
<1> SUFFICES ASSUME TypeOK, BudgetInv, [Next]_vars, MaxOps # 0
             PROVE  BudgetInv'
  BY DEF BudgetInv
<1>1. CASE UNCHANGED <<ops, served, renewals, reattests>>
  BY <1>1 DEF BudgetInv
<1>2. CASE Serve
  <2> DEFINE past == MaxOps * (renewals + reattests)
  <2>1. ops \in Nat /\ served \in Nat /\ past \in Nat /\ MaxOps \in Nat
    BY OneMoreWindow, MaxOpsAssumption DEF TypeOK
  <2>2. ops <= MaxOps /\ served <= ops + past /\ ~(ops >= MaxOps)
    BY <1>2 DEF BudgetInv, Serve, Exhausted
  <2>3. ops' = ops + 1 /\ served' = served + 1 /\ renewals' = renewals /\ reattests' = reattests
    BY <1>2 DEF Serve
  <2>4. ops' <= MaxOps /\ served' <= ops' + past
    <3> HIDE DEF past
    <3> QED BY <2>1, <2>2, <2>3
  <2> QED BY <2>3, <2>4 DEF BudgetInv
<1>3. ASSUME Holding, ops' = 0, served' = served, reattests' = reattests + 1,
             renewals' = renewals
      PROVE  BudgetInv'
  BY <1>3, WindowGranted DEF TypeOK
<1>4. ASSUME NEW d \in Decisions, Renew(d)
      PROVE  BudgetInv'
  <2>1. renewals' + reattests' = renewals + reattests + 1
    BY <1>4 DEF Renew, TypeOK
  <2> QED BY <1>4, <2>1, WindowGranted DEF Renew
<1>5. CASE Reattest
  BY <1>1, <1>3, <1>5 DEF Reattest, Refused
<1>6. ASSUME NEW d \in Decisions, ApplyRenewal(d)
      PROVE  BudgetInv'
  BY <1>1, <1>4, <1>6 DEF ApplyRenewal, Refused, RenewalInvalid, RenewalDenied,
     RenewalUnreadable, Answered, lease, ghost
<1>7. CASE \/ Tick \/ AuthorizeOperation \/ EndCustody \/ MonitorCreate \/ MonitorStep
           \/ MonitorCancel \/ MonitorAbandon \/ ClockTicks \/ ClockSteps \/ UNCHANGED vars
  BY <1>1, <1>2, <1>7 DEF Tick, AuthorizeOperation, EndCustody, MonitorCreate, MonitorStep,
     MonitorSleep, MonitorEnd, MonitorCancel, MonitorAbandon, ClockTicks, ClockSteps, Refused,
     Answered, lease, ghost, vars
<1> QED BY <1>5, <1>6, <1>7 DEF Next

\* However calls, denials, refused renewals and lapses interleave, the session lets
\* through at most max_operations per window it was granted, for any ceiling.
THEOREM BudgetHolds == Spec => []OpBudget
<1>1. Init => BudgetInv
  BY OneMoreWindow, MaxOpsAssumption DEF Init, BudgetInv
<1>2. TypeOK /\ BudgetInv => OpBudget
  <2> SUFFICES ASSUME TypeOK, BudgetInv, MaxOps # 0
               PROVE  served <= MaxOps * (1 + renewals + reattests)
    BY DEF OpBudget
  <2> DEFINE k == renewals + reattests
  <2>1. k \in Nat /\ MaxOps \in Nat /\ ops \in Nat /\ served \in Nat
    BY MaxOpsAssumption DEF TypeOK
  <2>2. MaxOps * k \in Nat /\ MaxOps * (k + 1) = MaxOps * k + MaxOps
    BY <2>1, OneMoreWindow
  <2>3. ops <= MaxOps /\ served <= ops + MaxOps * k /\ 1 + renewals + reattests = k + 1
    BY DEF BudgetInv, TypeOK
  <2> QED
    <3> HIDE DEF k
    <3> QED BY <2>1, <2>2, <2>3
<1> QED BY <1>1, <1>2, TypeCorrect, BudgetInductive, PTL DEF Spec

-----------------------------------------------------------------------------
(* One window per decision                                                 *)

\* Replaying a decision, or presenting it again after its evidence bound failed to
\* parse, grants nothing: there are never more windows from renewals than distinct
\* decisions used.
THEOREM DecisionsBuyOneWindow == Spec => []OneWindowPerDecision
<1>1. Init => OneWindowPerDecision
  BY FS_EmptySet DEF Init, OneWindowPerDecision
<1>2. TypeOK /\ OneWindowPerDecision /\ [Next]_vars => OneWindowPerDecision'
  <2> SUFFICES ASSUME TypeOK, OneWindowPerDecision, [Next]_vars
               PROVE  OneWindowPerDecision'
    OBVIOUS
  <2>1. IsFiniteSet(used) /\ Cardinality(used) \in Nat /\ renewals \in Nat
    BY DecisionAssumption, FS_Subset, FS_CardinalityType DEF TypeOK
  <2>2. ASSUME NEW d \in Decisions, d \notin used, used' = used \cup {d},
               renewals' \in {renewals, renewals + 1}
        PROVE  OneWindowPerDecision'
    <3>1. Cardinality(used \cup {d}) = Cardinality(used) + 1
      BY <2>1, <2>2, FS_AddElement
    <3> QED BY <2>1, <2>2, <3>1 DEF OneWindowPerDecision
  <2>3. CASE UNCHANGED <<used, renewals>>
    BY <2>3 DEF OneWindowPerDecision
  <2>4. ASSUME NEW d \in Decisions, ApplyRenewal(d)
        PROVE  OneWindowPerDecision'
    BY <2>2, <2>3, <2>4 DEF ApplyRenewal, Refused, RenewalInvalid, RenewalDenied,
       RenewalUnreadable, Renew, Answered, lease, ghost
  <2> QED
    BY <2>3, <2>4 DEF Next, Tick, AuthorizeOperation, Serve, Reattest, EndCustody,
       MonitorCreate, MonitorStep, MonitorSleep, MonitorEnd, MonitorCancel, MonitorAbandon,
       ClockTicks, ClockSteps, Refused, Answered, lease, ghost, vars
<1> QED BY <1>1, <1>2, TypeCorrect, PTL DEF Spec

-----------------------------------------------------------------------------
(* The wipe                                                                *)

LEMMA ZeroizeWipes ==
    ASSUME WipeInv, Zeroize
    PROVE  WipeInv'
BY DEF WipeInv, Zeroize

LEMMA WipeInductive == TypeOK /\ WipeInv /\ [Next]_vars => WipeInv'
<1> SUFFICES ASSUME TypeOK, WipeInv, [Next]_vars
             PROVE  WipeInv'
  OBVIOUS
<1>1. CASE Zeroize
  BY <1>1, ZeroizeWipes
<1>2. CASE UNCHANGED <<state, stops>> /\ monitor' # "done"
  BY <1>2 DEF WipeInv
<1>3. CASE UNCHANGED <<state, stops, monitor>>
  BY <1>3 DEF WipeInv
<1>4. ASSUME NEW d \in Decisions, ApplyRenewal(d)
      PROVE  WipeInv'
  BY <1>1, <1>3, <1>4 DEF ApplyRenewal, Refused, RenewalInvalid, RenewalDenied,
     RenewalUnreadable, Renew, Answered, lease, task, ghost
<1> QED
  BY <1>1, <1>2, <1>3, <1>4 DEF Next, Tick, AuthorizeOperation, Serve, Reattest, EndCustody,
     MonitorCreate, MonitorStep, MonitorSleep, MonitorEnd, MonitorCancel, MonitorAbandon,
     ClockTicks, ClockSteps, Refused, Answered, lease, task, ghost, vars

\* A monitor that ran even one turn ends only with the key wiped and the teardown
\* adapter called exactly once, whichever call, turn or cancellation came first.
THEOREM MonitorsEndCustody == Spec => []MonitorEndsCustody
<1>1. Init => WipeInv
  BY DEF Init, WipeInv
<1>2. WipeInv => MonitorEndsCustody
  BY DEF WipeInv, MonitorEndsCustody
<1> QED BY <1>1, <1>2, TypeCorrect, WipeInductive, PTL DEF Spec

\* After the wipe no step authorizes an operation or grants a window, whatever the
\* clock does.
THEOREM NothingAfterWipe == Spec => NoServiceAfterWipe
<1> DEFINE Over == state = "wiped" =>
                       state' = "wiped" /\ UNCHANGED <<served, renewals, reattests>>
<1>1. [Next]_vars => [Over]_vars
  <2> SUFFICES ASSUME Next, state = "wiped"
               PROVE  state' = "wiped" /\ UNCHANGED <<served, renewals, reattests>>
    OBVIOUS
  <2>1. ~Holding
    BY DEF Holding
  <2>2. ASSUME NEW d \in Decisions, ApplyRenewal(d)
        PROVE  Refused
    BY <2>1, <2>2 DEF ApplyRenewal, RenewalInvalid, RenewalDenied, RenewalUnreadable, Renew,
       Answered
  <2> QED
    BY <2>1, <2>2 DEF Next, Tick, AuthorizeOperation, Serve, Reattest, EndCustody,
       MonitorCreate, MonitorStep, MonitorSleep, MonitorEnd, MonitorCancel, MonitorAbandon,
       ClockTicks, ClockSteps, Refused, Zeroize, Answered, lease, task, ghost
<1> QED BY <1>1, PTL DEF Spec, NoServiceAfterWipe

-----------------------------------------------------------------------------
(* The lapse                                                               *)

LEMMA WithinAPoll ==
    ASSUME NEW w \in Nat, NEW t \in Nat, NEW p \in Nat, NEW d \in Nat, w <= t + p, t <= d
    PROVE  w <= d + p
OBVIOUS

\* A window granted while the monitor sleeps ends no earlier than now, and the monitor
\* wakes within a poll of now.
LEMMA WindowMoves ==
    ASSUME TypeOK, SleepInv, deadline' \in Nat, now <= deadline',
           UNCHANGED <<now, task, mode>>
    PROVE  SleepInv'
<1> SUFFICES ASSUME steady, monitor = "asleep"
             PROVE  wake <= now + Poll /\ wake <= deadline' + Poll /\ (prompt => now <= wake)
  BY DEF SleepInv, task, mode
<1>1. wake <= now + Poll /\ (prompt => now <= wake)
  BY DEF SleepInv
<1>2. wake \in Nat /\ now \in Nat /\ Poll \in Nat
  BY PollAssumption DEF TypeOK
<1>3. wake <= deadline' + Poll
  BY <1>1, <1>2, WithinAPoll
<1> QED BY <1>1, <1>3

LEMMA SleepInductive == TypeOK /\ SleepInv /\ [Next]_vars => SleepInv'
<1> SUFFICES ASSUME TypeOK, SleepInv, [Next]_vars
             PROVE  SleepInv'
  OBVIOUS
<1>1. CASE UNCHANGED <<now, deadline, task, mode>>
  BY <1>1 DEF SleepInv, task, mode
<1>2. CASE monitor' # "asleep"
  BY <1>2 DEF SleepInv
<1>3. CASE Reattest
  <2>1. CASE Refused
    BY <1>1, <2>1 DEF Refused
  <2>2. CASE deadline' = now + Cadence /\ UNCHANGED <<now, task, mode>>
    BY <2>2, WindowMoves, CadenceAssumption DEF TypeOK
  <2> QED BY <1>3, <2>1, <2>2 DEF Reattest
<1>4. ASSUME NEW d \in Decisions, ApplyRenewal(d)
      PROVE  SleepInv'
  <2>1. CASE Renew(d)
    BY <2>1, NewDeadlineAhead, WindowMoves DEF Renew
  <2> QED
    BY <1>1, <1>4, <2>1 DEF ApplyRenewal, Refused, RenewalInvalid, RenewalDenied,
       RenewalUnreadable, Answered, lease
<1>5. CASE MonitorSleep
  <2>1. now \in Nat /\ deadline \in Nat /\ now < deadline /\ Poll \in Nat
    BY <1>5, PollAssumption DEF MonitorSleep, Holding, TypeOK
  <2>2. wake' = now + MinOf(Poll, deadline - now) /\ now' = now /\ deadline' = deadline
    BY <1>5 DEF MonitorSleep, SleepUntil, lease
  <2>3. now <= wake' /\ wake' <= now + Poll /\ wake' <= deadline + Poll
    BY <2>1, <2>2 DEF MinOf
  <2> QED BY <2>2, <2>3 DEF SleepInv
<1>6. CASE ClockTicks
  <2>1. now' = now + 1 /\ UNCHANGED <<deadline, monitor, wake, steady>>
    BY <1>6 DEF ClockTicks, lease, task
  <2>2. prompt' /\ monitor = "asleep" /\ steady => prompt /\ ~(now >= wake)
    BY <1>6 DEF ClockTicks, MonitorDue
  <2>3. now \in Nat /\ wake \in Nat /\ Poll \in Nat /\ deadline \in Nat
    BY PollAssumption DEF TypeOK
  <2> SUFFICES ASSUME steady, monitor = "asleep"
               PROVE  wake <= now + 1 + Poll /\ wake <= deadline + Poll
                      /\ (prompt' => now + 1 <= wake)
    BY <2>1 DEF SleepInv
  <2> QED BY <2>2, <2>3 DEF SleepInv
<1>7. CASE ClockSteps
  BY <1>7 DEF ClockSteps, SleepInv
<1> QED
  BY <1>1, <1>2, <1>3, <1>4, <1>5, <1>6, <1>7 DEF Next, Tick, AuthorizeOperation, Serve,
     EndCustody, MonitorCreate, MonitorStep, MonitorEnd, MonitorCancel, MonitorAbandon,
     Refused, Answered, lease, task, vars

\* Under a prompt event loop and a steady clock a monitored session holds its key at
\* most one poll interval past its deadline, for any poll interval and any decisions,
\* also when a renewal moves the deadline closer while the monitor sleeps.
THEOREM LapsesAreNoticedInTime == Spec => []LapseBound
<1>1. Init => SleepInv
  BY DEF Init, SleepInv
<1>2. TypeOK /\ SleepInv => LapseBound
  BY PollAssumption DEF SleepInv, LapseBound, TypeOK
<1> QED BY <1>1, <1>2, TypeCorrect, SleepInductive, PTL DEF Spec

=============================================================================
