------------------------ MODULE ServingShutdownProofs -----------------------
(***************************************************************************)
(* Proofs about ServingShutdown, for any number of threads that end        *)
(* custody at once.                                                        *)
(***************************************************************************)
EXTENDS ServingShutdown, TLAPS

\* Every variable keeps its type.
THEOREM TypeCorrect == Spec => []TypeOK
<1>1. Init => TypeOK
  <2> SUFFICES ASSUME Init PROVE TypeOK
    OBVIOUS
  <2>1. /\ authorized \in BOOLEAN /\ stopped \in BOOLEAN /\ admitting \in BOOLEAN
        /\ loaded \in BOOLEAN /\ running \in BOOLEAN
    BY Zenon DEF Init
  <2>2. /\ pc \in [Callers -> Places]
        /\ inflight \in 0..MaxWork
        /\ tries \in [Callbacks -> Nat]
    BY WorkAssumption DEF Init, Places
  <2> QED BY <2>1, <2>2, Zenon DEF TypeOK
<1>2. TypeOK /\ [Next]_vars => TypeOK'
  <2> SUFFICES ASSUME TypeOK, [Next]_vars
               PROVE  TypeOK'
    OBVIOUS
  <2>1. ASSUME NEW c \in Callers, ZeroizeCheck(c) \/ ZeroizeSet(c) \/ Enter(c)
        PROVE  TypeOK'
    <3>1. pc' \in [Callers -> Places]
      BY <2>1 DEF ZeroizeCheck, ZeroizeSet, Enter, Goto, TypeOK, Places
    <3>2. authorized' \in BOOLEAN /\ stopped' \in BOOLEAN
      BY <2>1, Zenon DEF ZeroizeCheck, ZeroizeSet, Enter, TypeOK
    <3>3. UNCHANGED <<world, tries>>
      BY <2>1 DEF ZeroizeCheck, ZeroizeSet, Enter
    <3> QED BY <3>1, <3>2, <3>3 DEF TypeOK, world
  <2>2. ASSUME NEW c \in Callers, StopAdmission(c)
        PROVE  TypeOK'
    <3>1. admitting' \in BOOLEAN
      BY <2>2, Zenon DEF StopAdmission, TypeOK
    <3>2. /\ pc' \in [Callers -> Places]
          /\ tries' \in [Callbacks -> Nat]
          /\ inflight' \in 0..MaxWork
      BY <2>2 DEF StopAdmission, Goto, Invoke, TypeOK, Places, Callbacks
    <3> QED BY <2>2, <3>1, <3>2 DEF StopAdmission, TypeOK
  <2>3. ASSUME NEW c \in Callers, CancelInflight(c)
        PROVE  TypeOK'
    BY <2>3, WorkAssumption DEF CancelInflight, Goto, Invoke, TypeOK, Places, Callbacks
  <2>4. ASSUME NEW c \in Callers, UnloadWeights(c)
        PROVE  TypeOK'
    <3>1. loaded' \in BOOLEAN
      BY <2>4, Zenon DEF UnloadWeights, TypeOK
    <3>2. /\ pc' \in [Callers -> Places]
          /\ tries' \in [Callbacks -> Nat]
          /\ inflight' \in 0..MaxWork
      BY <2>4 DEF UnloadWeights, Goto, Invoke, TypeOK, Places, Callbacks
    <3> QED BY <2>4, <3>1, <3>2 DEF UnloadWeights, TypeOK
  <2>5. ASSUME NEW c \in Callers, Terminate(c)
        PROVE  TypeOK'
    <3>1. running' \in BOOLEAN
      BY <2>5, Zenon DEF Terminate, TypeOK
    <3>2. /\ pc' \in [Callers -> Places]
          /\ tries' \in [Callbacks -> Nat]
          /\ inflight' \in 0..MaxWork
      BY <2>5, WorkAssumption DEF Terminate, Goto, Invoke, TypeOK, Places, Callbacks
    <3> QED BY <2>5, <3>1, <3>2 DEF Terminate, TypeOK
  <2>6. CASE StartWork \/ FinishWork
    BY <2>6, WorkAssumption DEF StartWork, FinishWork, TypeOK
  <2>7. CASE UNCHANGED vars
    BY <2>7 DEF vars, world, TypeOK
  <2> QED BY <2>1, <2>2, <2>3, <2>4, <2>5, <2>6, <2>7 DEF Next, Shutdown
<1> QED BY <1>1, <1>2, PTL DEF Spec

-----------------------------------------------------------------------------

LEMMA ShutdownInvInit == Init => ShutdownInv
BY DEF Init, ShutdownInv, Inside, TeardownOnce, NoFreeUnderWork

\* The callers of the adapter keep out of each other's way, and the counters of the
\* callbacks follow the place of the one that is inside.
LEMMA ShutdownInvInductive == TypeOK /\ ShutdownInv /\ [Next]_vars => ShutdownInv'
<1> SUFFICES ASSUME TypeOK, ShutdownInv, [Next]_vars
             PROVE  ShutdownInv'
  OBVIOUS
<1> USE DEF Inside, TeardownOnce, NoFreeUnderWork, Goto, Callbacks
<1>1. ASSUME NEW c \in Callers, ZeroizeCheck(c)
      PROVE  ShutdownInv'
  BY <1>1 DEF ZeroizeCheck, TypeOK, ShutdownInv, world
<1>2. ASSUME NEW c \in Callers, ZeroizeSet(c)
      PROVE  ShutdownInv'
  BY <1>2 DEF ZeroizeSet, TypeOK, ShutdownInv, world
<1>3. ASSUME NEW c \in Callers, Enter(c)
      PROVE  ShutdownInv'
  BY <1>3 DEF Enter, TypeOK, ShutdownInv, world
<1>4. ASSUME NEW c \in Callers, StopAdmission(c)
      PROVE  ShutdownInv'
  BY <1>4 DEF StopAdmission, Invoke, TypeOK, ShutdownInv
<1>5. ASSUME NEW c \in Callers, CancelInflight(c)
      PROVE  ShutdownInv'
  BY <1>5 DEF CancelInflight, Invoke, TypeOK, ShutdownInv
<1>6. ASSUME NEW c \in Callers, UnloadWeights(c)
      PROVE  ShutdownInv'
  BY <1>6 DEF UnloadWeights, Invoke, TypeOK, ShutdownInv
<1>7. ASSUME NEW c \in Callers, Terminate(c)
      PROVE  ShutdownInv'
  BY <1>7 DEF Terminate, Invoke, TypeOK, ShutdownInv
<1>8. CASE StartWork
  BY <1>8 DEF StartWork, TypeOK, ShutdownInv
<1>9. CASE FinishWork
  BY <1>9 DEF FinishWork, TypeOK, ShutdownInv
<1>10. CASE UNCHANGED vars
  BY <1>10 DEF vars, world, TypeOK, ShutdownInv
<1> QED
  BY <1>1, <1>2, <1>3, <1>4, <1>5, <1>6, <1>7, <1>8, <1>9, <1>10 DEF Next, Shutdown

\* Whatever unserialized threads call zeroize(), no callback of the adapter runs
\* twice.
THEOREM CallbacksRunOnce == Spec => []TeardownOnce
<1>1. ShutdownInv => TeardownOnce
  BY DEF ShutdownInv
<1> QED BY <1>1, TypeCorrect, ShutdownInvInit, ShutdownInvInductive, PTL DEF Spec

\* Whatever the callbacks raise, no buffer is freed under running device work.
THEOREM BuffersOutliveWork == Spec => []NoFreeUnderWork
<1>1. ShutdownInv => NoFreeUnderWork
  BY DEF ShutdownInv
<1> QED BY <1>1, TypeCorrect, ShutdownInvInit, ShutdownInvInductive, PTL DEF Spec

=============================================================================
