---------------------------- MODULE MemoryGuard ----------------------------
(***************************************************************************)
(* ModelMemoryGuard of python/src/wcm/model_memory.py: serving threads     *)
(* call check_before_operation, which measures the loaded model under a    *)
(* lock and latches closed on any failure. Nothing quiesces the buffers,   *)
(* so they change between and during the scans.                            *)
(*                                                                         *)
(* A buffer holds its approved content ("good"), other content ("bad"), or *)
(* its adapter fails ("broken": a read error, a short read, a size changed *)
(* while measuring). The baseline is every buffer good.                    *)
(***************************************************************************)
EXTENDS Integers, Sequences, FiniteSets

CONSTANTS
    Buffers,      \* number of buffers of the inventory
    Threads,      \* serving threads
    MaxChanges    \* bound on the changes of buffers

VARIABLES
    content,      \* what each buffer holds
    changes,      \* how often content has changed
    pc,           \* where each thread is in check_before_operation
    read,         \* the digests each thread's scan has so far
    lock,         \* the holder of _lock, or none
    failed,       \* _failed
    teardowns     \* how often on_failure was called

guardVars == <<content, changes, pc, read, lock, failed, teardowns>>

Free == "free"

ASSUME GuardAssumption == Buffers \in Nat /\ MaxChanges \in Nat /\ Free \notin Threads

GuardInit ==
    /\ content = [b \in 1 .. Buffers |-> "good"]
    /\ changes = 0
    /\ pc = [t \in Threads |-> "idle"]
    /\ read = [t \in Threads |-> <<>>]
    /\ lock = Free
    /\ failed = FALSE
    /\ teardowns = 0

\* Something changes a buffer or breaks its adapter, at any time; it may also put
\* the approved bytes back.
ChangeBuffer ==
    /\ changes < MaxChanges
    /\ changes' = changes + 1
    /\ \E b \in DOMAIN content, c \in {"good", "bad", "broken"} :
         content[b] # c /\ content' = [content EXCEPT ![b] = c]
    /\ UNCHANGED <<pc, read, lock, failed, teardowns>>

-----------------------------------------------------------------------------
(* check_before_operation                                                  *)

Acquire(t) ==
    /\ pc[t] \in {"idle", "passed"}
    /\ lock = Free
    /\ lock' = t
    /\ pc' = [pc EXCEPT ![t] = "locked"]
    /\ UNCHANGED <<content, changes, read, failed, teardowns>>

\* Fault: a latched guard measures again, and passes when the bytes are back.
LookAway(t) ==
    /\ pc[t] = "locked"
    /\ pc' = [pc EXCEPT ![t] = "scan"]
    /\ read' = [read EXCEPT ![t] = <<>>]
    /\ UNCHANGED <<content, changes, lock, failed, teardowns>>

\* A latched guard raises and calls nothing; otherwise the scan begins.
LookAtLatch(t) ==
    /\ pc[t] = "locked"
    /\ IF failed
       THEN /\ pc' = [pc EXCEPT ![t] = "idle"]
            /\ lock' = Free
            /\ UNCHANGED read
       ELSE /\ pc' = [pc EXCEPT ![t] = "scan"]
            /\ read' = [read EXCEPT ![t] = <<>>]
            /\ UNCHANGED lock
    /\ UNCHANGED <<content, changes, failed, teardowns>>

Raised(t)   == \E i \in DOMAIN read[t] : read[t][i] = "broken"
Measured(t) == Len(read[t]) = Buffers
Matches(t)  == Measured(t) /\ \A i \in DOMAIN read[t] : read[t][i] = "good"

\* measure_model_buffers reads the next buffer, in the order of the names.
ScanBuffer(t) ==
    /\ pc[t] = "scan"
    /\ ~Raised(t)
    /\ ~Measured(t)
    /\ read' = [read EXCEPT ![t] = Append(@, content[Len(@) + 1])]
    /\ UNCHANGED <<content, changes, pc, lock, failed, teardowns>>

\* The scan equals the baseline: the check returns and the thread serves.
CheckPasses(t) ==
    /\ pc[t] = "scan"
    /\ Matches(t)
    /\ lock' = Free
    /\ pc' = [pc EXCEPT ![t] = "passed"]
    /\ UNCHANGED <<content, changes, read, failed, teardowns>>

\* A difference or an adapter's exception: latch, then leave the lock.
CheckFails(t) ==
    /\ pc[t] = "scan"
    /\ Raised(t) \/ (Measured(t) /\ ~Matches(t))
    /\ failed' = TRUE
    /\ lock' = Free
    /\ pc' = [pc EXCEPT ![t] = "teardown"]
    /\ UNCHANGED <<content, changes, read, teardowns>>

\* on_failure, outside the lock; the check raises whether or not the callback does.
TearDown(t) ==
    /\ pc[t] = "teardown"
    /\ teardowns' = teardowns + 1
    /\ pc' = [pc EXCEPT ![t] = "idle"]
    /\ UNCHANGED <<content, changes, read, lock, failed>>

GuardNext ==
    \/ ChangeBuffer
    \/ \E t \in Threads :
         \/ Acquire(t) \/ LookAtLatch(t) \/ ScanBuffer(t)
         \/ CheckPasses(t) \/ CheckFails(t) \/ TearDown(t)

GuardSpec == GuardInit /\ [][GuardNext]_guardVars

-----------------------------------------------------------------------------
\* The first failing check, of whichever thread, closes the guard for good: teardown
\* is called by that thread and by no other, and no thread scans, so none can pass,
\* once the guard is latched, also when the approved bytes are put back
\* (check_before_operation).
LatchedOnce ==
    /\ teardowns + Cardinality({t \in Threads : pc[t] = "teardown"}) = (IF failed THEN 1 ELSE 0)
    /\ failed => \A t \in Threads : pc[t] # "scan"

-----------------------------------------------------------------------------
(* The inductive form of LatchedOnce                                       *)

Tearing == {t \in Threads : pc[t] = "teardown"}

\* The thread between Acquire and the release of _lock is its holder.
LockInv ==
    /\ pc \in [Threads -> {"idle", "locked", "scan", "passed", "teardown"}]
    /\ \A t \in Threads : pc[t] \in {"locked", "scan"} <=> lock = t

\* A teardown is owed or done, and then the guard is latched and nobody scans.
LatchInv ==
    \/ /\ ~failed
       /\ teardowns = 0
       /\ Tearing = {}
    \/ /\ failed
       /\ \A t \in Threads : pc[t] # "scan"
       /\ \/ teardowns = 1 /\ Tearing = {}
          \/ teardowns = 0 /\ \E t \in Threads : Tearing = {t}

=============================================================================
