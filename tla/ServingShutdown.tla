-------------------------- MODULE ServingShutdown ---------------------------
(***************************************************************************)
(* The teardown adapter of python/src/wcm/custody.py, class                *)
(* ServingShutdown, invoked as the on_stop hook of a session.              *)
(*                                                                         *)
(* zeroize() itself takes no lock: its check and its assignment are two    *)
(* steps, so that threads which break the rule that session calls are      *)
(* serialized can both reach the hook.  The four callbacks belong to the   *)
(* deployment; each may succeed, raise an Exception, or raise a            *)
(* BaseException (KeyboardInterrupt, SystemExit), which except Exception   *)
(* does not catch.                                                         *)
(***************************************************************************)
EXTENDS Integers, FiniteSets

CONSTANTS
    Callers,    \* threads that end custody
    MaxWork     \* device work in flight at once (bound)

ASSUME CallersAssumption == IsFiniteSet(Callers) /\ Callers # {}
ASSUME WorkAssumption    == MaxWork \in Nat

VARIABLES
    authorized,     \* the session still authorizes operations
    stopped,        \* _stopped
    pc,             \* where each caller stands
    admitting,      \* the worker's queue accepts requests
    inflight,       \* device work running on the weights
    loaded,         \* the weights' buffers are allocated
    running,        \* the worker process exists
    tries           \* ghost: how often each callback was invoked

world == <<admitting, inflight, loaded, running>>
vars  == <<authorized, stopped, pc, world, tries>>

Callbacks == {"stop_admission", "cancel_inflight", "unload_weights", "terminate"}
Places    == {"idle", "wiping", "hook", "admission", "cancel", "unload", "terminate", "done"}

Init ==
    /\ authorized = TRUE
    /\ stopped = FALSE
    /\ pc = [c \in Callers |-> "idle"]
    /\ admitting = TRUE
    /\ inflight = 0
    /\ loaded = TRUE
    /\ running = TRUE
    /\ tries = [b \in Callbacks |-> 0]

Goto(c, place) == pc' = [pc EXCEPT ![c] = place]
Invoke(b)      == tries' = [tries EXCEPT ![b] = @ + 1]

-----------------------------------------------------------------------------
(* zeroize(), unserialized                                                 *)

ZeroizeCheck(c) ==
    /\ pc[c] = "idle"
    /\ Goto(c, IF authorized THEN "wiping" ELSE "done")
    /\ UNCHANGED <<authorized, stopped, world, tries>>

ZeroizeSet(c) ==
    /\ pc[c] = "wiping"
    /\ authorized' = FALSE
    /\ Goto(c, "hook")
    /\ UNCHANGED <<stopped, world, tries>>

-----------------------------------------------------------------------------
(* __call__                                                                *)

\* Fault: the flag is set without being looked at.
EnterUnguarded(c) ==
    /\ pc[c] = "hook"
    /\ Goto(c, "admission")
    /\ stopped' = TRUE
    /\ UNCHANGED <<authorized, world, tries>>

\* The test and set under the lock; a second caller returns at once.
Enter(c) ==
    /\ pc[c] = "hook"
    /\ Goto(c, IF stopped THEN "done" ELSE "admission")
    /\ stopped' = TRUE
    /\ UNCHANGED <<authorized, world, tries>>

\* The callback closes the queue, or raises before it did.  A caught exception is
\* collected and the sequence goes on; a BaseException leaves for the finally clause.
StopAdmission(c) ==
    /\ pc[c] = "admission"
    /\ Invoke("stop_admission")
    /\ admitting' = FALSE \/ UNCHANGED admitting
    /\ Goto(c, "cancel") \/ Goto(c, "terminate")
    /\ UNCHANGED <<authorized, stopped, inflight, loaded, running>>

\* Fault: memory is released although the cancellation raised.
CancelAndUnload(c) ==
    /\ pc[c] = "cancel"
    /\ Invoke("cancel_inflight")
    /\ \/ inflight' = 0 /\ Goto(c, "unload")
       \/ UNCHANGED inflight /\ Goto(c, "unload")
    /\ UNCHANGED <<authorized, stopped, admitting, loaded, running>>

\* Fault: no finally clause; a cancellation that raises ends the teardown.
CancelWithoutFinally(c) ==
    /\ pc[c] = "cancel"
    /\ Invoke("cancel_inflight")
    /\ \/ inflight' = 0 /\ Goto(c, "unload")
       \/ UNCHANGED inflight /\ Goto(c, "done")
    /\ UNCHANGED <<authorized, stopped, admitting, loaded, running>>

\* Only a cancellation that returned has quiesced the device (the else clause).
CancelInflight(c) ==
    /\ pc[c] = "cancel"
    /\ Invoke("cancel_inflight")
    /\ \/ inflight' = 0 /\ Goto(c, "unload")
       \/ UNCHANGED inflight /\ Goto(c, "terminate")
    /\ UNCHANGED <<authorized, stopped, admitting, loaded, running>>

UnloadWeights(c) ==
    /\ pc[c] = "unload"
    /\ Invoke("unload_weights")
    /\ loaded' = FALSE \/ UNCHANGED loaded
    /\ Goto(c, "terminate")
    /\ UNCHANGED <<authorized, stopped, admitting, inflight, running>>

\* The finally clause: attempted whatever happened before.
Terminate(c) ==
    /\ pc[c] = "terminate"
    /\ Invoke("terminate")
    /\ \/ running' = FALSE /\ inflight' = 0
       \/ UNCHANGED <<running, inflight>>
    /\ Goto(c, "done")
    /\ UNCHANGED <<authorized, stopped, admitting, loaded>>

-----------------------------------------------------------------------------
(* The worker: an authorized request starts device work, which ends.       *)

StartWork ==
    /\ authorized /\ admitting /\ running
    /\ inflight < MaxWork
    /\ inflight' = inflight + 1
    /\ UNCHANGED <<authorized, stopped, pc, admitting, loaded, running, tries>>

FinishWork ==
    /\ inflight > 0
    /\ inflight' = inflight - 1
    /\ UNCHANGED <<authorized, stopped, pc, admitting, loaded, running, tries>>

Shutdown(c) ==
    \/ Enter(c)
    \/ StopAdmission(c)
    \/ CancelInflight(c)
    \/ UnloadWeights(c)
    \/ Terminate(c)

Next ==
    \/ \E c \in Callers : ZeroizeCheck(c) \/ ZeroizeSet(c) \/ Shutdown(c)
    \/ StartWork
    \/ FinishWork

Spec == Init /\ [][Next]_vars

\* A thread inside the adapter keeps running; the callbacks are bounded.
FairSpec == Spec /\ \A c \in Callers : WF_vars(ZeroizeSet(c) \/ Shutdown(c))

-----------------------------------------------------------------------------

\* Every variable has its type.
TypeOK ==
    /\ authorized \in BOOLEAN
    /\ stopped \in BOOLEAN
    /\ pc \in [Callers -> Places]
    /\ admitting \in BOOLEAN
    /\ inflight \in 0..MaxWork
    /\ loaded \in BOOLEAN
    /\ running \in BOOLEAN
    /\ tries \in [Callbacks -> Nat]

\* "a racing second caller must not repeat it": each callback runs at most once,
\* even when unserialized zeroize() calls both reach the hook.
TeardownOnce == \A b \in Callbacks : tries[b] <= 1

\* "memory release is skipped when in-flight work cannot be confirmed quiesced":
\* buffers are never freed under running device work, also when the worker's
\* queue could not be closed.
NoFreeUnderWork == ~loaded => inflight = 0

\* "termination is still attempted when earlier steps fail": once the adapter has
\* started, terminate is invoked, whatever the callbacks before it raise.
TerminationAttempted == stopped ~> tries["terminate"] = 1

\* The inductive form of TeardownOnce and NoFreeUnderWork: one caller at most is
\* inside the adapter, and the counters follow its place.
Inside == {"admission", "cancel", "unload", "terminate"}
ShutdownInv ==
    /\ \A c, d \in Callers : pc[c] \in Inside /\ pc[d] \in Inside => c = d
    /\ \A c \in Callers : pc[c] \in Inside \cup {"hook"} => ~authorized
    /\ \A c \in Callers : pc[c] \in Inside => stopped
    /\ ~stopped => loaded /\ \A b \in Callbacks : tries[b] = 0
    /\ (\E c \in Callers : pc[c] = "admission") => \A b \in Callbacks : tries[b] = 0
    /\ (\E c \in Callers : pc[c] = "cancel") =>
        \A b \in Callbacks \ {"stop_admission"} : tries[b] = 0
    /\ (\E c \in Callers : pc[c] = "unload") =>
        inflight = 0 /\ \A b \in {"unload_weights", "terminate"} : tries[b] = 0
    /\ (\E c \in Callers : pc[c] = "terminate") => tries["terminate"] = 0
    /\ (\E c \in Callers : pc[c] \in Inside \ {"terminate"}) => loaded
    /\ ~loaded => ~authorized
    /\ TeardownOnce
    /\ NoFreeUnderWork

=============================================================================
