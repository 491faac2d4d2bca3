----------------------------- MODULE MCRecords -----------------------------
(***************************************************************************)
(* The parts that keep or check a record of what happened, each explored   *)
(* on its own: part says which one an execution is about, and the state of *)
(* the others stays at one initial value.                                  *)
(***************************************************************************)
EXTENDS MerkleLog, RuntimeRecords, MemorySweep, MemoryGuard, MemoryObserver,
        ReceiptController

VARIABLE part

Parts == {"log", "chain", "sweep", "guard", "observer", "controller"}

Init ==
    /\ part \in Parts
    /\ LogInit
    /\ ChainInit /\ (part # "chain" => lease = CHOOSE l \in Leases : TRUE)
    /\ SweepInit /\ (part # "sweep" => count = 1)
    /\ GuardInit
    /\ ObserverInit
    /\ ControllerInit

LogPart ==
    /\ part = "log" /\ LogNext
    /\ UNCHANGED <<part, chainVars, sweepVars, guardVars, observerVars, controllerVars>>

ChainPart ==
    /\ part = "chain" /\ ChainNext
    /\ UNCHANGED <<part, logVars, sweepVars, guardVars, observerVars, controllerVars>>

SweepPart ==
    /\ part = "sweep" /\ SweepNext
    /\ UNCHANGED <<part, logVars, chainVars, guardVars, observerVars, controllerVars>>

GuardPart ==
    /\ part = "guard" /\ GuardNext
    /\ UNCHANGED <<part, logVars, chainVars, sweepVars, observerVars, controllerVars>>

ObserverPart ==
    /\ part = "observer" /\ ObserverNext
    /\ UNCHANGED <<part, logVars, chainVars, sweepVars, guardVars, controllerVars>>

ControllerPart ==
    /\ part = "controller" /\ ControllerNext
    /\ UNCHANGED <<part, logVars, chainVars, sweepVars, guardVars, observerVars>>

Next == LogPart \/ ChainPart \/ SweepPart \/ GuardPart \/ ObserverPart \/ ControllerPart

vars == <<part, logVars, chainVars, sweepVars, guardVars, observerVars, controllerVars>>

Spec == Init /\ [][Next]_vars

=============================================================================
