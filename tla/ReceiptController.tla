------------------------- MODULE ReceiptController -------------------------
(***************************************************************************)
(* Receipt-gated model serving: the model host and the stateless planner   *)
(* of papers/receipt-gated-model-serving/experiments/reference/            *)
(* receipt_gate.py, and the durable controller of controller_experiment.py *)
(* that applies the planner's manifests to a cluster API.                  *)
(*                                                                         *)
(* One hosting session. Every controller action runs in a process of its   *)
(* own; processes run concurrently, each call to the API or the ledger is  *)
(* a step, and a process may die between any two of them.                  *)
(***************************************************************************)
EXTENDS Integers, FiniteSets

CONSTANTS
    Processes,     \* controller processes that may run at once
    MaxReceipts,   \* bound on the receipts the host signs
    MaxFaults      \* bound on crashes, failed creations and out-of-band changes

VARIABLES
    host,          \* state of the model host
    receipts,      \* every receipt in circulation
    last,          \* the host's previous receipt, <<>> before the first
    row,           \* the session's row of the ledger
    service,       \* the Service object, or none
    pod,           \* whether the Pod exists
    proc,          \* what each process is doing
    faults,        \* how often the environment interfered
    settled        \* ghost: the tombstone is written and a process that ran alone
                   \* from then on has removed the Service; nobody else touched it

controllerVars == <<host, receipts, last, row, service, pod, proc, faults, settled>>

None == [present |-> FALSE]
Idle == [at |-> "idle"]

-----------------------------------------------------------------------------
(* Receipts                                                                *)

\* A receipt as _emit builds it: previous holds the receipt that the code holds the
\* hash of; key and session tell authentic receipts from others.
Receipt(n, prev, event, state, allowed, reason) ==
    [sequence |-> n, previous |-> prev, event |-> event, state |-> state,
     decision |-> IF allowed THEN "allow" ELSE "deny", reason |-> reason,
     key |-> "pinned", session |-> "own"]

\* The receipts of other hosts that reach this controller: a complete admission under
\* a key that is not the pinned one, and one of another session.
Foreign ==
    LET adm == Receipt(1, <<>>, "admission", "serving", TRUE, "admitted")
    IN  {[adm EXCEPT !.key = "other"], [adm EXCEPT !.session = "other"]}

\* verify_receipt; shapes are valid by construction.
VerifyReceipt(r) == r.key = "pinned" /\ r.session = "own"

\* Fault: any authentic allow of the host is taken for its admission.
AnyAllow(r) == VerifyReceipt(r) /\ r.decision = "allow"

\* AdmissionGatedPlanner.admission_failures finds none.
Admits(r) ==
    /\ VerifyReceipt(r)
    /\ r.previous = <<>>
    /\ r.event = "admission"
    /\ r.sequence = 1
    /\ r.state = "serving"
    /\ r.decision = "allow"
    /\ r.reason = "admitted"

\* What Controller.revoke requires: any authentic terminal record of the session.
Revokes(r) ==
    /\ VerifyReceipt(r)
    /\ r.event = "lifecycle"
    /\ r.decision = "deny"
    /\ r.state \in {"revoked", "failed", "stopped", "expired"}

\* service_manifest: the Service routes to the session's Pod and names its admission.
ServiceManifest(r) == [present |-> TRUE, selector |-> "own", admission |-> <<r>>]

-----------------------------------------------------------------------------
(* ModelHost                                                               *)

ControllerInit ==
    /\ host = "locked"
    /\ receipts = Foreign
    /\ last = <<>>
    /\ row = [state |-> "none", admission |-> <<>>]
    /\ service = None
    /\ pod = FALSE
    /\ proc = [p \in Processes |-> Idle]
    /\ faults = 0
    /\ settled = FALSE

Emitted == IF last = <<>> THEN 0 ELSE last[1].sequence

Emit(event, state, allowed, reason) ==
    LET r == Receipt(Emitted + 1, last, event, state, allowed, reason)
    IN  /\ Emitted < MaxReceipts
        /\ receipts' = receipts \cup {r}
        /\ last' = <<r>>
        /\ host' = state
        /\ UNCHANGED <<row, service, pod, proc, faults, settled>>

\* start: the bindings differ, the key is not released, or the host serves.
HostStart ==
    /\ host = "locked"
    /\ \/ Emit("admission", "stopped", FALSE, "binding-mismatch")
       \/ Emit("admission", "stopped", FALSE, "key-release-refused")
       \/ Emit("admission", "serving", TRUE, "admitted")

HostInference ==
    IF host = "serving" THEN Emit("inference", host, TRUE, "served")
    ELSE Emit("inference", host, FALSE, "host-not-serving")

HostRevoke == Emit("lifecycle", "revoked", FALSE, "policy-revoked")

-----------------------------------------------------------------------------
(* Controller                                                              *)

Goto(p, step) == proc' = [proc EXCEPT ![p] = step]

Alone(p) == \A q \in Processes \ {p} : proc[q] = Idle

\* admit: service_manifest refuses the receipt, or the ledger is asked next.
BeginAdmit(p, r) ==
    /\ proc[p] = Idle
    /\ r.session = "own"       \* self.planners has no other key
    /\ Admits(r)
    /\ Goto(p, [at |-> "ledger", r |-> r])
    /\ UNCHANGED <<host, receipts, last, row, service, pod, faults, settled>>

\* Fault: the transaction records the admission without looking at the state.
AdmitBlind(p) ==
    /\ proc[p].at = "ledger"
    /\ row' = IF row.state = "none" THEN [state |-> "admitted", admission |-> <<proc[p].r>>]
              ELSE row
    /\ Goto(p, [at |-> "pod", r |-> proc[p].r])
    /\ UNCHANGED <<host, receipts, last, service, pod, faults, settled>>

\* The ledger transaction of admit: a revoked session is refused.
AdmitLedger(p) ==
    /\ proc[p].at = "ledger"
    /\ IF row.state = "revoked"
       THEN Goto(p, Idle) /\ UNCHANGED row
       ELSE /\ row' = IF row.state = "none"
                      THEN [state |-> "admitted", admission |-> <<proc[p].r>>] ELSE row
            /\ Goto(p, [at |-> "pod", r |-> proc[p].r])
    /\ UNCHANGED <<host, receipts, last, service, pod, faults, settled>>

\* _apply: create the Pod (an existing one is fine) ...
ApplyPod(p) ==
    /\ proc[p].at = "pod"
    /\ pod' = TRUE
    /\ Goto(p, [proc[p] EXCEPT !.at = "service"])
    /\ UNCHANGED <<host, receipts, last, row, service, faults, settled>>

\* ... then the Service.
ApplyService(p) ==
    /\ proc[p].at = "service"
    /\ IF service.present
       THEN UNCHANGED service /\ Goto(p, [proc[p] EXCEPT !.at = "compare"])
       ELSE service' = ServiceManifest(proc[p].r) /\ Goto(p, Idle)
    /\ UNCHANGED <<host, receipts, last, row, pod, faults, settled>>

\* On a conflict the live one is read, and replaced if it differs or is gone by now.
CompareService(p) ==
    /\ proc[p].at = "compare"
    /\ Goto(p, IF service = ServiceManifest(proc[p].r) THEN Idle
               ELSE [proc[p] EXCEPT !.at = "replace"])
    /\ UNCHANGED <<host, receipts, last, row, service, pod, faults, settled>>

\* The PUT of a Service that is gone is refused with 404.
ReplaceService(p) ==
    /\ proc[p].at = "replace"
    /\ service' = IF service.present THEN ServiceManifest(proc[p].r) ELSE service
    /\ Goto(p, Idle)
    /\ UNCHANGED <<host, receipts, last, row, pod, faults, settled>>

\* revoke: the record is verified, then the tombstone is written, keeping the admission.
BeginRevoke(p, r) ==
    /\ proc[p] = Idle
    /\ Revokes(r)
    /\ row' = [row EXCEPT !.state = "revoked"]
    /\ Goto(p, [at |-> "delete", alone |-> Alone(p)])
    /\ UNCHANGED <<host, receipts, last, service, pod, faults, settled>>

\* The DELETE of revoke, or of reconcile for a tombstoned session.
DeleteService(p) ==
    /\ proc[p].at = "delete"
    /\ service' = None
    /\ Goto(p, Idle)
    /\ settled' = (settled \/ proc[p].alone)
    /\ UNCHANGED <<host, receipts, last, row, pod, faults>>

\* reconcile reads the state, gets the live Service ...
BeginReconcile(p) ==
    /\ proc[p] = Idle
    /\ row.state # "none"
    /\ Goto(p, [at |-> "get", state |-> row.state, alone |-> Alone(p)])
    /\ UNCHANGED <<host, receipts, last, row, service, pod, faults, settled>>

\* ... and deletes it, or rebuilds it from the admission that the ledger holds.
ReconcileGet(p) ==
    /\ proc[p].at = "get"
    /\ IF proc[p].state = "revoked"
       THEN Goto(p, IF service.present THEN [at |-> "delete", alone |-> proc[p].alone] ELSE Idle)
       ELSE LET r == row.admission[1]
            IN  Goto(p, IF service = ServiceManifest(r) THEN Idle
                        ELSE [at |-> IF service.present THEN "clear" ELSE "pod", r |-> r])
    /\ UNCHANGED <<host, receipts, last, row, service, pod, faults, settled>>

\* A drifted Service is deleted before it is created anew.
ReconcileClear(p) ==
    /\ proc[p].at = "clear"
    /\ service' = None
    /\ Goto(p, [proc[p] EXCEPT !.at = "pod"])
    /\ UNCHANGED <<host, receipts, last, row, pod, faults, settled>>

-----------------------------------------------------------------------------
(* The environment                                                         *)

Interfere ==
    /\ faults < MaxFaults
    /\ faults' = faults + 1

\* A process dies, or an API call fails and the process gives up.
ProcessDies(p) ==
    /\ Interfere
    /\ proc[p] # Idle
    /\ Goto(p, Idle)
    /\ UNCHANGED <<host, receipts, last, row, service, pod, settled>>

\* Somebody else changes, creates or deletes the Service.
OutOfBand ==
    /\ Interfere
    /\ service' \in {None, [present |-> TRUE, selector |-> "other", admission |-> <<>>]}
                    \cup {ServiceManifest(r) : r \in {q \in receipts : Admits(q)}}
    /\ service' # service
    /\ settled' = FALSE
    /\ UNCHANGED <<host, receipts, last, row, pod, proc>>

ControllerNext ==
    \/ HostStart \/ HostInference \/ HostRevoke
    \/ OutOfBand
    \/ \E p \in Processes :
         \/ \E r \in receipts : BeginAdmit(p, r) \/ BeginRevoke(p, r)
         \/ AdmitLedger(p) \/ ApplyPod(p) \/ ApplyService(p) \/ CompareService(p) \/ ReplaceService(p)
         \/ DeleteService(p)
         \/ BeginReconcile(p) \/ ReconcileGet(p) \/ ReconcileClear(p)
         \/ ProcessDies(p)

ControllerSpec == ControllerInit /\ [][ControllerNext]_controllerVars

-----------------------------------------------------------------------------
\* The admission a Service names is one its host really gave: bindings matched and the
\* key was released (admission_failures).
RoutedWasAdmitted ==
    service.present /\ service.admission # <<>> =>
        /\ service.admission[1] \in receipts
        /\ service.admission[1].event = "admission"
        /\ service.admission[1].reason = "admitted"

\* Once a revocation is recorded and a process that met no other has removed the
\* Service, no replayed admission, restarted process, repair or interleaving of any of
\* them routes to the session again, and before that the Service routes only on a real
\* admission (Controller.admit, revoke, reconcile). A process already past its ledger
\* check when the tombstone is written still may route: the Service is then removed by the
\* next reconcile.
RevokedStaysUnrouted == (settled => ~service.present) /\ RoutedWasAdmitted

-----------------------------------------------------------------------------
(* The inductive form of RevokedStaysUnrouted                              *)

\* A process at a step of its own: what admit and the repair carry along is an admission
\* in circulation, and a reconcile that saw the session admitted finds its admission.
Admissions == {r \in receipts : Admits(r)}
Applying   == {"ledger", "pod", "service", "compare", "replace", "clear"}
States     == {"none", "admitted", "revoked"}

Working(step) ==
    \/ step = Idle
    \/ step \in [at : Applying, r : Admissions]
    \/ step \in [at : {"delete"}, alone : BOOLEAN]
    \/ step \in [at : {"get"}, state : States \ {"none"}, alone : BOOLEAN]

LedgerInv ==
    /\ row \in [state : States, admission : {<<>>} \cup {<<r>> : r \in Admissions}]
    /\ row.state = "admitted" => row.admission # <<>>
    /\ proc \in [Processes -> {proc[p] : p \in Processes}]
    /\ \A p \in Processes :
         /\ Working(proc[p])
         /\ proc[p].at = "get" /\ proc[p].state = "admitted" => row.admission # <<>>

ServiceInv ==
    \/ service = None
    \/ service \in [present : {TRUE}, selector : {"own", "other"},
                    admission : {<<>>} \cup {<<r>> : r \in Admissions}]

\* A process past the ledger check, or about to repair, may create the Service.
MayRoute(step) ==
    \/ step.at \in Applying \ {"ledger"}
    \/ step.at = "get" /\ step.state = "admitted"

\* A process that removes a tombstoned session's Service and met no other.
RemovesAlone(step) ==
    \/ step.at = "delete" /\ step.alone
    \/ step.at = "get" /\ step.state = "revoked" /\ step.alone

QuietInv ==
    /\ settled \in BOOLEAN
    /\ \A p \in Processes :
         /\ proc[p].at = "delete" => row.state = "revoked"
         /\ proc[p].at = "get" /\ proc[p].state = "revoked" => row.state = "revoked"
    /\ settled \/ (\E p \in Processes : RemovesAlone(proc[p])) =>
         row.state = "revoked" /\ \A p \in Processes : ~MayRoute(proc[p])
    /\ settled => service = None

=============================================================================
