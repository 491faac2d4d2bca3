--------------------------- MODULE EnclaveSession ---------------------------
(***************************************************************************)
(* Custody of one released key: class EnclaveSession of                    *)
(* python/src/wcm/custody.py (wipe-on-lapse).                              *)
(*                                                                         *)
(* All session calls are serialized on one event loop, so a synchronous    *)
(* method is one action.  monitor() is a coroutine: one action per stretch *)
(* between two awaits.  The wall clock is the variable now; the optional   *)
(* now= argument of the methods is left out, callers read the clock.       *)
(***************************************************************************)
EXTENDS Integers, FiniteSets

CONSTANTS
    Cadence,        \* attestation cadence, in clock units
    MaxOps,         \* max_operations; 0 stands for None (no ceiling)
    Poll,           \* poll_interval of monitor()
    Decisions,      \* signed renewal decisions the session may be handed
    Horizon,        \* callers act only up to this time (bound)
    MaxReattests,   \* how often reattest() succeeds (bound)
    MaxServed       \* how many operations are authorized (bound)

(***************************************************************************)
(* A renewal decision as apply_renewal reads it.  signed: it verifies      *)
(* against the pinned renewal key; gates: its list of gate results; binds: *)
(* weights, manifest, cadence, evidence, nonce and time source are this    *)
(* session's; evidence: evidence_expires_at is None, the time bound, or    *)
(* does not parse.  renewal_id hashes the whole payload: the record itself *)
(* is the identity.                                                        *)
(***************************************************************************)
Decision ==
    [signed : BOOLEAN, renewed : BOOLEAN, gates : {"complete", "missing", "failed"},
     binds : BOOLEAN, issued : Nat, expires : Nat,
     evidence : {"none", "bounded", "unreadable"}, bound : Nat]

ASSUME CadenceAssumption == Cadence \in Nat \ {0}
ASSUME MaxOpsAssumption  == MaxOps \in Nat
ASSUME PollAssumption    == Poll \in Nat \ {0}
ASSUME BoundsAssumption  == Horizon \in Nat /\ MaxReattests \in Nat /\ MaxServed \in Nat
ASSUME DecisionAssumption == Decisions \subseteq Decision /\ IsFiniteSet(Decisions)
\* The issuer clips expires_at to the evidence bound (kbs.py, verify_for_renewal).
ASSUME IssuerAssumption ==
    \A d \in Decisions : d.evidence = "bounded" => d.expires <= d.bound

VARIABLES
    now,            \* wall clock
    state,          \* _state
    deadline,       \* _deadline
    ops,            \* _ops
    used,           \* _used_renewals
    monitor,        \* where the monitor task stands
    wake,           \* when its sleep ends
    result,         \* what the latest call returned or raised
    stops,          \* ghost: how often on_stop was invoked
    served,         \* ghost: operations authorized over the session's life
    renewals,       \* ghost: windows granted by apply_renewal
    reattests,      \* ghost: windows granted by reattest
    steady,         \* ghost: the wall clock has kept step with the event loop's
    prompt          \* ghost: no time has passed while the monitor was due

lease == <<state, deadline, ops, used>>
task  == <<monitor, wake>>
ghost == <<stops, served, renewals, reattests>>
mode  == <<steady, prompt>>
vars  == <<now, lease, task, result, ghost, mode>>

TimeEnd   == Horizon + Cadence + Poll

\* __init__: the window starts at construction.
Init ==
    /\ now = 0
    /\ state = "holding"
    /\ deadline = Cadence
    /\ ops = 0
    /\ used = {}
    /\ monitor = "off"
    /\ wake = 0
    /\ result = "none"
    /\ stops = 0
    /\ served = 0
    /\ renewals = 0
    /\ reattests = 0
    /\ steady = TRUE
    /\ prompt = TRUE

-----------------------------------------------------------------------------

\* zeroize(): idempotent; authorization ends before the hook runs, and a hook
\* that raises restores nothing (the caller sees its error).
Zeroize ==
    /\ state' = "wiped"
    /\ stops' = IF state = "wiped" THEN stops ELSE stops + 1
    /\ result' \in IF state = "wiped" THEN {"wiped"} ELSE {"wiped", "hook_error"}

\* Fault: the deadline is compared and the wiped state is not.
HoldingByClock == now < deadline

Holding == state = "holding" /\ now < deadline

\* tick() inside every call: custody is over, or this call is what ends it.
Refused ==
    /\ ~Holding
    /\ Zeroize
    /\ UNCHANGED <<now, deadline, ops, used, task, served, renewals, reattests, mode>>

\* The call is let through and changes no lease.
Answered(r) ==
    /\ Holding
    /\ result' = r
    /\ UNCHANGED <<now, lease, task, ghost, mode>>

Called == now <= Horizon

Tick == Called /\ (Refused \/ Answered("ok"))

\* authorize_operation() and use_key(): the wall clock first, then the budget.
\* Fault: one operation too many.
ExhaustedLate == MaxOps # 0 /\ ops > MaxOps

Exhausted == MaxOps # 0 /\ ops >= MaxOps

Serve ==
    /\ Holding
    /\ ~Exhausted
    /\ served < MaxServed
    /\ ops' = ops + 1
    /\ served' = served + 1
    /\ result' = "ok"
    /\ UNCHANGED <<now, state, deadline, used, task, stops, renewals, reattests, mode>>

AuthorizeOperation ==
    Called /\ (Refused \/ (Exhausted /\ Answered("budget")) \/ Serve)

\* reattest(): the compatibility primitive, on the caller's word alone.
Reattest ==
    /\ Called
    /\ \/ Refused
       \/ /\ Holding
          /\ reattests < MaxReattests
          /\ deadline' = now + Cadence
          /\ ops' = 0
          /\ reattests' = reattests + 1
          /\ result' = "ok"
          /\ UNCHANGED <<now, state, used, task, stops, served, renewals, mode>>

\* zeroize() called by the controller.
EndCustody ==
    /\ Called
    /\ Zeroize
    /\ UNCHANGED <<now, deadline, ops, used, task, served, renewals, reattests, mode>>

-----------------------------------------------------------------------------
(* apply_renewal                                                           *)

Verified(d) == d.signed /\ (d.renewed => d.gates = "complete") /\ d.binds
Current(d)  == d.issued <= now /\ now <= d.expires /\ d.issued < d.expires

MinOf(a, b) == IF a <= b THEN a ELSE b
NewDeadline(d) ==
    IF d.evidence = "bounded" THEN MinOf(now + Cadence, d.bound) ELSE now + Cadence

RenewalInvalid(d) ==
    /\ ~Verified(d) \/ ~Current(d) \/ (d.renewed /\ d \in used)
    /\ Answered("invalid")

RenewalDenied(d) ==
    /\ Verified(d) /\ Current(d) /\ ~d.renewed
    /\ Holding
    /\ result' = "denied"
    /\ UNCHANGED <<now, lease, task, ghost, mode>>

\* The identity is recorded before the evidence bound is parsed.
RenewalUnreadable(d) ==
    /\ Verified(d) /\ Current(d) /\ d.renewed /\ d \notin used
    /\ d.evidence = "unreadable"
    /\ Holding
    /\ used' = used \cup {d}
    /\ result' = "invalid"
    /\ UNCHANGED <<now, state, deadline, ops, task, ghost, mode>>

\* Fault: replays are not looked for.
RenewReplayed(d) ==
    /\ Verified(d) /\ Current(d) /\ d.renewed
    /\ d.evidence # "unreadable"
    /\ Holding
    /\ used' = used \cup {d}
    /\ deadline' = NewDeadline(d)
    /\ ops' = 0
    /\ renewals' = renewals + 1
    /\ result' = "ok"
    /\ UNCHANGED <<now, state, task, stops, served, reattests, mode>>

Renew(d) ==
    /\ Verified(d) /\ Current(d) /\ d.renewed /\ d \notin used
    /\ d.evidence # "unreadable"
    /\ Holding
    /\ used' = used \cup {d}
    /\ deadline' = NewDeadline(d)
    /\ ops' = 0
    /\ renewals' = renewals + 1
    /\ result' = "ok"
    /\ UNCHANGED <<now, state, task, stops, served, reattests, mode>>

ApplyRenewal(d) ==
    /\ Called
    /\ \/ Refused
       \/ RenewalInvalid(d)
       \/ RenewalDenied(d)
       \/ RenewalUnreadable(d)
       \/ Renew(d)

-----------------------------------------------------------------------------
(* monitor                                                                 *)

\* The controller creates the task; nothing of the coroutine has run yet.
MonitorCreate ==
    /\ Called
    /\ monitor = "off"
    /\ monitor' = "created"
    /\ UNCHANGED <<now, lease, wake, result, ghost, mode>>

\* Fault: the deadline is checked once and not in a loop.
MonitorDueOnce == monitor = "created"

\* The sleep runs on the event loop's clock: once the wall clock was stepped, the
\* two say nothing about each other.
MonitorDue == monitor = "created" \/ (monitor = "asleep" /\ (steady => now >= wake))

\* Fault: the monitor sleeps out the window it saw.
SleepToDeadline == deadline

\* asyncio.sleep(min(poll_interval, self.remaining_seconds()))
SleepUntil == now + MinOf(Poll, deadline - now)

\* One turn of the loop: tick, then sleep; when custody is over the finally
\* clause finds the session wiped already.
MonitorSleep ==
    /\ MonitorDue
    /\ Holding
    /\ monitor' = "asleep"
    /\ wake' = SleepUntil
    /\ UNCHANGED <<now, lease, result, ghost, mode>>

MonitorEnd ==
    /\ MonitorDue
    /\ ~Holding
    /\ Zeroize
    /\ monitor' = "done"
    /\ UNCHANGED <<now, deadline, ops, used, wake, served, renewals, reattests, mode>>

\* Fault: no finally clause around the loop.
MonitorCancelQuietly ==
    /\ Called
    /\ monitor = "asleep"
    /\ monitor' = "done"
    /\ UNCHANGED <<now, lease, wake, result, ghost, mode>>

\* Cancelling the sleeping task (or a clock that raises) runs the finally clause.
MonitorCancel ==
    /\ Called
    /\ monitor = "asleep"
    /\ Zeroize
    /\ monitor' = "done"
    /\ UNCHANGED <<now, deadline, ops, used, wake, served, renewals, reattests, mode>>

\* Cancelling a task that has not started never enters the coroutine's try.
MonitorAbandon ==
    /\ Called
    /\ monitor = "created"
    /\ monitor' = "abandoned"
    /\ UNCHANGED <<now, lease, wake, result, ghost, mode>>

MonitorStep == MonitorSleep \/ MonitorEnd

\* The wall clock and the event loop's clock advance together; an event loop that
\* is late lets time pass while the monitor is due.
ClockTicks ==
    /\ now < TimeEnd
    /\ now' = now + 1
    /\ prompt' = (prompt /\ ~MonitorDue)
    /\ UNCHANGED <<lease, task, result, ghost, steady>>

\* The wall clock is stepped, forward or back.
ClockSteps ==
    /\ \E t \in 0..TimeEnd \ {now} : now' = t
    /\ steady' = FALSE
    /\ UNCHANGED <<lease, task, result, ghost, prompt>>

Next ==
    \/ Tick
    \/ AuthorizeOperation
    \/ Reattest
    \/ EndCustody
    \/ \E d \in Decisions : ApplyRenewal(d)
    \/ MonitorCreate
    \/ MonitorStep
    \/ MonitorCancel
    \/ MonitorAbandon
    \/ ClockTicks
    \/ ClockSteps

Spec == Init /\ [][Next]_vars

\* The event loop runs a due task eventually, and time passes.
FairSpec == Spec /\ WF_vars(MonitorStep) /\ WF_vars(ClockTicks)

-----------------------------------------------------------------------------

TypeOK ==
    /\ now \in Nat
    /\ state \in {"holding", "wiped"}
    /\ deadline \in Nat
    /\ ops \in Nat
    /\ used \in SUBSET Decisions
    /\ monitor \in {"off", "created", "asleep", "done", "abandoned"}
    /\ wake \in Nat
    /\ stops \in Nat /\ served \in Nat /\ renewals \in Nat /\ reattests \in Nat
    /\ steady \in BOOLEAN /\ prompt \in BOOLEAN

\* The operation ceiling over the whole session: however calls, denials, refused
\* renewals and lapses interleave, authorize_operation lets through at most
\* max_operations per window that was granted.
OpBudget == MaxOps # 0 => served <= MaxOps * (1 + renewals + reattests)

\* A signed decision buys one window: replaying it, or presenting it again after
\* its evidence bound failed to parse, grants nothing.
OneWindowPerDecision == renewals <= Cardinality(used)

\* A monitor that ran even one turn does not end while the key is held, whether
\* it saw the lapse, found custody already over, or was cancelled; and by then the
\* teardown adapter has been called once, by whichever of the calls, the monitor's
\* turn or its finally clause came first.
MonitorEndsCustody == monitor = "done" => state = "wiped" /\ stops = 1

\* A key never comes back, whatever the clock does: after the wipe nothing is
\* authorized and no window is granted.
NoServiceAfterWipe ==
    [][state = "wiped" => state' = "wiped" /\ UNCHANGED <<served, renewals, reattests>>]_vars

\* Wiping while idle: under a prompt event loop and a steady clock a monitored
\* session holds its key at most one poll interval past its deadline, also when a
\* renewal moved the deadline closer while the monitor slept.
LapseBound ==
    steady /\ prompt /\ monitor = "asleep" /\ state = "holding" => now <= deadline + Poll

(* The inductive invariants behind these.                                  *)

\* What the running window has used up is in ops; the earlier ones are full at most.
BudgetInv ==
    MaxOps # 0 => ops <= MaxOps /\ served <= ops + MaxOps * (renewals + reattests)

\* The hook ran if and only if the key is gone, and a monitor that ended saw to it.
WipeInv ==
    /\ stops = (IF state = "wiped" THEN 1 ELSE 0)
    /\ monitor = "done" => state = "wiped"

\* While the clocks agree, the monitor wakes within a poll of now and of the deadline,
\* also of a deadline that a renewal has moved; a prompt one is not overdue.
SleepInv ==
    steady /\ monitor = "asleep" =>
        /\ wake <= now + Poll
        /\ wake <= deadline + Poll
        /\ prompt => now <= wake

\* A monitored session whose window closed is wiped eventually, also when no call
\* is made and however late the event loop is (unless the wall clock is stepped,
\* which may put the deadline ahead again).
LapseIsNoticed ==
    (monitor = "asleep" /\ now >= deadline) ~> (state = "wiped" \/ ~steady)

=============================================================================
