--------------------------- MODULE RuntimeRecords ---------------------------
(***************************************************************************)
(* The signed runtime records of python/src/wcm/runtime_records.py: a      *)
(* controller takes a lease to its end and signs a record of each event,   *)
(* as python/tools/capture_protected_runtime.py does; an untrusted store   *)
(* keeps the records and offers chains of them to a verifier.              *)
(*                                                                         *)
(* A record holds its predecessor where the code holds its hash, lease     *)
(* stands for the identity (weights, manifest, lease), and a record in     *)
(* signed carries a valid signature of the pinned key.                     *)
(***************************************************************************)
EXTENDS Integers, Sequences, SequencesExt

CONSTANTS
    Leases,       \* identities a controller may run under
    MaxRenewals,  \* bound on the renewals of one process
    MaxProcesses  \* bound on how often the controller is started

VARIABLES
    process,      \* number of the running controller process; its clock reading
    records,      \* the list of capture_custody_chain
    lease,        \* the lease of the running process
    wiped,        \* processes whose session key has been zeroized
    signed,       \* every record signed so far: what the store has
    accepted      \* the chain the verifier accepted as terminal

chainVars == <<process, records, lease, wiped, signed, accepted>>

Boundaries == {"lapse_detected", "revocation_detected"}
Terminal   == <<"wipe_requested", "wipe_completed", "process_terminated">>

-----------------------------------------------------------------------------
\* What record_hash identifies; None where there is no previous record.
HashOf(previous) == previous

\* sign_runtime_record, with the sequence and previous that record() passes. The
\* requirements on them hold by construction: sequence = len(records).
SignRuntimeRecord(list, event, l, at) ==
    [sequence |-> Len(list), event |-> event, lease |-> l, at |-> at,
     previous |-> HashOf(IF list = <<>> THEN <<>> ELSE <<Last(list)>>)]

\* Fault: the hash of the previous record is not compared.
LinkedBySequence(chain) ==
    /\ chain \in Seq(signed)
    /\ \A i \in DOMAIN chain :
         /\ chain[i].sequence = i - 1
         /\ chain[i].lease = chain[1].lease

\* The loop of verify_runtime_record_chain: every signature verifies, and every record
\* is the next of its chain.
Linked(chain) ==
    /\ chain \in Seq(signed)
    /\ \A i \in DOMAIN chain :
         /\ chain[i].sequence = i - 1
         /\ chain[i].lease = chain[1].lease
         /\ chain[i].previous = HashOf(IF i = 1 THEN <<>> ELSE <<chain[i - 1]>>)

\* Its checks of the terminal sequence.
EndsServing(chain) ==
    LET events   == [i \in DOMAIN chain |-> chain[i].event]
        boundary == SelectInSeq(events, LAMBDA e : e \in Boundaries)
    IN  /\ events[1] = "lease_started"
        /\ boundary # 0
        /\ boundary = SelectLastInSeq(events, LAMBDA e : e \in Boundaries)
        /\ SubSeq(events, boundary + 1, Len(events)) = Terminal
        /\ \A i \in 2 .. (boundary - 1) : events[i] = "renewal_succeeded"

VerifyRuntimeRecordChain(chain, terminal) ==
    /\ chain # <<>>
    /\ Linked(chain)
    /\ terminal => EndsServing(chain)

-----------------------------------------------------------------------------
ChainInit ==
    /\ process = 1
    /\ records = <<>>
    /\ lease \in Leases
    /\ wiped = {}
    /\ signed = {}
    /\ accepted = <<>>

\* record() of capture_custody_chain.
Record(event) ==
    LET r == SignRuntimeRecord(records, event, lease, process)
    IN  records' = Append(records, r) /\ signed' = signed \cup {r}

LastEvent == IF records = <<>> THEN "none" ELSE Last(records).event

StartLease ==
    /\ records = <<>>
    /\ Record("lease_started")
    /\ UNCHANGED <<process, lease, wiped, accepted>>

\* A renewal within the cadence; the tool's lease lapses without one.
RenewLease ==
    /\ LastEvent \in {"lease_started", "renewal_succeeded"}
    /\ Len(records) <= MaxRenewals
    /\ Record("renewal_succeeded")
    /\ UNCHANGED <<process, lease, wiped, accepted>>

\* tick finds the cadence elapsed, or a revocation is seen: the session wipes itself.
DetectBoundary ==
    /\ LastEvent \in {"lease_started", "renewal_succeeded"}
    /\ \E event \in Boundaries : Record(event)
    /\ wiped' = wiped \cup {process}
    /\ UNCHANGED <<process, lease, accepted>>

RequestWipe ==
    /\ LastEvent \in Boundaries
    /\ Record("wipe_requested")
    /\ UNCHANGED <<process, lease, wiped, accepted>>

\* zeroize, then the record of it.
CompleteWipe ==
    /\ LastEvent = "wipe_requested"
    /\ wiped' = wiped \cup {process}
    /\ Record("wipe_completed")
    /\ UNCHANGED <<process, lease, accepted>>

Terminate ==
    /\ LastEvent = "wipe_completed"
    /\ Record("process_terminated")
    /\ UNCHANGED <<process, lease, wiped, accepted>>

\* The process dies at any point and another one is started, with the same key, for
\* the same or another lease. The records list lives in memory only.
RestartController ==
    /\ process < MaxProcesses
    /\ process' = process + 1
    /\ records' = <<>>
    /\ lease' \in Leases
    /\ UNCHANGED <<wiped, signed, accepted>>

\* What the store may offer: at each place a record signed for that place, of any
\* lease and process, and the chains left by dropping a record.
Offers ==
    LET at(n)    == {r \in signed : r.sequence = n}
        length   == MaxRenewals + 5
        chains[n \in 0 .. length] ==
            IF n = 0 THEN {<<>>}
            ELSE {Append(c, r) : c \in {d \in chains[n - 1] : Len(d) = n - 1}, r \in at(n - 1)}
        full     == UNION {chains[n] : n \in 1 .. length}
    IN  full \cup {Tail(c) : c \in full} \cup {RemoveAt(c, 2) : c \in {d \in full : Len(d) > 1}}

AcceptChain ==
    /\ accepted = <<>>
    /\ \E chain \in Offers :
         /\ VerifyRuntimeRecordChain(chain, TRUE)
         /\ accepted' = chain
    /\ UNCHANGED <<process, records, lease, wiped, signed>>

ChainNext ==
    \/ StartLease \/ RenewLease \/ DetectBoundary
    \/ RequestWipe \/ CompleteWipe \/ Terminate
    \/ RestartController
    \/ AcceptChain

ChainSpec == ChainInit /\ [][ChainNext]_chainVars

-----------------------------------------------------------------------------
\* A chain accepted as terminal is the record of one process from start to end, and
\* that process had its key wiped: neither a restarted controller nor a store that
\* mixes, drops and reorders records can make one out of pieces
\* (verify_runtime_record_chain).
OneProcessEnded ==
    \A i \in DOMAIN accepted :
        /\ accepted[i].at = accepted[1].at
        /\ accepted[1].at \in wiped

-----------------------------------------------------------------------------
(* The inductive form of OneProcessEnded                                   *)

\* The running process has signed every record of its list.
ListInv ==
    /\ records \in Seq(signed)
    /\ \A i \in DOMAIN records : records[i].at = process

\* A record's predecessor is one of its own process, and no process that found its lease
\* at an end still holds the key.
SignedInv ==
    \A r \in signed :
        /\ r.previous = <<>> \/ \E q \in signed : r.previous = <<q>> /\ q.at = r.at
        /\ r.event \in Boundaries => r.at \in wiped

=============================================================================
