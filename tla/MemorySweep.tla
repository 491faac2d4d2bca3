---------------------------- MODULE MemorySweep ----------------------------
(***************************************************************************)
(* The full-range memory sweep of python/src/wcm/memory_sweep.py over a    *)
(* range whose pages the platform may map onto the same physical page, and *)
(* the verifier of its signed transcript.                                  *)
(*                                                                         *)
(* The value of page i is i: _page_value gives every page its own secret   *)
(* pseudorandom value. A page never written holds Blank.                   *)
(***************************************************************************)
EXTENDS Integers, Sequences

CONSTANT MaxPages   \* bound on the pages of a range

ASSUME SweepAssumption == MaxPages \in Nat \ {0}

VARIABLES
    count,      \* page_count
    backing,    \* the physical page behind each page: the platform's mapping
    cells,      \* the physical pages
    phase,      \* how far the sweep is
    overwritten,  \* ghost: another writer changed a page during the sweep
    result,     \* the signed fingerprint
    confirmed     \* what the verifier said of each transcript it was shown

sweepVars == <<count, backing, cells, phase, overwritten, result, confirmed>>

Blank == -1

-----------------------------------------------------------------------------
(* _order                                                                  *)

Divides(d, n) == n % d = 0
Coprime(a, b) == \A d \in 2 .. b : ~(Divides(d, a) /\ Divides(d, b))

OrOne(n) == IF n = 0 THEN 1 ELSE n

\* Fault: the step is used as it comes, also when it shares a factor with the count.
StepAsDrawn(n, drawn) == OrOne(drawn % n)

\* The first step from the drawn one upwards, around the range, coprime to the count.
Step(n, drawn) ==
    LET step[tries \in 0 .. n] ==
            IF tries = 0 THEN OrOne(drawn % n)
            ELSE IF Coprime(step[tries - 1], n) THEN step[tries - 1]
                 ELSE OrOne((step[tries - 1] + 1) % n)
    IN  step[n]

\* The order of n pages from drawn material <<start, step>>.
Order(n, drawn) ==
    [offset \in 1 .. n |-> ((drawn[1] % n) + (offset - 1) * Step(n, drawn[2])) % n]

-----------------------------------------------------------------------------
SweepInit ==
    /\ count \in 1 .. MaxPages
    /\ backing \in [0 .. (count - 1) -> 0 .. (count - 1)]
    /\ cells = [p \in 0 .. (count - 1) |-> Blank]
    /\ phase = "write"
    /\ overwritten = FALSE
    /\ result = <<>>
    /\ confirmed = [shown \in {"signed", "tampered", "other-key"} |-> FALSE]

\* What the secret and the nonce may yield for one of the two orders.
Drawn == (0 .. (count - 1)) \X (0 .. (count - 1))

\* Memory after the pages were written in this order: each physical page holds the value
\* of the page that was written to it last.
Written(order) ==
    [p \in DOMAIN cells |->
        LET hits == {k \in DOMAIN order : backing[order[k]] = p}
        IN  IF hits = {} THEN cells[p] ELSE order[CHOOSE k \in hits : \A j \in hits : j <= k]]

\* The first loop of run_memory_sweep.
WriteAll ==
    /\ phase = "write"
    /\ phase' = "read"
    /\ \E drawn \in Drawn : cells' = Written(Order(count, drawn))
    /\ UNCHANGED <<count, backing, overwritten, result, confirmed>>

\* Something else in the guest writes to a page between the two loops.
OverwritePage ==
    /\ phase = "read"
    /\ ~overwritten
    /\ overwritten' = TRUE
    /\ \E p \in DOMAIN cells : cells' = [cells EXCEPT ![p] = Blank]
    /\ UNCHANGED <<count, backing, phase, result, confirmed>>

\* The second loop, and the signed transcript.
ReadAll ==
    /\ phase = "read"
    /\ phase' = "signed"
    /\ \E drawn \in Drawn :
         LET order  == Order(count, drawn)
             actual == [k \in DOMAIN order |-> cells[backing[order[k]]]]
         IN  result' = <<[length   |-> count,
                          written  |-> count,
                          read     |-> count,
                          aliasing |-> \E k \in DOMAIN order : actual[k] # order[k],
                          readback |-> [k \in DOMAIN order |-> <<order[k], actual[k]>>],
                          key      |-> "sweep"]>>
    /\ UNCHANGED <<count, backing, cells, overwritten, confirmed>>

\* verify_memory_sweep of transcript r when the signature is over s (page size 1).
VerifySweep(r, s, pinned) ==
    /\ r.length > 0
    /\ r.written = r.length
    /\ r.read = r.written
    /\ r.key = pinned
    /\ r = s

\* capture_memory_sweep: the transcript, a changed one, and one for another key.
VerifyAll ==
    LET r == result[1]
    IN  /\ phase = "signed"
        /\ phase' = "done"
        /\ confirmed' = [confirmed EXCEPT
              !["signed"]    = VerifySweep(r, r, "sweep"),
              !["tampered"]  = VerifySweep([r EXCEPT !.readback = <<>>], r, "sweep"),
              !["other-key"] = VerifySweep(r, r, "other")]
        /\ UNCHANGED <<count, backing, cells, overwritten, result>>

SweepNext == WriteAll \/ OverwritePage \/ ReadAll \/ VerifyAll

SweepSpec == SweepInit /\ [][SweepNext]_sweepVars

-----------------------------------------------------------------------------
\* For every number of pages, every pair of orders and every mapping: an undisturbed
\* sweep reports aliasing exactly when two pages share a physical page, its transcript
\* has read every page, and only that transcript under the pinned key verifies
\* (run_memory_sweep, _order, verify_memory_sweep).
SweepFindsAliases ==
    phase = "done" =>
        LET injective == \A i, j \in DOMAIN backing : backing[i] = backing[j] => i = j
        IN  /\ ~overwritten => result[1].aliasing = ~injective
            /\ ~injective => result[1].aliasing
            /\ {result[1].readback[k][1] : k \in 1 .. count} = 0 .. (count - 1)
            /\ confirmed = [shown \in DOMAIN confirmed |-> shown = "signed"]

(* The inductive invariant behind SweepFindsAliases.                       *)

Pages == 0 .. (count - 1)

\* A physical page holds the value of a page mapped onto it, unless it was never written or
\* was overwritten.
CellsInv ==
    /\ count \in Nat \ {0} /\ backing \in [Pages -> Pages] /\ cells \in [Pages -> Int]
    /\ overwritten \in BOOLEAN
    /\ phase \in {"write", "read", "signed", "done"}
    /\ phase # "write" =>
         \A i \in Pages : LET c == cells[backing[i]]
                         IN  \/ c \in Pages /\ backing[c] = backing[i]
                             \/ c = Blank /\ overwritten

Differs == \E i \in Pages : cells[backing[i]] # i

\* A transcript over all pages, in some order.
Complete(r) ==
    /\ r.length = count /\ r.written = count /\ r.read = count /\ r.key = "sweep"
    /\ r.aliasing = Differs
    /\ "readback" \in DOMAIN r /\ DOMAIN r.readback = 1 .. count
    /\ \A k \in 1 .. count : r.readback[k][1] \in Pages
    /\ \A i \in Pages : \E k \in 1 .. count : r.readback[k][1] = i

TranscriptInv == phase \in {"signed", "done"} => Complete(result[1])

VerdictInv ==
    /\ confirmed \in [{"signed", "tampered", "other-key"} -> BOOLEAN]
    /\ phase = "done" => confirmed["signed"] /\ ~confirmed["tampered"] /\ ~confirmed["other-key"]

=============================================================================
