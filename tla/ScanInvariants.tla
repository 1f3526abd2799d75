---------------------------- MODULE ScanInvariants ----------------------------
(***************************************************************************)
(* The strengthening under which the safety of the scan lifecycle is       *)
(* inductive: what the proofs of ScanProofs carry from step to step.       *)
(***************************************************************************)
EXTENDS ScanSafety

\* A job that may still be delivered has an attempt and a stall left, and only an
\* active job has a lock owner.
JobBounds ==
    \A s \in Scan :
        /\ job[s].state \in {"none", "ready", "active"} =>
               job[s].attempts < MaxAttempts /\ job[s].stalls <= MaxStalled
        /\ job[s].owner # NoWorker => job[s].state = "active"

\* Nothing refers to a scan that was not admitted.
AbsentIsUntouched ==
    \A s \in Scan : ~Created(s) =>
        /\ cap[s] = [state |-> "NONE", stopped |-> FALSE, receipt |-> FALSE,
                     settled |-> FALSE]
        /\ row[s].started = FALSE /\ row[s].claim = FALSE /\ row[s].boundary = FALSE
        /\ job[s].state = "none" /\ sandbox[s] = {} /\ runs[s] = 0
        /\ ~duty[s].submitting /\ ~duty[s].releasing /\ ~duty[s].failing
        /\ \A w \in Worker : cur[w] # s

\* The part that holds whatever happens to locks and delays.
BaseInv == TypeOK /\ JobBounds /\ AbsentIsUntouched
-----------------------------------------------------------------------------
(***************************************************************************)
(* While no two attempts of one scan overlap (Exclusive).  A scan's rows   *)
(* and the attempt that has it in hand are described by their values, so   *)
(* that a step is about one row r, reservation c, set x of containers and  *)
(* number n of provider executions, and about one attempt at step p with   *)
(* locals m.                                                               *)
(***************************************************************************)
\* No attempt passed the billable boundary or started a container.
Unspent(r, n) == ~r.boundary /\ n = 0

Charged == {"COMPLETED", "PARTIAL", "STOPPED_BUDGET"}

ScanFacts(r, c, x, n) ==
    /\ c.state \in Unclaimed \cup {"NONE"} => Unspent(r, n)
    /\ ~r.started => Unspent(r, n)
    /\ n <= 1 /\ (x # {} => n = 1 /\ ~c.stopped)
    /\ c.stopped => /\ r.status \in Terminal
                    /\ c.state \in {"SETTLED", "RELEASED", "REVIEW_REQUIRED"}
    /\ c.settled => c.stopped /\ c.state \in {"SETTLED", "RELEASED"}
    /\ c.receipt <=> c.state = "SETTLED"
    /\ c.receipt => n = 1 /\ \/ r.status = "CANCELLED"
                             \/ r.status \in Charged /\ r.manifest = r.status

Early   == {"resume", "prepare", "admit", "reserve", "run", "execute", "claim",
            "boundary", "launch", "engine"}     \* the engine has not returned
Granted == {"run", "execute", "claim", "boundary", "launch", "defer", "deferClear"}
            \* this attempt saw the reservation unclaimed
Settling == {"releaseStopped", "releaseUnstarted", "ack"}   \* after Confirm

AttemptFacts(w, p, m, r, c, x, n) ==
    /\ ~m.recovering /\ ~m.billable => Unspent(r, n)
    /\ p = "reset" => ~m.recovering /\ ~m.billable
    /\ p \in Granted => n = 0
    /\ p \in {"defer", "deferClear"} => ~r.boundary
    /\ p \in {"execute", "claim", "boundary", "launch"} => r.started
    /\ p \in Early => (m.billable <=> p \in {"launch", "engine"})
    /\ p = "returned" => /\ m.unbilled
                         /\ m.billable => n = 1 /\ ~c.stopped /\ c.state = "RUNNING"
    /\ p \in {"boundary", "launch", "engine"} => c.state = "RUNNING"
    /\ p \in Early => ~m.returned /\ m.unbilled /\ m.disp = "unset"
    /\ p = "engine" => x = {w}
    /\ m.returned => x = {}
    /\ ~m.unbilled => /\ n = 1
                      /\ p \notin Settling => ~c.stopped /\ c.state \in {"RUNNING", "SETTLED"}
    /\ m.disp = "settlement_required" =>
           ~m.unbilled /\ c.state \in {"RUNNING", "SETTLED", "REVIEW_REQUIRED"}
    /\ p = "settleCancel" => r.status = "CANCELLED"
    /\ p = "finish" /\ m.disp = "settlement_required" => r.manifest \in Charged
    /\ p = "commit" => /\ m.disp = "settlement_required"
                       /\ r.status \in Charged /\ r.manifest = r.status

OneAttempt == \A v, w \in Worker : cur[v] = cur[w] /\ cur[v] \in Scan => v = w

FactsOf(s) == ScanFacts(row[s], cap[s], sandbox[s], runs[s])

AttemptOf(w) ==
    AttemptFacts(w, pc[w], mem[w], row[cur[w]], cap[cur[w]], sandbox[cur[w]], runs[cur[w]])

\* The engine's results come from attempts that crossed the billable boundary.
EngineEntered ==
    \A w \in Worker : pc[w] = "returned" /\ cur[w] \in EngineScan => mem[w].billable

ScansSafe    == \A s \in Scan : FactsOf(s)
AttemptsSafe == \A w \in Worker : cur[w] \in Scan => AttemptOf(w)
ExecutionInv == OneAttempt /\ ScansSafe /\ AttemptsSafe
=============================================================================
