--------------------------- MODULE ExecutionProofs ---------------------------
(***************************************************************************)
(* Theorems about paid execution: a container is covered by its user's     *)
(* slot, paid work is never replayed, what is settled stays settled, and   *)
(* the charge is for what was promised.  They hold while no two attempts   *)
(* of one scan overlap (Exclusive); ExecutionInv is the invariant.         *)
(***************************************************************************)
EXTENDS ScanProofs

\* A write to the scan row that is no reset: it keeps the boundary event, the
\* start, a terminal status and a sealed manifest.
RowStep(r, q) ==
    /\ q.boundary = r.boundary /\ (r.started => q.started)
    /\ r.status \in Terminal => q.status = r.status
    /\ r.manifest # "NONE" => q.manifest = r.manifest

LEMMA RowKeepsScan ==
    ASSUME NEW r, NEW q, NEW c, NEW x, NEW n, ScanFacts(r, c, x, n), RowStep(r, q)
    PROVE  ScanFacts(q, c, x, n)
BY DEF ScanFacts, RowStep, Unspent, Charged, Terminal

LEMMA RowKeepsAttempt ==
    ASSUME NEW w, NEW p, NEW m, NEW r, NEW q, NEW c, NEW x, NEW n,
           AttemptFacts(w, p, m, r, c, x, n), RowStep(r, q)
    PROVE  AttemptFacts(w, p, m, q, c, x, n)
BY DEF AttemptFacts, RowStep, Unspent, Charged, Terminal

-----------------------------------------------------------------------------
(***************************************************************************)
(* From one scan and one attempt to all of them                            *)
(***************************************************************************)
\* A step outside the attempts: the facts of the scan it writes suffice.
LEMMA OutsideSafe ==
    ASSUME TypeOK, ExecutionInv, NEW t \in Scan, Elsewhere(t), UNCHANGED <<pc, cur, mem>>,
           FactsOf(t)', \A w \in Worker : cur[w] = t => AttemptOf(w)'
    PROVE  ExecutionInv'
<1>1. OneAttempt'
  BY DEF ExecutionInv, OneAttempt
<1>2. ASSUME NEW s \in Scan PROVE FactsOf(s)'
  <2>1. CASE s = t
    BY <2>1
  <2>2. CASE s # t
    BY <2>2 DEF ExecutionInv, ScansSafe, FactsOf, Elsewhere
  <2> QED BY <2>1, <2>2
<1>3. ASSUME NEW w \in Worker, cur'[w] \in Scan PROVE AttemptOf(w)'
  <2>1. CASE cur[w] = t
    BY <2>1
  <2>2. CASE cur[w] # t
    BY <1>3, <2>2 DEF ExecutionInv, AttemptsSafe, AttemptOf, Elsewhere
  <2> QED BY <2>1, <2>2
<1> QED BY <1>1, <1>2, <1>3 DEF ExecutionInv, ScansSafe, AttemptsSafe

\* Only the attempt of w moves.
Alone(w) == \A v \in Worker \ {w} : pc'[v] = pc[v] /\ mem'[v] = mem[v] /\ cur'[v] = cur[v]

\* A step of w in its attempt of a scan; no other attempt has that scan.
LEMMA AttemptSafe ==
    ASSUME TypeOK, ExecutionInv, NEW w \in Worker, cur[w] \in Scan, Elsewhere(cur[w]), Alone(w),
           cur'[w] = cur[w], FactsOf(cur[w])', AttemptOf(w)'
    PROVE  ExecutionInv'
<1> DEFINE t == cur[w]
<1>1. OneAttempt'
  BY DEF ExecutionInv, OneAttempt, Alone
<1>2. ASSUME NEW s \in Scan PROVE FactsOf(s)'
  <2>1. CASE s = t
    BY <2>1
  <2>2. CASE s # t
    BY <2>2 DEF ExecutionInv, ScansSafe, FactsOf, Elsewhere
  <2> QED BY <2>1, <2>2
<1>3. ASSUME NEW v \in Worker, cur'[v] \in Scan PROVE AttemptOf(v)'
  <2>1. CASE v = w
    BY <2>1
  <2>2. CASE v # w
    <3>1. cur'[v] = cur[v] /\ pc'[v] = pc[v] /\ mem'[v] = mem[v] /\ cur[v] # t
      BY <1>3, <2>2 DEF Alone, ExecutionInv, OneAttempt
    <3> QED BY <1>3, <3>1 DEF ExecutionInv, AttemptsSafe, AttemptOf, Elsewhere
  <2> QED BY <2>1, <2>2
<1> QED BY <1>1, <1>2, <1>3 DEF ExecutionInv, ScansSafe, AttemptsSafe

\* An attempt ends or dies: nothing is written to its scan.
LEMMA LeavingSafe ==
    ASSUME TypeOK, ExecutionInv, NEW w \in Worker, Alone(w), cur'[w] = NoScan,
           UNCHANGED <<row, cap, sandbox, runs>>
    PROVE  ExecutionInv'
<1>1. OneAttempt'
  BY NoneAssumption DEF ExecutionInv, OneAttempt, Alone, NoneAssumption
<1>2. ScansSafe'
  BY DEF ExecutionInv, ScansSafe, FactsOf
<1>3. ASSUME NEW v \in Worker, cur'[v] \in Scan PROVE AttemptOf(v)'
  <2>1. v # w
    BY <1>3, NoneAssumption DEF NoneAssumption
  <2> QED BY <1>3, <2>1 DEF Alone, ExecutionInv, AttemptsSafe, AttemptOf
<1> QED BY <1>1, <1>2, <1>3 DEF ExecutionInv, AttemptsSafe
-----------------------------------------------------------------------------
(***************************************************************************)
(* The web request, the queue and its reconciliation                       *)
(***************************************************************************)
LEMMA NotTerminal ==
    ASSUME NEW s \in Scan, NEW to, CanMove(s, to)
    PROVE  row[s].status \notin Terminal
BY DEF CanMove, Next1, Terminal

LEMMA SetStatusStep ==
    ASSUME row \in [Scan -> Row], NEW s \in Scan, NEW to, SetStatus(s, to),
           row[s].status \notin Terminal \/ to = row[s].status
    PROVE  RowStep(row[s], row'[s])
BY DEF SetStatus, RowStep, Row

LEMMA SetStartedStep ==
    ASSUME row \in [Scan -> Row], NEW s \in Scan, NEW to, SetStarted(s, to),
           row[s].status \notin Terminal \/ to = row[s].status
    PROVE  RowStep(row[s], row'[s]) /\ row'[s].started
BY DEF SetStarted, RowStep, Row

LEMMA SameRow == ASSUME NEW r PROVE RowStep(r, r)
BY DEF RowStep

LEMMA RowOnlySafe ==
    ASSUME TypeOK, ExecutionInv, NEW t \in Scan, Elsewhere(t), RowStep(row[t], row'[t]),
           UNCHANGED <<cap, sandbox, runs, pc, cur, mem>>
    PROVE  ExecutionInv'
<1>1. FactsOf(t)'
  BY RowKeepsScan DEF ExecutionInv, ScansSafe, FactsOf
<1>2. ASSUME NEW w \in Worker, cur[w] = t PROVE AttemptOf(w)'
  BY <1>2, RowKeepsAttempt DEF ExecutionInv, AttemptsSafe, AttemptOf
<1> QED BY <1>1, <1>2, OutsideSafe

\* The release of an unclaimed reservation, whose attempt never had a container.
LEMMA UnstartedSafe ==
    ASSUME TypeOK, ExecutionInv, NEW t \in Scan, Elsewhere(t), ReleaseUnstarted(t),
           UNCHANGED <<row, sandbox, runs, pc, cur, mem>>
    PROVE  ExecutionInv'
<1> USE Functions
<1>1. CASE UnstartedReleasable(t)
  <2> DEFINE r == row[t]
             c == cap[t]
             d == [c EXCEPT !.state = "RELEASED", !.stopped = TRUE, !.settled = TRUE]
  <2>1. cap'[t] = d /\ row'[t] = r /\ sandbox'[t] = sandbox[t] /\ runs'[t] = runs[t]
    BY <1>1 DEF ReleaseUnstarted
  <2>2. c.state \in Unclaimed /\ r.status \in {"CANCELLED", "FAILED"} /\ c \in Cap
    BY <1>1 DEF UnstartedReleasable
  <2>3. ScanFacts(r, c, sandbox[t], runs[t])
    BY DEF ExecutionInv, ScansSafe, FactsOf
  <2>4. ScanFacts(r, d, sandbox[t], runs[t])
    BY <2>2, <2>3 DEF ScanFacts, Cap, Unspent, Unclaimed, Terminal
  <2>5. ASSUME NEW w, NEW p, NEW m, AttemptFacts(w, p, m, r, c, sandbox[t], runs[t])
        PROVE  AttemptFacts(w, p, m, r, d, sandbox[t], runs[t])
    BY <2>2, <2>3, <2>5 DEF AttemptFacts, ScanFacts, Cap, Unspent, Unclaimed
  <2>6. FactsOf(t)'
    BY <2>1, <2>4 DEF FactsOf
  <2>7. ASSUME NEW w \in Worker, cur[w] = t PROVE AttemptOf(w)'
    BY <2>1, <2>5, <2>7 DEF ExecutionInv, AttemptsSafe, AttemptOf
  <2> QED BY <2>6, <2>7, OutsideSafe
<1>2. CASE ~UnstartedReleasable(t)
  <2>1. cap' = cap
    BY <1>2 DEF ReleaseUnstarted
  <2> QED BY <2>1, SameRow, RowOnlySafe
<1> QED BY <1>1, <1>2

LEMMA CallerSafe ==
    ASSUME TypeOK, AbsentIsUntouched, ExecutionInv, NEW t \in Scan, CallerStep(t)
    PROVE  ExecutionInv'
<1> USE Functions
<1>1. Elsewhere(t)
  BY CallerElsewhere
<1>2. CASE CreateScan(t)
  <2>1. row'[t] = [row[t] EXCEPT !.status = "QUEUED"] /\ cap'[t] = [cap[t] EXCEPT !.state = InitialCap(t)]
        /\ UNCHANGED <<sandbox, runs, pc, cur, mem>>
    BY <1>2 DEF CreateScan, wk
  <2>2. row[t] \in Row /\ cap[t] \in Cap /\ InitialCap(t) \in Unclaimed
    BY DEF InitialCap, Unclaimed
  <2>3. ~row[t].boundary /\ ~cap[t].stopped /\ ~cap[t].settled /\ ~cap[t].receipt
        /\ sandbox[t] = {} /\ runs[t] = 0
    BY <1>2 DEF CreateScan, AbsentIsUntouched, Created
  <2>4. FactsOf(t)'
    BY <2>1, <2>2, <2>3 DEF FactsOf, ScanFacts, Row, Cap, Unspent, Unclaimed
  <2>5. \A w \in Worker : cur[w] # t
    BY <1>2 DEF CreateScan, AbsentIsUntouched, Created
  <2> QED BY <1>1, <2>1, <2>4, <2>5, OutsideSafe
<1>3. CASE Publish(t) \/ PublishUncertain(t) \/ CallerCrash(t)
  BY <1>1, <1>3, SameRow, RowOnlySafe DEF Publish, PublishUncertain, CallerCrash, rows, wk
<1>4. CASE PublishRefused(t) \/ CancelScan(t)
  <2>1. RowStep(row[t], row'[t])
    BY <1>4, NotTerminal, SetStatusStep, SameRow DEF PublishRefused, CancelScan, CancelAllowed
  <2> QED BY <1>1, <1>4, <2>1, RowOnlySafe DEF PublishRefused, CancelScan, wk
<1>5. CASE CallerReleases(t)
  BY <1>1, <1>5, UnstartedSafe DEF CallerReleases, wk
<1> QED BY <1>2, <1>3, <1>4, <1>5 DEF CallerStep

\* A delivery starts an attempt: nobody else has the scan in hand.
LEMMA DeliverSafe ==
    ASSUME TypeOK, ExecutionInv, Exclusive, NEW t \in Scan, NEW w \in Worker, Deliver(w, t)
    PROVE  ExecutionInv'
<1> USE Functions
<1>1. UNCHANGED <<row, cap, sandbox, runs>> /\ cur' = [cur EXCEPT ![w] = t]
      /\ pc' = [pc EXCEPT ![w] = "resume"] /\ mem' = [mem EXCEPT ![w] = FreshMem(row[t].started)]
  BY DEF Deliver, rows, Go
<1>2. \A v \in Worker : cur[v] # t
  BY DEF Deliver, Holding
<1>3. pc \in [Worker -> PC] /\ mem \in [Worker -> Mem]
  BY DEF TypeOK
<1>4. OneAttempt'
  BY <1>1, <1>2 DEF ExecutionInv, OneAttempt
<1>5. ScansSafe'
  BY <1>1 DEF ExecutionInv, ScansSafe, FactsOf
<1>6. AttemptFacts(w, "resume", FreshMem(row[t].started), row[t], cap[t], sandbox[t], runs[t])
  <2>1. ScanFacts(row[t], cap[t], sandbox[t], runs[t])
    BY DEF ExecutionInv, ScansSafe, FactsOf
  <2> QED BY <2>1 DEF AttemptFacts, ScanFacts, FreshMem, Granted
<1>7. ASSUME NEW v \in Worker, cur'[v] \in Scan PROVE AttemptOf(v)'
  <2>1. CASE v = w
    <3>1. cur'[w] = t /\ pc'[w] = "resume" /\ mem'[w] = FreshMem(row[t].started)
      BY <1>1, <1>3
    <3> QED BY <1>1, <1>6, <2>1, <3>1 DEF AttemptOf
  <2>2. CASE v # w
    BY <1>1, <1>3, <1>7, <2>2 DEF ExecutionInv, AttemptsSafe, AttemptOf
  <2> QED BY <2>1, <2>2
<1> QED BY <1>4, <1>5, <1>7 DEF ExecutionInv, AttemptsSafe

LEMMA QueueSafe ==
    ASSUME TypeOK, ExecutionInv, Exclusive, NEW t \in Scan, QueueStep(t)
    PROVE  ExecutionInv'
<1> USE Functions
<1>1. Elsewhere(t)
  BY QueueElsewhere
<1>2. CASE Stalled(t) \/ RemoveJob(t)
  BY <1>1, <1>2, SameRow, RowOnlySafe DEF Stalled, RemoveJob, rows, wk
<1>3. CASE FailedEvent(t) \/ ReconcileOrphan(t)
  <2>1. RowStep(row[t], row'[t])
    BY <1>3, NotTerminal, SetStatusStep, SameRow DEF FailedEvent, ReconcileOrphan, Active, Terminal
  <2> QED BY <1>1, <1>3, <2>1, RowOnlySafe DEF FailedEvent, ReconcileOrphan, wk
<1>4. ASSUME NEW w \in Worker, Deny(w, t) PROVE ExecutionInv'
  <2>1. RowStep(row[t], row'[t])
    BY <1>4, NotTerminal, SetStatusStep, SameRow DEF Deny
  <2> QED BY <1>1, <1>4, <2>1, RowOnlySafe DEF Deny, wk
<1>5. ASSUME NEW w \in Worker, SandboxExits(w, t) PROVE ExecutionInv'
  <2>1. row'[t] = row[t] /\ cap'[t] = cap[t] /\ runs'[t] = runs[t] /\ UNCHANGED <<pc, cur, mem>>
        /\ sandbox'[t] = sandbox[t] \ {w}
    BY <1>5 DEF SandboxExits, rows, wk
  <2>2. FactsOf(t)'
    BY <2>1 DEF ExecutionInv, ScansSafe, FactsOf, ScanFacts
  <2>3. ASSUME NEW v \in Worker, cur[v] = t PROVE AttemptOf(v)'
    <3>1. AttemptFacts(v, pc[v], mem[v], row[t], cap[t], sandbox[t], runs[t])
      BY <2>3 DEF ExecutionInv, AttemptsSafe, AttemptOf
    <3>2. pc[v] = "engine" => v # w
      BY <1>5, <2>3 DEF SandboxExits, At
    <3>3. AttemptFacts(v, pc[v], mem[v], row[t], cap[t], sandbox[t] \ {w}, runs[t])
      BY <3>1, <3>2 DEF AttemptFacts
    <3> QED BY <2>1, <2>3, <3>3 DEF AttemptOf
  <2> QED BY <1>1, <2>1, <2>2, <2>3, OutsideSafe
<1>6. ASSUME NEW w \in Worker, DeliveryFails(w, t) PROVE ExecutionInv'
  BY <1>1, <1>6, SameRow, RowOnlySafe DEF DeliveryFails, rows, wk
<1> QED BY <1>2, <1>3, <1>4, <1>5, <1>6, DeliverSafe DEF QueueStep
-----------------------------------------------------------------------------
(***************************************************************************)
(* The attempt, by what its steps write                                    *)
(***************************************************************************)
LEMMA Hand ==
    ASSUME TypeOK, ExecutionInv, NEW w \in Worker, cur[w] \in Scan
    PROVE  /\ row[cur[w]] \in Row /\ cap[cur[w]] \in Cap /\ mem[w] \in Mem /\ pc[w] \in PC
           /\ sandbox[cur[w]] \subseteq Worker /\ runs[cur[w]] \in Nat
           /\ FactsOf(cur[w]) /\ AttemptOf(w)
BY DEF TypeOK, ExecutionInv, ScansSafe, AttemptsSafe

\* Steps after which nothing more than before need be known of the attempt.
Free == {"confirm", "catch", "route", "verify", "finalize", "seal", "earlySeal", "earlyFinish"}

LEMMA MoveFree ==
    ASSUME NEW w, NEW p, NEW m, NEW r, NEW c, NEW x, NEW n, AttemptFacts(w, p, m, r, c, x, n),
           p \notin Settling, NEW p2 \in Free
    PROVE  AttemptFacts(w, p2, m, r, c, x, n)
BY DEF AttemptFacts, Free, Settling, Early, Granted

\* A step that writes at most the scan row, and no reset.
LEMMA RowMoveSafe ==
    ASSUME TypeOK, ExecutionInv, NEW w \in Worker, cur[w] \in Scan, Elsewhere(cur[w]), Alone(w),
           RowStep(row[cur[w]], row'[cur[w]]), UNCHANGED <<cap, sandbox, runs, cur>>,
           AttemptFacts(w, pc'[w], mem'[w], row'[cur[w]], cap[cur[w]], sandbox[cur[w]], runs[cur[w]])
    PROVE  ExecutionInv'
<1>1. FactsOf(cur[w])'
  BY RowKeepsScan DEF ExecutionInv, ScansSafe, FactsOf
<1>2. AttemptOf(w)'
  BY DEF AttemptOf
<1> QED BY <1>1, <1>2, AttemptSafe

\* The same, when the step goes to a free one and leaves the locals alone.
LEMMA FreeMoveSafe ==
    ASSUME TypeOK, ExecutionInv, NEW w \in Worker, cur[w] \in Scan, Elsewhere(cur[w]),
           pc[w] \notin Settling, NEW p \in Free, Go(w, p), mem' = mem,
           RowStep(row[cur[w]], row'[cur[w]]), UNCHANGED <<cap, sandbox, runs, cur>>
    PROVE  ExecutionInv'
<1>1. pc'[w] = p /\ Alone(w)
  BY DEF TypeOK, Go, Alone
<1>2. AttemptFacts(w, pc[w], mem[w], row'[cur[w]], cap[cur[w]], sandbox[cur[w]], runs[cur[w]])
  BY Hand, RowKeepsAttempt DEF AttemptOf
<1>3. AttemptFacts(w, p, mem[w], row'[cur[w]], cap[cur[w]], sandbox[cur[w]], runs[cur[w]])
  BY <1>2, MoveFree
<1> QED BY <1>1, <1>3, RowMoveSafe

LEMMA AloneGo ==
    ASSUME TypeOK, NEW w \in Worker, NEW p, Go(w, p), UNCHANGED <<mem, cur>>
    PROVE  Alone(w) /\ pc'[w] = p /\ mem'[w] = mem[w]
BY DEF TypeOK, Go, Alone

LEMMA AloneNoted ==
    ASSUME TypeOK, NEW w \in Worker, NEW p, NEW m, Go(w, p), mem' = [mem EXCEPT ![w] = m], cur' = cur
    PROVE  Alone(w) /\ pc'[w] = p /\ mem'[w] = m
BY DEF TypeOK, Go, Alone
-----------------------------------------------------------------------------
(***************************************************************************)
(* The try block up to the engine                                          *)
(***************************************************************************)
LEMMA StartSafe ==
    ASSUME TypeOK, ExecutionInv, NEW w \in Worker,
           Resume(w) \/ Prepare(w) \/ Admitted(w) \/ BeginRunning(w)
           \/ Refuse(w, "admit") \/ Refuse(w, "execute") \/ Refuse(w, "returned")
    PROVE  ExecutionInv'
<1> DEFINE s == cur[w]
           Now(p, m) == AttemptFacts(w, p, m, row'[s], cap[s], sandbox[s], runs[s])
<1> USE Functions, Hand
<1>1. s \in Scan /\ Elsewhere(s) /\ TryStep(w)
  BY TryElsewhere DEF TryStep, Resume, Prepare, Admitted, BeginRunning, Refuse, At
<1>2. UNCHANGED <<cap, sandbox, runs, cur>>
  BY DEF Resume, Prepare, Admitted, BeginRunning, Refuse, Local
<1>3. CASE Resume(w)
  <2>1. pc[w] = "resume"
    BY <1>3 DEF Resume, At
  <2>2. RowStep(row[s], row'[s])
    <3>1. CASE row' = row
      BY <3>1, SameRow
    <3>2. ASSUME NEW to, ResumesTo(s, to), SetStatus(s, to) PROVE RowStep(row[s], row'[s])
      BY <1>1, <3>2, SetStatusStep DEF ResumesTo, Interrupted, Terminal
    <3> QED BY <1>3, <3>1, <3>2 DEF Resume
  <2>3. Now("resume", mem[w])
    BY <1>1, <2>1, <2>2, RowKeepsAttempt DEF AttemptOf
  <2>4. CASE mem' = [mem EXCEPT ![w].recovering = TRUE] /\ ReturnTo(w)
    <3> DEFINE m == [mem[w] EXCEPT !.recovering = TRUE]
    <3>1. Alone(w) /\ pc'[w] = "confirm" /\ mem'[w] = m
      BY <1>2, <2>4, AloneNoted DEF ReturnTo
    <3>2. Now("confirm", m)
      BY <1>1, <2>3 DEF AttemptFacts, Mem, Early, Settling, Granted
    <3> HIDE DEF m
    <3> QED BY <1>1, <1>2, <2>2, <3>1, <3>2, RowMoveSafe
  <2>5. CASE Go(w, "prepare") /\ mem' = mem
    <3>1. Now("prepare", mem[w])
      BY <2>3 DEF AttemptFacts, Early, Settling, Granted
    <3> QED BY <1>1, <1>2, <2>2, <2>5, <3>1, AloneGo, RowMoveSafe
  <2> QED BY <1>3, <2>4, <2>5 DEF Resume
<1>4. CASE Prepare(w)
  <2>1. pc[w] = "prepare" /\ mem' = mem
    BY <1>4 DEF Prepare, At
  <2>2. CASE SetStarted(s, "PREFLIGHT") /\ Go(w, "admit") /\ CanMove(s, "PREFLIGHT")
    <3>1. RowStep(row[s], row'[s])
      BY <1>1, <2>2, NotTerminal, SetStartedStep
    <3>2. Now("prepare", mem[w])
      BY <1>1, <2>1, <3>1, RowKeepsAttempt DEF AttemptOf
    <3>3. Now("admit", mem[w])
      BY <3>2 DEF AttemptFacts, Early, Settling, Granted
    <3> QED BY <1>1, <1>2, <2>1, <2>2, <3>1, <3>3, AloneGo, RowMoveSafe
  <2>3. CASE ThrowTo(w) /\ row' = row
    BY <1>1, <1>2, <2>1, <2>3, SameRow, FreeMoveSafe DEF ThrowTo, Free, Settling
  <2> QED BY <1>4, <2>2, <2>3 DEF Prepare
<1>5. CASE Admitted(w)
  <2>1. pc[w] = "admit" /\ mem' = mem /\ row' = row /\ Go(w, "reserve")
    BY <1>5 DEF Admitted, At, Local
  <2>2. Now("reserve", mem[w])
    BY <1>1, <2>1 DEF AttemptOf, AttemptFacts, Early, Settling, Granted
  <2> QED BY <1>1, <1>2, <2>1, <2>2, SameRow, AloneGo, RowMoveSafe
<1>6. CASE BeginRunning(w)
  <2>1. pc[w] = "run" /\ mem' = mem
    BY <1>6 DEF BeginRunning, At
  <2>2. CASE SetStarted(s, "RUNNING") /\ Go(w, "execute") /\ CanMove(s, "RUNNING")
    <3>1. RowStep(row[s], row'[s]) /\ row'[s].started
      BY <1>1, <2>2, NotTerminal, SetStartedStep
    <3>2. Now("run", mem[w])
      BY <1>1, <2>1, <3>1, RowKeepsAttempt DEF AttemptOf
    <3>3. Now("execute", mem[w])
      BY <3>1, <3>2 DEF AttemptFacts, Early, Settling, Granted
    <3> QED BY <1>1, <1>2, <2>1, <2>2, <3>1, <3>3, AloneGo, RowMoveSafe
  <2>3. CASE ThrowTo(w) /\ row' = row
    BY <1>1, <1>2, <2>1, <2>3, SameRow, FreeMoveSafe DEF ThrowTo, Free, Settling
  <2> QED BY <1>6, <2>2, <2>3 DEF BeginRunning
<1>7. ASSUME NEW from \in {"admit", "execute", "returned"}, Refuse(w, from) PROVE ExecutionInv'
  <2>1. pc[w] \notin Settling /\ mem' = mem
    BY <1>7 DEF Refuse, At, Settling
  <2>2. RowStep(row[s], row'[s])
    BY <1>1, <1>7, NotTerminal, SetStatusStep, SameRow DEF Refuse
  <2>3. Go(w, "confirm") \/ Go(w, "catch")
    BY <1>7 DEF Refuse, ReturnTo, ThrowTo
  <2> QED BY <1>1, <1>2, <2>1, <2>2, <2>3, FreeMoveSafe DEF Free
<1> QED BY <1>3, <1>4, <1>5, <1>6, <1>7

\* The reservation is unclaimed when it is funded, waits or is claimed.
LEMMA ReserveSafe ==
    ASSUME TypeOK, ExecutionInv, NEW w \in Worker,
           Reserve(w) \/ ReserveWait(w) \/ Claim(w) \/ ClaimWait(w) \/ StartUnmetered(w)
    PROVE  ExecutionInv'
<1> DEFINE s == cur[w]
           Now(p, c) == AttemptFacts(w, p, mem[w], row[s], c, sandbox[s], runs[s])
<1> USE Functions, Hand
<1>1. s \in Scan /\ Elsewhere(s) /\ TryStep(w)
  BY TryElsewhere DEF TryStep, Reserve, ReserveWait, Claim, ClaimWait, ReserveTo, StartUnmetered, At
<1>2. UNCHANGED <<row, sandbox, runs, cur, mem>> /\ pc[w] \in {"reserve", "claim"}
  BY DEF Reserve, ReserveWait, Claim, ClaimWait, ReserveTo, StartUnmetered, At
<1>3. CASE ThrowTo(w) /\ cap' = cap
  BY <1>1, <1>2, <1>3, SameRow, FreeMoveSafe DEF ThrowTo, Free, Settling
<1>4. ASSUME NEW state, NEW step, cap[s].state \in Unclaimed, Go(w, step),
             cap' = [cap EXCEPT ![s].state = state],
             \/ state \in Unclaimed /\ step \in {"run", "defer"}
             \/ state = "RUNNING" /\ step = "run"
             \/ state = "RUNNING" /\ step = "boundary" /\ pc[w] = "claim"
      PROVE  ExecutionInv'
  <2> DEFINE c == [cap[s] EXCEPT !.state = state]
  <2>1. cap'[s] = c
    BY <1>1, <1>4
  <2>2. c.state = state /\ c.stopped = cap[s].stopped /\ c.settled = cap[s].settled
        /\ c.receipt = cap[s].receipt
    BY <1>1 DEF Cap
  <2> HIDE DEF c
  <2>3. ScanFacts(row[s], cap[s], sandbox[s], runs[s]) /\ Now(pc[w], cap[s])
    BY <1>1 DEF FactsOf, AttemptOf
  <2>4. Unspent(row[s], runs[s]) /\ ~cap[s].stopped /\ ~cap[s].settled /\ ~cap[s].receipt
    BY <1>1, <1>4, <2>3 DEF ScanFacts, Unclaimed
  <2>5. ScanFacts(row[s], c, sandbox[s], runs[s])
    BY <1>4, <2>2, <2>3, <2>4 DEF ScanFacts, Unclaimed
  <2>6. Now(step, c)
    BY <1>1, <1>2, <1>4, <2>2, <2>3, <2>4 DEF AttemptFacts, Unspent, Early, Settling, Granted, Unclaimed
  <2>7. FactsOf(s)'
    BY <1>2, <2>1, <2>5 DEF FactsOf
  <2>8. Alone(w) /\ pc'[w] = step /\ mem'[w] = mem[w]
    BY <1>2, <1>4, AloneGo
  <2>9. AttemptOf(w)'
    BY <1>2, <2>1, <2>6, <2>8 DEF AttemptOf
  <2> QED BY <1>1, <1>2, <2>7, <2>8, <2>9, AttemptSafe
<1>5. ASSUME NEW from, NEW state, NEW step, ReserveTo(w, from, state, step),
             \/ state \in Unclaimed /\ step \in {"run", "defer"}
             \/ state = "RUNNING" /\ step = "boundary" /\ from = "claim"
      PROVE  ExecutionInv'
  <2>1. pc[w] = from
    BY <1>5 DEF ReserveTo, At
  <2>2. CASE ThrowTo(w) /\ cap' = cap
    BY <1>3, <2>2
  <2>3. CASE MayReserve(s) /\ cap' = [cap EXCEPT ![s].state = state] /\ Go(w, step)
    <3>1. cap[s].state \in Unclaimed
      BY <2>3 DEF MayReserve
    <3> QED BY <1>4, <1>5, <2>1, <2>3, <3>1
  <2> QED BY <1>5, <2>2, <2>3 DEF ReserveTo
<1>6. CASE StartUnmetered(w)
  <2>1. CASE ThrowTo(w) /\ cap' = cap
    BY <1>3, <2>1
  <2>2. CASE cap[s].state = "RESERVED" /\ cap' = [cap EXCEPT ![s].state = "RUNNING"] /\ Go(w, "run")
    <3>1. cap[s].state \in Unclaimed
      BY <2>2 DEF Unclaimed
    <3> QED BY <1>4, <2>2, <3>1
  <2> QED BY <1>6, <2>1, <2>2 DEF StartUnmetered
<1>7. CASE Reserve(w)
  BY <1>5, <1>7 DEF Reserve, Unclaimed
<1>8. CASE ReserveWait(w)
  BY <1>5, <1>8 DEF ReserveWait, Unclaimed
<1>9. CASE Claim(w)
  BY <1>5, <1>9 DEF Claim
<1>10. CASE ClaimWait(w)
  BY <1>5, <1>10 DEF ClaimWait, Unclaimed
<1> QED BY <1>6, <1>7, <1>8, <1>9, <1>10

LEMMA MoveCancelled ==
    ASSUME NEW w, NEW p, NEW m, NEW r, NEW c, NEW x, NEW n, AttemptFacts(w, p, m, r, c, x, n),
           p \notin Settling, r.status = "CANCELLED"
    PROVE  AttemptFacts(w, "settleCancel", m, r, c, x, n)
BY DEF AttemptFacts, Settling, Early, Granted

\* A step that finds the scan cancelled and goes to the metering of that.
LEMMA CancelledMoveSafe ==
    ASSUME TypeOK, ExecutionInv, NEW w \in Worker, cur[w] \in Scan, Elsewhere(cur[w]),
           pc[w] \notin Settling, row[cur[w]].status = "CANCELLED", Go(w, "settleCancel"),
           UNCHANGED <<row, mem, cap, sandbox, runs, cur>>
    PROVE  ExecutionInv'
<1>1. AttemptFacts(w, "settleCancel", mem[w], row[cur[w]], cap[cur[w]], sandbox[cur[w]], runs[cur[w]])
  BY Hand, MoveCancelled DEF AttemptOf
<1> QED BY <1>1, AloneGo, SameRow, RowMoveSafe

LEMMA EngineSafe ==
    ASSUME TypeOK, ExecutionInv, EngineEntered, NEW w \in Worker,
           Execute(w) \/ EnterBillable(w) \/ LaunchCancelled(w) \/ Launch(w) \/ EngineReturns(w)
           \/ Observe(w) \/ Route(w)
    PROVE  ExecutionInv'
<1> DEFINE s == cur[w]
           Now(p, m, r, x, n) == AttemptFacts(w, p, m, r, cap[s], x, n)
<1> USE Functions, Hand
<1>1. s \in Scan /\ Elsewhere(s) /\ TryStep(w)
  BY TryElsewhere DEF TryStep, Execute, EnterBillable, LaunchCancelled, Launch,
                           EngineReturns, Observe, Route, At
<1>2. UNCHANGED <<cap, cur>>
  BY DEF Execute, EnterBillable, LaunchCancelled, Launch, EngineReturns, Observe, Route, Local, rows
<1>3. /\ ScanFacts(row[s], cap[s], sandbox[s], runs[s])
      /\ Now(pc[w], mem[w], row[s], sandbox[s], runs[s])
      /\ row[s] \in Row /\ mem[w] \in Mem /\ cap[s] \in Cap
  BY <1>1 DEF FactsOf, AttemptOf
<1>4. CASE Execute(w)
  <2>1. pc[w] = "execute" /\ UNCHANGED <<row, cap, sandbox, runs, cur>>
    BY <1>4 DEF Execute, At, Local
  <2>2. CASE ReturnTo(w) /\ mem' = mem
    BY <1>1, <2>1, <2>2, SameRow, FreeMoveSafe DEF ReturnTo, Free, Settling
  <2>3. CASE Go(w, "claim") /\ mem' = mem
    <3>1. Now("claim", mem[w], row[s], sandbox[s], runs[s])
      BY <1>3, <2>1 DEF AttemptFacts, Early, Settling, Granted
    <3> QED BY <1>1, <2>1, <2>3, <3>1, SameRow, AloneGo, RowMoveSafe
  <2>4. CASE mem' = [mem EXCEPT ![w].returned = TRUE] /\ Go(w, "returned")
    <3> DEFINE m == [mem[w] EXCEPT !.returned = TRUE]
    <3>1. Alone(w) /\ pc'[w] = "returned" /\ mem'[w] = m
      BY <2>1, <2>4, AloneNoted
    <3>2. Now("returned", m, row[s], sandbox[s], runs[s])
      BY <1>3, <2>1 DEF AttemptFacts, ScanFacts, Mem, Early, Settling, Granted
    <3> HIDE DEF m
    <3> QED BY <1>1, <2>1, <3>1, <3>2, SameRow, RowMoveSafe
  <2> QED BY <1>4, <2>2, <2>3, <2>4 DEF Execute
<1>5. CASE EnterBillable(w)
  <2> DEFINE m == [mem[w] EXCEPT !.billable = TRUE]
             r == [row[s] EXCEPT !.boundary = TRUE]
  <2>1. pc[w] = "boundary" /\ UNCHANGED <<cap, sandbox, runs, cur>>
        /\ row'[s] = r /\ mem' = [mem EXCEPT ![w] = m] /\ Go(w, "launch")
    BY <1>1, <1>5 DEF EnterBillable, At
  <2>2. ScanFacts(r, cap[s], sandbox[s], runs[s])
    BY <1>3, <2>1 DEF ScanFacts, AttemptFacts, Row, Unspent, Unclaimed
  <2>3. Now("launch", m, r, sandbox[s], runs[s])
    BY <1>3, <2>1 DEF AttemptFacts, Row, Mem, Unspent, Early, Settling, Granted
  <2>4. Alone(w) /\ pc'[w] = "launch" /\ mem'[w] = m
    BY <2>1, AloneNoted
  <2> HIDE DEF m, r
  <2>5. FactsOf(s)' /\ AttemptOf(w)'
    BY <2>1, <2>2, <2>3, <2>4 DEF FactsOf, AttemptOf
  <2> QED BY <1>1, <1>2, <2>4, <2>5, AttemptSafe
<1>6. CASE LaunchCancelled(w)
  BY <1>1, <1>6, CancelledMoveSafe DEF LaunchCancelled, At, Local, Settling
<1>7. CASE Launch(w)
  <2> DEFINE x == sandbox[s] \cup {w}
             n == runs[s] + 1
  <2>1. pc[w] = "launch" /\ UNCHANGED <<row, cap, mem, cur>> /\ Go(w, "engine")
        /\ sandbox'[s] = x /\ runs'[s] = n
    BY <1>1, <1>7 DEF Launch, At, rows
  <2>2. runs[s] = 0 /\ cap[s].state = "RUNNING" /\ row[s].started
    BY <1>3, <2>1 DEF AttemptFacts, Granted
  <2>3. n = 1 /\ x = {w} /\ ~cap[s].stopped /\ mem[w].billable /\ ~cap[s].receipt
    BY <1>3, <2>1, <2>2 DEF ScanFacts, AttemptFacts, Early
  <2>4. ScanFacts(row[s], cap[s], x, n)
    BY <1>3, <2>1, <2>2, <2>3 DEF ScanFacts, Unspent, Unclaimed
  <2>5. Now("engine", mem[w], row[s], x, n)
    BY <1>3, <2>1, <2>3 DEF AttemptFacts, Unspent, Early, Settling, Granted
  <2>6. Alone(w) /\ pc'[w] = "engine" /\ mem'[w] = mem[w]
    BY <2>1, AloneGo
  <2> HIDE DEF x, n
  <2>7. FactsOf(s)' /\ AttemptOf(w)'
    BY <2>1, <2>4, <2>5, <2>6 DEF FactsOf, AttemptOf
  <2> QED BY <1>1, <1>2, <2>6, <2>7, AttemptSafe
<1>8. CASE EngineReturns(w)
  <2>1. PICK removed \in BOOLEAN :
          /\ mem' = [mem EXCEPT ![w].returned = removed]
          /\ IF removed THEN sandbox' = [sandbox EXCEPT ![s] = @ \ {w}] ELSE UNCHANGED sandbox
    BY <1>8 DEF EngineReturns
  <2> DEFINE x == IF removed THEN sandbox[s] \ {w} ELSE sandbox[s]
             m == [mem[w] EXCEPT !.returned = removed]
  <2>2. pc[w] = "engine" /\ UNCHANGED <<row, cap, runs, cur>> /\ Go(w, "returned")
        /\ sandbox'[s] = x /\ mem' = [mem EXCEPT ![w] = m]
    BY <1>1, <1>8, <2>1 DEF EngineReturns, At, rows
  <2>3. sandbox[s] = {w} /\ runs[s] = 1 /\ cap[s].state = "RUNNING" /\ ~cap[s].stopped
    BY <1>3, <2>2 DEF ScanFacts, AttemptFacts
  <2>4. ScanFacts(row[s], cap[s], x, runs[s])
    BY <1>3, <2>3 DEF ScanFacts
  <2>5. Now("returned", m, row[s], x, runs[s])
    BY <1>3, <2>2, <2>3 DEF AttemptFacts, Mem, Early, Settling, Granted
  <2>6. Alone(w) /\ pc'[w] = "returned" /\ mem'[w] = m
    BY <2>2, AloneNoted
  <2> HIDE DEF x, m
  <2>7. FactsOf(s)' /\ AttemptOf(w)'
    BY <2>2, <2>4, <2>5, <2>6 DEF FactsOf, AttemptOf
  <2> QED BY <1>1, <1>2, <2>6, <2>7, AttemptSafe
<1>9. CASE Observe(w)
  <2>1. PICK observed \in BOOLEAN : /\ observed => s \in EngineScan
                                   /\ mem' = [mem EXCEPT ![w].unbilled = ~observed]
    BY <1>9 DEF Observe
  <2> DEFINE m == [mem[w] EXCEPT !.unbilled = ~observed]
  <2>2. pc[w] = "returned" /\ UNCHANGED <<row, cap, sandbox, runs, cur>> /\ Go(w, "route")
        /\ mem' = [mem EXCEPT ![w] = m]
    BY <1>9, <2>1 DEF Observe, At, Local
  <2>3. observed => runs[s] = 1 /\ ~cap[s].stopped /\ cap[s].state = "RUNNING"
    BY <1>3, <2>1, <2>2 DEF AttemptFacts, EngineEntered
  <2>4. Now("route", m, row[s], sandbox[s], runs[s])
    BY <1>3, <2>2, <2>3 DEF AttemptFacts, Mem, Early, Settling, Granted
  <2>5. Alone(w) /\ pc'[w] = "route" /\ mem'[w] = m
    BY <2>2, AloneNoted
  <2> HIDE DEF m
  <2> QED BY <1>1, <2>2, <2>4, <2>5, SameRow, RowMoveSafe
<1>10. CASE Route(w)
  <2>1. pc[w] = "route" /\ UNCHANGED <<row, mem, cap, sandbox, runs, cur>>
    BY <1>10 DEF Route, At, Local
  <2>2. CASE row[s].status = "CANCELLED" /\ Go(w, "settleCancel")
    BY <1>1, <2>1, <2>2, CancelledMoveSafe DEF Settling
  <2>3. CASE Go(w, "earlySeal") \/ Go(w, "verify")
    BY <1>1, <2>1, <2>3, SameRow, FreeMoveSafe DEF Free, Settling
  <2> QED BY <1>10, <2>2, <2>3 DEF Route
<1> QED BY <1>4, <1>5, <1>6, <1>7, <1>8, <1>9, <1>10
-----------------------------------------------------------------------------
(***************************************************************************)
(* The outcome                                                             *)
(***************************************************************************)
\* Manifests and statuses, without the meter.
LEMMA OutcomeSafe ==
    ASSUME TypeOK, ExecutionInv, NEW w \in Worker,
           EarlySeal(w) \/ EarlyFinish(w) \/ BeginVerifying(w) \/ ClaimFinalization(w)
    PROVE  ExecutionInv'
<1> DEFINE s == cur[w]
<1> USE Functions
<1>1. s \in Scan /\ Elsewhere(s) /\ TryStep(w)
  BY TryElsewhere DEF TryStep, EarlySeal, EarlyFinish, BeginVerifying, ClaimFinalization, At
<1>2. UNCHANGED <<cap, sandbox, runs, cur, mem>> /\ pc[w] \notin Settling
  BY DEF EarlySeal, EarlyFinish, BeginVerifying, ClaimFinalization, At, Settling
<1>3. ASSUME NEW p \in Free, Go(w, p), RowStep(row[s], row'[s]) PROVE ExecutionInv'
  BY <1>1, <1>2, <1>3, FreeMoveSafe
<1>4. CASE EarlySeal(w)
  <2>1. RowStep(row[s], row'[s])
    BY <1>1, <1>4, SameRow DEF EarlySeal, RowStep, Row
  <2> QED BY <1>3, <1>4, <2>1 DEF EarlySeal, ThrowTo, Free
<1>5. CASE EarlyFinish(w)
  <2>1. RowStep(row[s], row'[s])
    BY <1>1, <1>5, SameRow, NotTerminal, SetStatusStep DEF EarlyFinish
  <2> QED BY <1>3, <1>5, <2>1 DEF EarlyFinish, ThrowTo, ReturnTo, Free
<1>6. CASE BeginVerifying(w)
  <2>1. RowStep(row[s], row'[s])
    BY <1>1, <1>6, SameRow, NotTerminal, SetStatusStep DEF BeginVerifying
  <2> QED BY <1>3, <1>6, <2>1 DEF BeginVerifying, ThrowTo, Free
<1>7. CASE ClaimFinalization(w)
  <2>1. CASE Claimable(s)
    <3>1. RowStep(row[s], row'[s])
      BY <1>1, <1>7, <2>1 DEF ClaimFinalization, RowStep, Row
    <3> QED BY <1>3, <1>7, <2>1, <3>1 DEF ClaimFinalization, Free
  <2>2. CASE ~Claimable(s) /\ row[s].status = "CANCELLED"
    BY <1>1, <1>2, <1>7, <2>2, CancelledMoveSafe DEF ClaimFinalization
  <2>3. CASE ~Claimable(s) /\ row[s].status # "CANCELLED"
    BY <1>3, <1>7, <2>3, SameRow DEF ClaimFinalization, ThrowTo, Free
  <2> QED BY <2>1, <2>2, <2>3
<1> QED BY <1>4, <1>5, <1>6, <1>7

\* The manifest of a billable result: only what was charged can be sealed so.
LEMMA SealSafe ==
    ASSUME TypeOK, ExecutionInv, NEW w \in Worker, Seal(w)
    PROVE  ExecutionInv'
<1> DEFINE s == cur[w]
<1> USE Functions, Hand
<1>1. s \in Scan /\ Elsewhere(s) /\ pc[w] = "seal" /\ UNCHANGED <<cap, sandbox, runs, cur>>
  BY TryElsewhere DEF TryStep, Seal, At
<1>2. PICK v \in Verdict : \E bills \in Bills(v) :
         LET billable == bills /\ ~mem[w].unbilled
             writable == /\ row[s].manifest = "NONE"
                         /\ billable => cap[s].state = "RUNNING"
         IN /\ mem' = [mem EXCEPT ![w].disp =
                         IF billable THEN "settlement_required" ELSE "nonbillable"]
            /\ IF writable
               THEN row' = [row EXCEPT ![s].manifest = v] /\ Go(w, "finish")
               ELSE ThrowTo(w) /\ UNCHANGED row
  BY DEF Seal
<1>3. PICK bills \in Bills(v) :
         LET billable == bills /\ ~mem[w].unbilled
             writable == /\ row[s].manifest = "NONE"
                         /\ billable => cap[s].state = "RUNNING"
         IN /\ mem' = [mem EXCEPT ![w].disp =
                         IF billable THEN "settlement_required" ELSE "nonbillable"]
            /\ IF writable
               THEN row' = [row EXCEPT ![s].manifest = v] /\ Go(w, "finish")
               ELSE ThrowTo(w) /\ UNCHANGED row
  BY <1>2
<1> DEFINE billable == bills /\ ~mem[w].unbilled
           d == IF billable THEN "settlement_required" ELSE "nonbillable"
           m == [mem[w] EXCEPT !.disp = d]
<1>4. mem' = [mem EXCEPT ![w] = m]
  BY <1>3
<1>5. bills => v \in Charged
  BY DEF Bills, Verdict, Charged
<1>6. AttemptFacts(w, "seal", mem[w], row[s], cap[s], sandbox[s], runs[s]) /\ mem[w] \in Mem
  BY <1>1 DEF AttemptOf
<1>7. m.recovering = mem[w].recovering /\ m.billable = mem[w].billable /\ m.returned = mem[w].returned
      /\ m.unbilled = mem[w].unbilled /\ m.disp = d /\ (d = "settlement_required" => ~m.unbilled /\ bills)
  BY <1>6 DEF Mem
<1>8. CASE row' = [row EXCEPT ![s].manifest = v] /\ Go(w, "finish") /\ row[s].manifest = "NONE"
  <2>1. RowStep(row[s], row'[s]) /\ row'[s].manifest = v
    BY <1>1, <1>8 DEF RowStep, Row
  <2>2. Alone(w) /\ pc'[w] = "finish" /\ mem'[w] = m
    BY <1>1, <1>4, <1>8, AloneNoted
  <2>3. AttemptFacts(w, "seal", mem[w], row'[s], cap[s], sandbox[s], runs[s])
    BY <1>6, <2>1, RowKeepsAttempt
  <2> HIDE DEF m, d
  <2>4. AttemptFacts(w, "finish", m, row'[s], cap[s], sandbox[s], runs[s])
    BY <1>5, <1>7, <2>1, <2>3 DEF AttemptFacts, Early, Settling, Granted
  <2> QED BY <1>1, <2>1, <2>2, <2>4, RowMoveSafe
<1>9. CASE ThrowTo(w) /\ row' = row
  <2>1. Alone(w) /\ pc'[w] = "catch" /\ mem'[w] = m
    BY <1>1, <1>4, <1>9, AloneNoted DEF ThrowTo
  <2> HIDE DEF m, d
  <2>2. AttemptFacts(w, "catch", m, row[s], cap[s], sandbox[s], runs[s])
    BY <1>6, <1>7 DEF AttemptFacts, Early, Settling, Granted
  <2> QED BY <1>1, <1>9, <2>1, <2>2, SameRow, RowMoveSafe
<1> QED BY <1>3, <1>8, <1>9

LEMMA FinishSafe ==
    ASSUME TypeOK, ExecutionInv, NEW w \in Worker, Finish(w)
    PROVE  ExecutionInv'
<1> DEFINE s == cur[w]
           m == [mem[w] EXCEPT !.durable = TRUE]
<1> USE Functions, Hand
<1>1. s \in Scan /\ Elsewhere(s) /\ pc[w] = "finish" /\ UNCHANGED <<cap, sandbox, runs, cur>>
  BY TryElsewhere DEF TryStep, Finish, At
<1>2. AttemptFacts(w, "finish", mem[w], row[s], cap[s], sandbox[s], runs[s]) /\ mem[w] \in Mem
  BY <1>1 DEF AttemptOf
<1>3. RowStep(row[s], row'[s])
  BY <1>1, SameRow, NotTerminal, SetStatusStep DEF Finish
<1>4. CASE mem' = mem /\ (ReturnTo(w) \/ ThrowTo(w))
  BY <1>1, <1>3, <1>4, FreeMoveSafe DEF ReturnTo, ThrowTo, Free, Settling
<1>5. CASE SetStatus(s, row[s].manifest) /\ mem[w].disp = "settlement_required"
           /\ mem' = [mem EXCEPT ![w] = m] /\ Go(w, "commit")
  <2>1. row[s].manifest \in Charged
    BY <1>2, <1>5 DEF AttemptFacts
  <2>2. row'[s].status = row[s].manifest /\ row'[s].manifest = row[s].manifest
    BY <1>1, <1>5 DEF SetStatus, Row
  <2>3. AttemptFacts(w, "finish", mem[w], row'[s], cap[s], sandbox[s], runs[s])
    BY <1>2, <1>3, RowKeepsAttempt
  <2>4. Alone(w) /\ pc'[w] = "commit" /\ mem'[w] = m
    BY <1>1, <1>5, AloneNoted
  <2>5. m.recovering = mem[w].recovering /\ m.billable = mem[w].billable /\ m.returned = mem[w].returned
        /\ m.unbilled = mem[w].unbilled /\ m.disp = mem[w].disp
    BY <1>2 DEF Mem
  <2> HIDE DEF m
  <2>6. AttemptFacts(w, "commit", m, row'[s], cap[s], sandbox[s], runs[s])
    BY <1>5, <2>1, <2>2, <2>3, <2>5 DEF AttemptFacts, Early, Settling, Granted
  <2> QED BY <1>1, <1>3, <2>4, <2>6, RowMoveSafe
<1> QED BY <1>4, <1>5 DEF Finish

\* The meter: a receipt and the SETTLED state in one transaction.
LEMMA MeterSafe ==
    ASSUME TypeOK, ExecutionInv, NEW w \in Worker, SettleCancelled(w) \/ Commit(w)
    PROVE  ExecutionInv'
<1> DEFINE s == cur[w]
           c == [cap[s] EXCEPT !.state = "SETTLED", !.receipt = TRUE]
<1> USE Functions, Hand
<1>1. s \in Scan /\ Elsewhere(s) /\ UNCHANGED <<row, sandbox, runs, cur>>
  BY TryElsewhere DEF TryStep, SettleCancelled, Commit, At
<1>2. /\ ScanFacts(row[s], cap[s], sandbox[s], runs[s])
      /\ AttemptFacts(w, pc[w], mem[w], row[s], cap[s], sandbox[s], runs[s])
      /\ mem[w] \in Mem /\ cap[s] \in Cap
  BY <1>1 DEF FactsOf, AttemptOf
<1>3. c.state = "SETTLED" /\ c.receipt /\ c.stopped = cap[s].stopped /\ c.settled = cap[s].settled
  BY <1>2 DEF Cap
<1> HIDE DEF c
<1>4. ASSUME NEW m, pc[w] \in {"settleCancel", "commit"}, ~mem[w].unbilled,
             m.recovering = mem[w].recovering, m.billable = mem[w].billable,
             m.returned = mem[w].returned, m.unbilled = mem[w].unbilled,
             Alone(w), pc'[w] = "confirm", mem'[w] = m,
             cap' = [cap EXCEPT ![s] = c]
      PROVE  ExecutionInv'
  <2>1. ScanFacts(row[s], c, sandbox[s], runs[s])
    BY <1>2, <1>3, <1>4 DEF ScanFacts, AttemptFacts, Settling, Unspent, Unclaimed
  <2>2. AttemptFacts(w, "confirm", m, row[s], c, sandbox[s], runs[s])
    BY <1>2, <1>3, <1>4 DEF AttemptFacts, Early, Settling, Granted
  <2>3. FactsOf(s)' /\ AttemptOf(w)'
    BY <1>1, <1>4, <2>1, <2>2 DEF FactsOf, AttemptOf
  <2> QED BY <1>1, <1>4, <2>3, AttemptSafe
<1>5. CASE SettleCancelled(w)
  <2>1. pc[w] = "settleCancel" /\ ReturnTo(w)
    BY <1>5 DEF SettleCancelled, At
  <2>2. ASSUME NEW d \in {"nonbillable", "settlement_required"}, cap' = cap,
               d = "settlement_required" => ~mem[w].unbilled, mem' = [mem EXCEPT ![w].disp = d]
        PROVE  ExecutionInv'
    <3> DEFINE m == [mem[w] EXCEPT !.disp = d]
    <3>1. Alone(w) /\ pc'[w] = "confirm" /\ mem'[w] = m
      BY <1>1, <2>1, <2>2, AloneNoted DEF ReturnTo
    <3>2. AttemptFacts(w, "confirm", m, row[s], cap[s], sandbox[s], runs[s])
      BY <1>2, <2>1, <2>2 DEF AttemptFacts, Mem, Early, Settling, Granted
    <3> HIDE DEF m
    <3> QED BY <1>1, <2>2, <3>1, <3>2, SameRow, RowMoveSafe
  <2>3. CASE mem[w].unbilled
    BY <1>5, <2>2, <2>3 DEF SettleCancelled
  <2>4. CASE ~mem[w].unbilled /\ cap' = cap
    BY <1>5, <2>2, <2>4 DEF SettleCancelled
  <2>5. CASE ~mem[w].unbilled /\ cap' # cap
    <3> DEFINE m == [mem[w] EXCEPT !.disp = "settlement_required"]
    <3>1. Alone(w) /\ pc'[w] = "confirm" /\ mem'[w] = m
      BY <1>1, <1>5, <2>1, <2>5, AloneNoted DEF SettleCancelled, ReturnTo
    <3>2. cap' = [cap EXCEPT ![s] = c]
      BY <1>5, <2>5 DEF SettleCancelled, c
    <3>3. m.recovering = mem[w].recovering /\ m.billable = mem[w].billable
          /\ m.returned = mem[w].returned /\ m.unbilled = mem[w].unbilled
      BY <1>2 DEF Mem
    <3> HIDE DEF m
    <3> QED BY <1>4, <2>1, <2>5, <3>1, <3>2, <3>3
  <2> QED BY <2>3, <2>4, <2>5
<1>6. CASE Commit(w)
  <2>1. pc[w] = "commit" /\ ReturnTo(w) /\ mem' = mem /\ cap' = [cap EXCEPT ![s] = c]
    BY <1>6 DEF Commit, At, c
  <2>2. ~mem[w].unbilled
    BY <1>2, <2>1 DEF AttemptFacts
  <2>3. Alone(w) /\ pc'[w] = "confirm" /\ mem'[w] = mem[w]
    BY <1>1, <2>1, AloneGo DEF ReturnTo
  <2> QED BY <1>4, <2>1, <2>2, <2>3
<1> QED BY <1>5, <1>6

LEMMA TrySafe ==
    ASSUME TypeOK, ExecutionInv, EngineEntered, NEW w \in Worker, TryStep(w)
    PROVE  ExecutionInv'
BY StartSafe, ReserveSafe, EngineSafe, OutcomeSafe, SealSafe, FinishSafe, MeterSafe DEF TryStep
-----------------------------------------------------------------------------
(***************************************************************************)
(* The catch block                                                         *)
(***************************************************************************)
\* The kind of result an attempt reports to the queue is no part of the facts.
LEMMA ResultFree ==
    ASSUME NEW w, NEW p, NEW m \in Mem, NEW r, NEW c, NEW x, NEW n, NEW y,
           AttemptFacts(w, p, m, r, c, x, n)
    PROVE  AttemptFacts(w, p, [m EXCEPT !.result = y], r, c, x, n)
BY DEF AttemptFacts, Mem

LEMMA ResultMoveSafe ==
    ASSUME TypeOK, ExecutionInv, NEW w \in Worker, cur[w] \in Scan, Elsewhere(cur[w]), NEW p, NEW y,
           Go(w, p), Result(w, y), RowStep(row[cur[w]], row'[cur[w]]),
           UNCHANGED <<cap, sandbox, runs, cur>>,
           AttemptFacts(w, p, mem[w], row'[cur[w]], cap[cur[w]], sandbox[cur[w]], runs[cur[w]])
    PROVE  ExecutionInv'
<1> DEFINE m == [mem[w] EXCEPT !.result = y]
<1>1. Alone(w) /\ pc'[w] = p /\ mem'[w] = m
  BY AloneNoted DEF Result
<1>2. AttemptFacts(w, p, m, row'[cur[w]], cap[cur[w]], sandbox[cur[w]], runs[cur[w]])
  BY Hand, ResultFree
<1> HIDE DEF m
<1> QED BY <1>1, <1>2, RowMoveSafe

LEMMA ResultFreeMoveSafe ==
    ASSUME TypeOK, ExecutionInv, NEW w \in Worker, cur[w] \in Scan, Elsewhere(cur[w]),
           pc[w] \notin Settling, NEW p \in Free, NEW y, Go(w, p), Result(w, y),
           RowStep(row[cur[w]], row'[cur[w]]), UNCHANGED <<cap, sandbox, runs, cur>>
    PROVE  ExecutionInv'
<1>1. AttemptFacts(w, pc[w], mem[w], row'[cur[w]], cap[cur[w]], sandbox[cur[w]], runs[cur[w]])
  BY Hand, RowKeepsAttempt DEF AttemptOf
<1> QED BY <1>1, MoveFree, ResultMoveSafe

LEMMA CatchSafe ==
    ASSUME TypeOK, ExecutionInv, NEW w \in Worker,
           CatchDurable(w) \/ CatchCancelled(w) \/ CatchRetry(w) \/ CatchFail(w)
    PROVE  ExecutionInv'
<1> DEFINE s == cur[w]
<1> USE Functions, Hand
<1>1. s \in Scan /\ Elsewhere(s) /\ pc[w] = "catch" /\ pc[w] \notin Settling
      /\ UNCHANGED <<cap, sandbox, runs, cur>>
  BY CatchElsewhere
     DEF CatchStep, CatchDurable, CatchCancelled, CatchRetry, CatchFail, Undecided, At, Local, Settling
<1>2. CASE CatchDurable(w)
  BY <1>1, <1>2, SameRow, FreeMoveSafe DEF CatchDurable, ReturnTo, Free, Local
<1>3. CASE CatchCancelled(w)
  BY <1>1, <1>3, CancelledMoveSafe DEF CatchCancelled, Local
<1>4. CASE CatchRetry(w)
  <2>1. RowStep(row[s], row'[s])
    BY <1>1, <1>4, SameRow, SetStatusStep DEF CatchRetry, Active, Terminal
  <2>2. AttemptFacts(w, "catch", mem[w], row'[s], cap[s], sandbox[s], runs[s])
    BY <1>1, <2>1, RowKeepsAttempt DEF AttemptOf
  <2>3. CASE Go(w, "reset") /\ ~mem[w].recovering
    <3>1. ~mem[w].billable /\ Result(w, "throw")
      BY <1>4 DEF CatchRetry, Retryable
    <3>2. AttemptFacts(w, "reset", mem[w], row'[s], cap[s], sandbox[s], runs[s])
      BY <2>2, <2>3, <3>1 DEF AttemptFacts, Early, Settling, Granted
    <3> QED BY <1>1, <2>1, <2>3, <3>1, <3>2, ResultMoveSafe
  <2>4. CASE ReturnTo(w)
    BY <1>1, <1>4, <2>1, <2>4, ResultFreeMoveSafe DEF CatchRetry, ReturnTo, Free
  <2> QED BY <1>4, <2>3, <2>4, Hand DEF CatchRetry, Mem
<1>5. CASE CatchFail(w)
  <2>1. RowStep(row[s], row'[s])
    BY <1>1, <1>5, SameRow, NotTerminal, SetStatusStep DEF CatchFail
  <2>2. CASE mem' = mem
    BY <1>1, <1>5, <2>1, <2>2, FreeMoveSafe DEF CatchFail, ReturnTo, Free
  <2>3. CASE Result(w, "throw")
    BY <1>1, <1>5, <2>1, <2>3, ResultFreeMoveSafe DEF CatchFail, ReturnTo, Free
  <2> QED BY <1>5, <2>2, <2>3 DEF CatchFail
<1> QED BY <1>2, <1>3, <1>4, <1>5

\* The worker proves that it never entered provider execution before it resets.
LEMMA ResetSafe ==
    ASSUME TypeOK, ExecutionInv, NEW w \in Worker, ResetCapacity(w)
    PROVE  ExecutionInv'
<1> DEFINE s == cur[w]
<1> USE Functions, Hand
<1>1. s \in Scan /\ Elsewhere(s) /\ pc[w] = "reset" /\ UNCHANGED <<sandbox, runs, cur, mem>>
      /\ Go(w, "confirm")
  BY CatchElsewhere DEF CatchStep, ResetCapacity, At, ReturnTo
<1>2. CASE UNCHANGED <<row, cap>>
  BY <1>1, <1>2, SameRow, FreeMoveSafe DEF Free, Settling
<1>3. CASE /\ cap[s].state \in {"WAITING", "RESERVED", "RUNNING"}
           /\ cap' = [cap EXCEPT ![s].state = InitialCap(s)]
           /\ row' = [row EXCEPT ![s].started = FALSE]
  <2> DEFINE c == [cap[s] EXCEPT !.state = InitialCap(s)]
             r == [row[s] EXCEPT !.started = FALSE]
  <2>1. cap'[s] = c /\ row'[s] = r
    BY <1>1, <1>3
  <2>2. c.state \in Unclaimed /\ c.stopped = cap[s].stopped /\ c.settled = cap[s].settled
        /\ c.receipt = cap[s].receipt
    BY <1>1 DEF Cap, InitialCap, Unclaimed
  <2>3. r.status = row[s].status /\ r.manifest = row[s].manifest /\ r.boundary = row[s].boundary
    BY <1>1 DEF Row
  <2> HIDE DEF c, r
  <2>4. /\ ScanFacts(row[s], cap[s], sandbox[s], runs[s])
        /\ AttemptFacts(w, "reset", mem[w], row[s], cap[s], sandbox[s], runs[s])
    BY <1>1 DEF FactsOf, AttemptOf
  <2>5. Unspent(row[s], runs[s]) /\ ~cap[s].stopped /\ ~cap[s].settled /\ ~cap[s].receipt
    BY <1>3, <2>4 DEF ScanFacts, AttemptFacts
  <2>6. ScanFacts(r, c, sandbox[s], runs[s])
    BY <2>2, <2>3, <2>4, <2>5 DEF ScanFacts, Unspent, Unclaimed
  <2>7. AttemptFacts(w, "confirm", mem[w], r, c, sandbox[s], runs[s])
    BY <2>3, <2>4, <2>5 DEF AttemptFacts, Unspent, Early, Settling, Granted
  <2>8. Alone(w) /\ pc'[w] = "confirm" /\ mem'[w] = mem[w]
    BY <1>1, AloneGo
  <2>9. FactsOf(s)' /\ AttemptOf(w)'
    BY <1>1, <2>1, <2>6, <2>7, <2>8 DEF FactsOf, AttemptOf
  <2> QED BY <1>1, <2>8, <2>9, AttemptSafe
<1> QED BY <1>2, <1>3 DEF ResetCapacity

\* A review that waits for capacity is deferred: its reservation is unclaimed.
LEMMA DeferSafe ==
    ASSUME TypeOK, ExecutionInv, NEW w \in Worker, Defer(w) \/ DeferClear(w) \/ DeferMove(w)
    PROVE  ExecutionInv'
<1> DEFINE s == cur[w]
<1> USE Functions, Hand
<1>1. s \in Scan /\ Elsewhere(s) /\ UNCHANGED <<cap, sandbox, runs, cur>> /\ pc[w] \notin Settling
  BY CatchElsewhere DEF CatchStep, Defer, DeferClear, DeferMove, At, rows, Settling
<1>2. /\ ScanFacts(row[s], cap[s], sandbox[s], runs[s])
      /\ AttemptFacts(w, pc[w], mem[w], row[s], cap[s], sandbox[s], runs[s])
  BY <1>1 DEF FactsOf, AttemptOf
<1>3. CASE Defer(w)
  <2>1. pc[w] = "defer" /\ mem' = mem /\ Go(w, "deferClear")
    BY <1>3 DEF Defer, At
  <2>2. RowStep(row[s], row'[s])
    BY <1>1, <1>3, SameRow, SetStatusStep DEF Defer, Active, Terminal
  <2>3. AttemptFacts(w, "defer", mem[w], row'[s], cap[s], sandbox[s], runs[s])
    BY <1>2, <2>1, <2>2, RowKeepsAttempt
  <2>4. AttemptFacts(w, "deferClear", mem[w], row'[s], cap[s], sandbox[s], runs[s])
    BY <2>3 DEF AttemptFacts, Early, Settling, Granted
  <2> QED BY <1>1, <2>1, <2>2, <2>4, AloneGo, RowMoveSafe
<1>4. CASE DeferClear(w)
  <2> DEFINE b == IF row[s].status = "QUEUED" THEN FALSE ELSE row[s].started
             r == [row[s] EXCEPT !.started = b]
  <2>1. pc[w] = "deferClear" /\ mem' = mem /\ Go(w, "deferMove") /\ row'[s] = r
    BY <1>1, <1>4 DEF DeferClear, At
  <2>2. r.status = row[s].status /\ r.manifest = row[s].manifest /\ r.boundary = row[s].boundary
    BY <1>1 DEF Row
  <2> HIDE DEF r
  <2>3. Unspent(row[s], runs[s])
    BY <1>2, <2>1 DEF AttemptFacts, Granted, Unspent
  <2>4. ScanFacts(r, cap[s], sandbox[s], runs[s])
    BY <1>2, <2>2, <2>3 DEF ScanFacts, Unspent
  <2>5. AttemptFacts(w, "deferMove", mem[w], r, cap[s], sandbox[s], runs[s])
    BY <1>2, <2>1, <2>2, <2>3 DEF AttemptFacts, Unspent, Early, Settling, Granted
  <2>6. Alone(w) /\ pc'[w] = "deferMove" /\ mem'[w] = mem[w]
    BY <1>1, <2>1, AloneGo
  <2>7. FactsOf(s)' /\ AttemptOf(w)'
    BY <1>1, <2>1, <2>4, <2>5, <2>6 DEF FactsOf, AttemptOf
  <2> QED BY <1>1, <2>6, <2>7, AttemptSafe
<1>5. CASE DeferMove(w)
  BY <1>1, <1>5, SameRow, ResultFreeMoveSafe DEF DeferMove, rows, ReturnTo, Free
<1> QED BY <1>3, <1>4, <1>5
-----------------------------------------------------------------------------
(***************************************************************************)
(* The finally block, and what may befall an attempt                       *)
(***************************************************************************)
\* The stop is proven only when no container is left, and money is given back
\* only when the attempt owes none.
LEMMA ConfirmSafe ==
    ASSUME TypeOK, AbsentIsUntouched, ExecutionInv, NEW w \in Worker, Confirm(w)
    PROVE  ExecutionInv'
<1> DEFINE s == cur[w]
<1> USE Functions, Hand
<1>1. s \in Scan /\ Elsewhere(s) /\ pc[w] = "confirm" /\ UNCHANGED <<row, sandbox, runs, cur, mem>>
  BY FinallyElsewhere DEF FinallyStep, Confirm, At
<1>2. /\ ScanFacts(row[s], cap[s], sandbox[s], runs[s])
      /\ AttemptFacts(w, "confirm", mem[w], row[s], cap[s], sandbox[s], runs[s])
      /\ cap[s] \in Cap
  BY <1>1 DEF FactsOf, AttemptOf
<1>3. PICK p \in {"releaseStopped", "releaseUnstarted"} : Go(w, p)
  BY DEF Confirm, AfterUnproven
<1>4. Alone(w) /\ pc'[w] = p /\ mem'[w] = mem[w]
  BY <1>1, <1>3, AloneGo
<1>5. ASSUME NEW c,
             AttemptFacts(w, "confirm", mem[w], row[s], cap[s], sandbox[s], runs[s]) =>
                 AttemptFacts(w, p, mem[w], row[s], c, sandbox[s], runs[s]),
             ScanFacts(row[s], c, sandbox[s], runs[s]), cap'[s] = c
      PROVE  ExecutionInv'
  <2>1. FactsOf(s)' /\ AttemptOf(w)'
    BY <1>1, <1>2, <1>4, <1>5 DEF FactsOf, AttemptOf
  <2> QED BY <1>1, <1>4, <2>1, AttemptSafe
<1>6. CASE cap' = cap
  <2>1. AttemptFacts(w, p, mem[w], row[s], cap[s], sandbox[s], runs[s])
    BY <1>2 DEF AttemptFacts, Early, Settling, Granted
  <2> QED BY <1>2, <1>5, <1>6, <2>1
<1>7. CASE /\ StopProven(w) /\ row[s].status \notin Active
           /\ cap' = [cap EXCEPT ![s].state = ConfirmedState(w, s), ![s].stopped = TRUE]
  <2> DEFINE c == [cap[s] EXCEPT !.state = ConfirmedState(w, s), !.stopped = TRUE]
  <2>1. cap'[s] = c
    BY <1>1, <1>7
  <2>2. c.state = ConfirmedState(w, s) /\ c.stopped /\ c.settled = cap[s].settled
        /\ c.receipt = cap[s].receipt
    BY <1>2 DEF Cap
  <2> HIDE DEF c
  <2>3. row[s].status \in Terminal
    BY <1>1, <1>7 DEF AbsentIsUntouched, Created, Status, Row
  <2>4. sandbox[s] = {}
    BY <1>2, <1>7 DEF StopProven, AttemptFacts, ScanFacts, Unspent
  <2>5. /\ c.state \in {"SETTLED", "RELEASED", "REVIEW_REQUIRED"}
        /\ c.state = "SETTLED" <=> c.receipt
    BY <1>2, <2>2 DEF ConfirmedState, ScanFacts
  <2>6. ~mem[w].unbilled => ~cap[s].settled
    BY <1>2 DEF AttemptFacts, ScanFacts, Settling
  <2>7. cap[s].settled => c.state \in {"SETTLED", "RELEASED"}
    BY <1>2, <2>2, <2>6 DEF ConfirmedState, Nonbillable, ScanFacts, AttemptFacts
  <2>8. mem[w].disp = "settlement_required" => c.state \in {"SETTLED", "REVIEW_REQUIRED"}
    BY <1>2, <2>2 DEF ConfirmedState, Nonbillable, ScanFacts, AttemptFacts, Unclaimed
  <2>9. ScanFacts(row[s], c, sandbox[s], runs[s])
    BY <1>2, <2>2, <2>3, <2>4, <2>5, <2>7 DEF ScanFacts, Unclaimed
  <2>10. AttemptFacts(w, p, mem[w], row[s], c, sandbox[s], runs[s])
    BY <1>2, <2>2, <2>4, <2>8 DEF AttemptFacts, Early, Settling, Granted
  <2> QED BY <1>5, <2>1, <2>9, <2>10
<1> QED BY <1>6, <1>7 DEF Confirm

\* The accounting of a proven stop is completed.
LEMMA ReleaseStoppedSafe ==
    ASSUME TypeOK, ExecutionInv, NEW w \in Worker, ReleaseStopped(w)
    PROVE  ExecutionInv'
<1> DEFINE s == cur[w]
<1> USE Functions, Hand
<1>1. s \in Scan /\ Elsewhere(s) /\ pc[w] = "releaseStopped"
      /\ UNCHANGED <<row, sandbox, runs, cur, mem>> /\ Go(w, "releaseUnstarted")
  BY FinallyElsewhere DEF FinallyStep, ReleaseStopped, At
<1>2. /\ ScanFacts(row[s], cap[s], sandbox[s], runs[s])
      /\ AttemptFacts(w, "releaseStopped", mem[w], row[s], cap[s], sandbox[s], runs[s])
      /\ cap[s] \in Cap
  BY <1>1 DEF FactsOf, AttemptOf
<1>3. AttemptFacts(w, "releaseUnstarted", mem[w], row[s], cap[s], sandbox[s], runs[s])
  BY <1>2 DEF AttemptFacts, Early, Settling, Granted
<1>4. Alone(w) /\ pc'[w] = "releaseUnstarted" /\ mem'[w] = mem[w]
  BY <1>1, AloneGo
<1>5. CASE StoppedReleasable(s)
  <2> DEFINE c == [cap[s] EXCEPT !.settled = TRUE]
  <2>1. cap'[s] = c
    BY <1>1, <1>5 DEF ReleaseStopped
  <2>2. c.state = cap[s].state /\ c.stopped = cap[s].stopped /\ c.receipt = cap[s].receipt
    BY <1>2 DEF Cap
  <2> HIDE DEF c
  <2>3. ScanFacts(row[s], c, sandbox[s], runs[s])
    BY <1>2, <1>5, <2>2 DEF ScanFacts, StoppedReleasable
  <2>4. AttemptFacts(w, "releaseUnstarted", mem[w], row[s], c, sandbox[s], runs[s])
    BY <1>3, <2>2 DEF AttemptFacts
  <2>5. FactsOf(s)' /\ AttemptOf(w)'
    BY <1>1, <1>4, <2>1, <2>3, <2>4 DEF FactsOf, AttemptOf
  <2> QED BY <1>1, <1>4, <2>5, AttemptSafe
<1>6. CASE ~StoppedReleasable(s)
  <2>1. cap' = cap
    BY <1>6 DEF ReleaseStopped
  <2> QED BY <1>1, <1>3, <1>4, <2>1, SameRow, RowMoveSafe
<1> QED BY <1>5, <1>6

\* The release of what was never claimed, by the worker itself.
LEMMA FinallyReleasesSafe ==
    ASSUME TypeOK, ExecutionInv, NEW w \in Worker, FinallyReleases(w)
    PROVE  ExecutionInv'
<1> DEFINE s == cur[w]
<1> USE Functions, Hand
<1>1. s \in Scan /\ Elsewhere(s) /\ pc[w] = "releaseUnstarted"
      /\ UNCHANGED <<row, sandbox, runs, cur, mem>> /\ Go(w, "ack")
  BY FinallyElsewhere DEF FinallyStep, FinallyReleases, At
<1>2. /\ ScanFacts(row[s], cap[s], sandbox[s], runs[s])
      /\ AttemptFacts(w, "releaseUnstarted", mem[w], row[s], cap[s], sandbox[s], runs[s])
      /\ cap[s] \in Cap
  BY <1>1 DEF FactsOf, AttemptOf
<1>3. AttemptFacts(w, "ack", mem[w], row[s], cap[s], sandbox[s], runs[s])
  BY <1>2 DEF AttemptFacts, Early, Settling, Granted
<1>4. Alone(w) /\ pc'[w] = "ack" /\ mem'[w] = mem[w]
  BY <1>1, AloneGo
<1>5. CASE UnstartedReleasable(s)
  <2> DEFINE c == [cap[s] EXCEPT !.state = "RELEASED", !.stopped = TRUE, !.settled = TRUE]
  <2>1. cap'[s] = c
    BY <1>1, <1>5 DEF FinallyReleases, ReleaseUnstarted
  <2>2. cap[s].state \in Unclaimed /\ row[s].status \in Terminal
    BY <1>5 DEF UnstartedReleasable, Terminal
  <2>3. c.state = "RELEASED" /\ c.stopped /\ c.settled /\ c.receipt = cap[s].receipt
    BY <1>2 DEF Cap
  <2> HIDE DEF c
  <2>4. ScanFacts(row[s], c, sandbox[s], runs[s])
    BY <1>2, <2>2, <2>3 DEF ScanFacts, Unspent, Unclaimed
  <2>5. mem[w].unbilled
    BY <1>2, <2>2 DEF ScanFacts, AttemptFacts, Unspent
  <2>6. AttemptFacts(w, "ack", mem[w], row[s], c, sandbox[s], runs[s])
    BY <1>3, <2>5 DEF AttemptFacts, Early, Settling, Granted
  <2>7. FactsOf(s)' /\ AttemptOf(w)'
    BY <1>1, <1>4, <2>1, <2>4, <2>6 DEF FactsOf, AttemptOf
  <2> QED BY <1>1, <1>4, <2>7, AttemptSafe
<1>6. CASE ~UnstartedReleasable(s)
  <2>1. cap' = cap
    BY <1>6 DEF FinallyReleases, ReleaseUnstarted
  <2> QED BY <1>1, <1>3, <1>4, <2>1, SameRow, RowMoveSafe
<1> QED BY <1>5, <1>6

LEMMA EndSafe ==
    ASSUME TypeOK, ExecutionInv, NEW w \in Worker, Acknowledge(w) \/ WorkerCrash(w)
    PROVE  ExecutionInv'
<1>1. cur'[w] = NoScan /\ UNCHANGED <<row, cap, sandbox, runs>>
  BY Functions DEF Acknowledge, WorkerCrash, rows
<1>2. Alone(w)
  BY DEF TypeOK, Alone, Acknowledge, WorkerCrash, Go
<1> QED BY <1>1, <1>2, LeavingSafe

LEMMA FaultSafe ==
    ASSUME TypeOK, ExecutionInv, NEW w \in Worker, WorkerFault(w)
    PROVE  ExecutionInv'
<1> DEFINE s == cur[w]
<1> USE Functions, Hand
<1>1. CASE Throw(w) \/ CatchUnreadable(w) \/ DeferError(w) \/ FinallyError(w)
  <2>1. s \in Scan /\ Elsewhere(s) /\ UNCHANGED <<row, cap, sandbox, runs, cur>>
    BY <1>1, FinallyElsewhere DEF Throw, CatchUnreadable, DeferError, FinallyError, At, Local
  <2>2. CASE Throw(w)
    <3>1. pc[w] \notin Settling /\ mem' = mem /\ Go(w, "catch")
      BY <2>2 DEF Throw, TrySteps, Settling, ThrowTo
    <3> QED BY <2>1, <3>1, SameRow, FreeMoveSafe DEF Free
  <2>3. CASE CatchUnreadable(w) \/ DeferError(w)
    <3>1. pc[w] \notin Settling /\ Result(w, "throw") /\ Go(w, "confirm")
      BY <2>3 DEF CatchUnreadable, DeferError, At, Settling, ReturnTo
    <3> QED BY <2>1, <3>1, SameRow, ResultFreeMoveSafe DEF Free
  <2>4. CASE FinallyError(w)
    <3>1. PICK p \in {"releaseUnstarted", "ack"} : Go(w, p)
      BY <2>4 DEF FinallyError
    <3>2. mem' = mem
      BY <2>4 DEF FinallyError
    <3>3. AttemptFacts(w, p, mem[w], row[s], cap[s], sandbox[s], runs[s])
      BY <2>1 DEF AttemptOf, AttemptFacts, Early, Settling, Granted
    <3> QED BY <2>1, <3>1, <3>2, <3>3, AloneGo, SameRow, RowMoveSafe
  <2> QED BY <1>1, <2>2, <2>3, <2>4
<1>2. CASE WorkerCrash(w)
  BY <1>2, EndSafe
<1> QED BY <1>1, <1>2 DEF WorkerFault

LEMMA ExecutionStep ==
    ASSUME TypeOK, AbsentIsUntouched, ExecutionInv, EngineEntered, Exclusive, Next
    PROVE  ExecutionInv'
<1>1. ASSUME NEW w \in Worker, CatchStep(w) PROVE ExecutionInv'
  BY <1>1, CatchSafe, ResetSafe, DeferSafe DEF CatchStep
<1>2. ASSUME NEW w \in Worker, FinallyStep(w) PROVE ExecutionInv'
  BY <1>2, ConfirmSafe, ReleaseStoppedSafe, FinallyReleasesSafe, EndSafe DEF FinallyStep
<1> QED BY <1>1, <1>2, CallerSafe, QueueSafe, TrySafe, FaultSafe DEF Next, WorkerStep

\* Only the engine's return and the deterministic executor lead to "returned".
LEMMA EnteredStep ==
    ASSUME TypeOK, ExecutionInv, EngineEntered, Next
    PROVE  EngineEntered'
<1> USE DEF EngineEntered
<1>0. /\ pc \in [Worker -> PC] /\ mem \in [Worker -> Mem]
      /\ cur \in [Worker -> Scan \cup {NoScan}]
  BY DEF TypeOK
<1>1. ASSUME NEW w \in Worker, NEW step, step # "returned", Go(w, step), cur' = cur,
             \/ mem' = mem
             \/ \E m : mem' = [mem EXCEPT ![w] = m]
      PROVE  EngineEntered'
  BY <1>0, <1>1 DEF Go
<1>2. ASSUME NEW w \in Worker, NEW step, step # "returned", Go(w, step), NEW t, NEW m,
             cur' = [cur EXCEPT ![w] = t], mem' = [mem EXCEPT ![w] = m]
      PROVE  EngineEntered'
  BY <1>0, <1>2 DEF Go
<1>3. ASSUME NEW s \in Scan, CallerStep(s) PROVE EngineEntered'
  BY <1>3 DEF CallerStep, CreateScan, Publish, PublishUncertain, PublishRefused,
              CancelScan, CallerReleases, CallerCrash, wk
<1>4. ASSUME NEW s \in Scan, QueueStep(s) PROVE EngineEntered'
  <2>1. ASSUME NEW w \in Worker, Deliver(w, s) PROVE EngineEntered'
    BY <2>1, <1>2 DEF Deliver
  <2>2. CASE UNCHANGED wk
    BY <2>2 DEF wk
  <2> QED BY <1>4, <2>1, <2>2 DEF QueueStep, Stalled, FailedEvent, ReconcileOrphan, RemoveJob,
                                  DeliveryFails, Deny, SandboxExits
<1>5. ASSUME NEW w \in Worker, TryStep(w) PROVE EngineEntered'
  <2>1. cur' = cur
    BY <1>5, TryKeeps
  <2>2. CASE \/ Resume(w) \/ Prepare(w) \/ Admitted(w)
             \/ Refuse(w, "admit") \/ Refuse(w, "execute") \/ Refuse(w, "returned")
    BY <1>1, <2>1, <2>2 DEF Resume, Prepare, Admitted, Refuse, ReturnTo, ThrowTo
  <2>3. CASE Reserve(w) \/ ReserveWait(w) \/ Claim(w) \/ ClaimWait(w) \/ StartUnmetered(w)
    BY <1>1, <2>1, <2>3 DEF Reserve, ReserveWait, Claim, ClaimWait, ReserveTo, StartUnmetered,
                            ThrowTo
  <2>4. CASE BeginRunning(w) \/ EnterBillable(w) \/ LaunchCancelled(w) \/ Launch(w)
             \/ Observe(w) \/ Route(w)
    BY <1>1, <2>1, <2>4 DEF BeginRunning, EnterBillable, LaunchCancelled, Launch, Observe, Route,
                            ReturnTo, ThrowTo
  <2>5. CASE SettleCancelled(w) \/ EarlySeal(w) \/ EarlyFinish(w) \/ BeginVerifying(w)
    BY <1>1, <2>1, <2>5 DEF SettleCancelled, EarlySeal, EarlyFinish, BeginVerifying, ReturnTo,
                            ThrowTo
  <2>6. CASE ClaimFinalization(w) \/ Seal(w) \/ Finish(w) \/ Commit(w)
    BY <1>1, <2>1, <2>6 DEF ClaimFinalization, Seal, Finish, Commit, ReturnTo, ThrowTo
  <2>7. CASE Execute(w)
    <3>1. CASE cur[w] \in EngineScan
      BY <1>1, <2>1, <2>7, <3>1 DEF Execute, ReturnTo
    <3>2. CASE cur[w] \notin EngineScan
      BY <1>0, <2>1, <2>7, <3>2 DEF Execute, Go
    <3> QED BY <3>1, <3>2
  <2>8. CASE EngineReturns(w)
    <3>1. pc[w] = "engine" /\ cur[w] \in Scan /\ Go(w, "returned")
          /\ \E b : mem' = [mem EXCEPT ![w].returned = b]
      BY <2>8 DEF EngineReturns, At
    <3>2. mem[w].billable
      BY <3>1 DEF ExecutionInv, AttemptsSafe, AttemptOf, AttemptFacts, Early
    <3>3. mem'[w].billable
      BY <1>0, <3>1, <3>2 DEF Mem
    <3> QED BY <1>0, <2>1, <3>1, <3>3 DEF Go
  <2> QED BY <1>5, <2>2, <2>3, <2>4, <2>5, <2>6, <2>7, <2>8 DEF TryStep
<1>6. ASSUME NEW w \in Worker, CatchStep(w) PROVE EngineEntered'
  <2>1. cur' = cur
    BY <1>6, CatchKeeps
  <2>2. CASE CatchDurable(w) \/ CatchCancelled(w) \/ CatchRetry(w) \/ CatchFail(w)
    BY <1>1, <2>1, <2>2 DEF CatchDurable, CatchCancelled, CatchRetry, CatchFail, Result, ReturnTo
  <2>3. CASE ResetCapacity(w) \/ Defer(w) \/ DeferClear(w) \/ DeferMove(w)
    BY <1>1, <2>1, <2>3 DEF ResetCapacity, Defer, DeferClear, DeferMove, Result, ReturnTo
  <2> QED BY <1>6, <2>2, <2>3 DEF CatchStep
<1>7. ASSUME NEW w \in Worker, FinallyStep(w) PROVE EngineEntered'
  <2>1. CASE Confirm(w) \/ ReleaseStopped(w) \/ FinallyReleases(w)
    BY <1>1, <2>1 DEF Confirm, AfterUnproven, ReleaseStopped, FinallyReleases
  <2>2. CASE Acknowledge(w)
    BY <1>2, <2>2 DEF Acknowledge
  <2> QED BY <1>7, <2>1, <2>2 DEF FinallyStep
<1>8. ASSUME NEW w \in Worker, WorkerFault(w) PROVE EngineEntered'
  <2>1. CASE Throw(w) \/ CatchUnreadable(w) \/ DeferError(w) \/ FinallyError(w)
    BY <1>1, <2>1 DEF Throw, CatchUnreadable, DeferError, FinallyError, Result, ReturnTo, ThrowTo,
                      Local
  <2>2. CASE WorkerCrash(w)
    BY <1>2, <2>2 DEF WorkerCrash
  <2> QED BY <1>8, <2>1, <2>2 DEF WorkerFault
<1> QED BY <1>3, <1>4, <1>5, <1>6, <1>7, <1>8 DEF Next, WorkerStep

LEMMA ExecutionInit == Init => ExecutionInv
BY NoneAssumption DEF Init, ExecutionInv, OneAttempt, ScansSafe, FactsOf, ScanFacts,
                      AttemptsSafe, Unspent, Unclaimed, NoneAssumption

\* What every theorem below is read off from.
SafeInv == /\ TypeOK /\ JobBounds /\ AbsentIsUntouched
           /\ SlotIsUnsettledScan /\ ExecutionInv /\ EngineEntered

LEMMA SafeStart == Init => SafeInv
BY InitTyped, ExecutionInit, OwnerAssumption, NoneAssumption
   DEF SafeInv, EngineEntered, Init, SlotIsUnsettledScan, Created, OwnerAssumption, NoneAssumption

LEMMA SafeStep ==
    ASSUME Exclusive, SafeInv, [Next]_vars
    PROVE  SafeInv'
<1>1. CASE Next
  BY <1>1, TypeStep, AbsentStep, SlotStep, ExecutionStep, EnteredStep DEF SafeInv
<1>2. CASE UNCHANGED vars
  BY <1>2, TypeStep DEF SafeInv, vars, AbsentIsUntouched, SlotIsUnsettledScan, Created,
        ExecutionInv, OneAttempt, ScansSafe, FactsOf, AttemptsSafe, AttemptOf, EngineEntered
<1> QED BY <1>1, <1>2

LEMMA SafeAlways == ASSUME Exclusive PROVE Spec => []SafeInv
<1>1. Init => SafeInv
  BY SafeStart
<1>2. SafeInv /\ [Next]_vars => SafeInv'
  BY SafeStep
<1> QED BY <1>1, <1>2, PTL DEF Spec
-----------------------------------------------------------------------------
(***************************************************************************)
(* What follows for the scan's money and its slot                          *)
(***************************************************************************)
LEMMA SafeFacts ==
    ASSUME SafeInv, NEW s \in Scan
    PROVE  /\ ScanFacts(row[s], cap[s], sandbox[s], runs[s])
           /\ row[s] \in Row /\ cap[s] \in Cap /\ sandbox[s] \subseteq Worker /\ runs[s] \in Nat
BY Functions DEF SafeInv, ExecutionInv, ScansSafe, FactsOf

\* Paid work is never replayed: however often a job is retried, redelivered after a
\* crash or deferred, at most one provider execution of a review starts.
THEOREM PaidOnce == ASSUME Exclusive PROVE Spec => []NoPaidReplay
<1>1. SafeInv => NoPaidReplay
  BY SafeFacts DEF ScanFacts, NoPaidReplay
<1> QED BY <1>1, SafeAlways, PTL

LEMMA Covered ==
    ASSUME SafeInv, NEW s \in Scan, ~cap[s].settled, runs[s] > 0
    PROVE  slot[Owner[s]] = s
<1>1. Created(s)
  BY DEF SafeInv, AbsentIsUntouched
<1> QED BY <1>1 DEF SafeInv, SlotIsUnsettledScan

\* While a provider container of a review executes, the review keeps its user's
\* slot and has no stop receipt, also across a worker's crash and the next attempt.
THEOREM ExecutionCovered == ASSUME Exclusive PROVE Spec => []SlotCoversExecution
<1>1. ASSUME SafeInv, NEW s \in Scan, sandbox[s] # {}
      PROVE  slot[Owner[s]] = s /\ ~cap[s].stopped
  <2>1. runs[s] = 1 /\ ~cap[s].stopped /\ ~cap[s].settled
    BY <1>1, SafeFacts DEF ScanFacts
  <2> QED BY <1>1, <2>1, Covered
<1>2. SafeInv => SlotCoversExecution
  BY <1>1 DEF SlotCoversExecution
<1> QED BY <1>2, SafeAlways, PTL

\* A settled review has ended, has its stop receipt and holds no money, for good:
\* no confirmation, reset or reservation of a late attempt reopens it.
THEOREM SettledStays == ASSUME Exclusive PROVE Spec => []SettledIsFinal
<1>1. SafeInv => SettledIsFinal
  BY SafeFacts DEF ScanFacts, SettledIsFinal, Ended
<1> QED BY <1>1, SafeAlways, PTL

\* A receipt is a settled reservation, for one execution, never of a failed review,
\* and but for a cancellation for exactly the sealed outcome.
THEOREM ChargeIsForOutcome == ASSUME Exclusive PROVE Spec => []ChargeMatchesOutcome
<1>1. ASSUME SafeInv, NEW s \in Scan
      PROVE  /\ cap[s].receipt <=> cap[s].state = "SETTLED"
             /\ cap[s].receipt => /\ runs[s] = 1
                                  /\ row[s].status \in Charged \cup {"CANCELLED"}
             /\ cap[s].receipt /\ row[s].status # "CANCELLED" =>
                                      row[s].manifest = row[s].status
  BY <1>1, SafeFacts DEF ScanFacts
<1>2. SafeInv => ChargeMatchesOutcome
  BY <1>1 DEF ChargeMatchesOutcome, Charged
<1> QED BY <1>2, SafeAlways, PTL

\* A failure between the sealed manifest and the meter never ends in a refund of
\* work that must be paid: such an attempt sees no release without a receipt.
THEOREM PaidBeforeReleased == ASSUME Exclusive PROVE Spec => []SettlementBeforeRelease
<1>1. ASSUME SafeInv, NEW w \in Worker, NEW s \in Scan, cur[w] = s,
             mem[w].disp = "settlement_required", cap[s].settled
      PROVE  cap[s].receipt
  <2>1. AttemptFacts(w, pc[w], mem[w], row[s], cap[s], sandbox[s], runs[s])
    BY <1>1 DEF SafeInv, ExecutionInv, AttemptsSafe, AttemptOf
  <2> QED BY <1>1, <2>1, SafeFacts DEF AttemptFacts, ScanFacts
<1>2. SafeInv => SettlementBeforeRelease
  BY <1>1 DEF SettlementBeforeRelease
<1> QED BY <1>2, SafeAlways, PTL
-----------------------------------------------------------------------------
(***************************************************************************)
(* What a step does to the containers and to the boundary event            *)
(***************************************************************************)
LEMMA ContainerSteps ==
    ASSUME TypeOK, Next
    PROVE  \/ UNCHANGED <<sandbox, runs>>
           \/ /\ UNCHANGED <<row, cap, slot>>
              /\ \E w \in Worker : \/ Launch(w) \/ EngineReturns(w)
                                   \/ \E s \in Scan : SandboxExits(w, s)
<1> DEFINE Still == UNCHANGED <<sandbox, runs>>
<1>1. ASSUME NEW s \in Scan, CallerStep(s) PROVE Still
  BY <1>1 DEF CallerStep, CreateScan, Publish, PublishUncertain, PublishRefused, CancelScan,
              CallerReleases, CallerCrash
<1>2. ASSUME NEW s \in Scan, QueueStep(s), \A w \in Worker : ~SandboxExits(w, s) PROVE Still
  BY <1>2 DEF QueueStep, Stalled, FailedEvent, ReconcileOrphan, RemoveJob, Deliver,
              DeliveryFails, Deny
<1>3. ASSUME NEW w \in Worker, TryStep(w), ~Launch(w), ~EngineReturns(w) PROVE Still
  BY <1>3 DEF TryStep, Resume, Prepare, Admitted, Refuse, Reserve, ReserveWait, Claim, ClaimWait,
           ReserveTo, StartUnmetered, BeginRunning, Execute, EnterBillable, LaunchCancelled,
           Observe, Route, SettleCancelled, EarlySeal, EarlyFinish, BeginVerifying,
           ClaimFinalization, Seal, Finish, Commit, Local
<1>4. ASSUME NEW w \in Worker, CatchStep(w) PROVE Still
  BY <1>4, CatchKeeps
<1>5. ASSUME NEW w \in Worker, FinallyStep(w) \/ WorkerFault(w) PROVE Still
  BY <1>5 DEF FinallyStep, Confirm, ReleaseStopped, FinallyReleases, Acknowledge,
              WorkerFault, Throw, CatchUnreadable, DeferError, FinallyError, WorkerCrash, Local
<1>6. ASSUME NEW w \in Worker,
             \/ Launch(w) \/ EngineReturns(w) \/ \E s \in Scan : SandboxExits(w, s)
      PROVE  UNCHANGED <<row, cap, slot>>
  BY <1>6 DEF Launch, EngineReturns, SandboxExits, rows
<1> QED BY <1>1, <1>2, <1>3, <1>4, <1>5, <1>6 DEF Next, WorkerStep

LEMMA BoundaryByStatus ==
    ASSUME row \in [Scan -> Row], NEW s \in Scan, NEW to, SetStatus(s, to) \/ SetStarted(s, to)
    PROVE  \A t \in Scan : row'[t].boundary = row[t].boundary
BY DEF SetStatus, SetStarted, Row

\* Neither the boundary event nor a provider execution is ever taken back.
LEMMA BoundaryLasts ==
    ASSUME TypeOK, Next
    PROVE  \A s \in Scan : row[s].boundary => row'[s].boundary
<1> DEFINE Keeps == \A s \in Scan : row[s].boundary => row'[s].boundary
<1> USE Functions, BoundaryByStatus
<1>1. ASSUME NEW s \in Scan, CallerStep(s) PROVE Keeps
  <2>1. CASE CreateScan(s)
    BY <2>1 DEF CreateScan, Row
  <2>2. CASE PublishRefused(s) \/ CancelScan(s)
    BY <2>2 DEF PublishRefused, CancelScan
  <2>3. CASE row' = row
    BY <2>3
  <2> QED BY <1>1, <2>1, <2>2, <2>3 DEF CallerStep, Publish, PublishUncertain, CallerReleases,
                                        CallerCrash, rows
<1>2. ASSUME NEW s \in Scan, QueueStep(s) PROVE Keeps
  <2>1. CASE FailedEvent(s) \/ ReconcileOrphan(s) \/ \E w \in Worker : Deny(w, s)
    BY <2>1 DEF FailedEvent, ReconcileOrphan, Deny
  <2>2. CASE row' = row
    BY <2>2
  <2> QED BY <1>2, <2>1, <2>2 DEF QueueStep, Stalled, RemoveJob, Deliver,
                                        DeliveryFails, SandboxExits, rows
<1>3. ASSUME NEW w \in Worker, TryStep(w) PROVE Keeps
  <2> DEFINE s == cur[w]
  <2>1. s \in Scan
    BY <1>3, TryInHand
  <2>2. CASE Resume(w) \/ Prepare(w) \/ BeginRunning(w)
    BY <2>1, <2>2 DEF Resume, Prepare, BeginRunning
  <2>3. CASE \/ Refuse(w, "admit") \/ Refuse(w, "execute") \/ Refuse(w, "returned")
             \/ BeginVerifying(w) \/ EarlyFinish(w) \/ Finish(w)
    BY <2>1, <2>3 DEF Refuse, BeginVerifying, EarlyFinish, Finish
  <2>4. CASE EnterBillable(w)
    BY <2>1, <2>4 DEF EnterBillable, Row
  <2>5. CASE EarlySeal(w)
    BY <2>1, <2>5 DEF EarlySeal, Row
  <2>6. CASE ClaimFinalization(w)
    BY <2>1, <2>6 DEF ClaimFinalization, Row
  <2>7. CASE Seal(w)
    <3>1. row' = row \/ \E v \in Verdict : row' = [row EXCEPT ![s].manifest = v]
      BY <2>7 DEF Seal
    <3> QED BY <2>1, <3>1 DEF Row
  <2>8. CASE row' = row
    BY <2>8
  <2> QED
    BY <1>3, <2>2, <2>3, <2>4, <2>5, <2>6, <2>7, <2>8
       DEF TryStep, Admitted, Reserve, ReserveWait, Claim, ClaimWait, ReserveTo, StartUnmetered,
           Execute, LaunchCancelled, Launch, EngineReturns, Observe, Route,
           SettleCancelled, Commit, Local, rows
<1>4. ASSUME NEW w \in Worker, CatchStep(w) PROVE Keeps
  <2>1. cur[w] \in Scan
    BY <1>4, CatchGoes
  <2>2. CASE CatchRetry(w) \/ CatchFail(w) \/ Defer(w)
    BY <2>1, <2>2 DEF CatchRetry, CatchFail, Defer
  <2>3. CASE ResetCapacity(w) \/ DeferClear(w)
    <3>1. row' = row \/ \E b : row' = [row EXCEPT ![cur[w]].started = b]
      BY <2>3 DEF ResetCapacity, DeferClear
    <3> QED BY <2>1, <3>1 DEF Row
  <2>4. CASE row' = row
    BY <2>4
  <2> QED BY <1>4, <2>2, <2>3, <2>4 DEF CatchStep, CatchDurable, CatchCancelled, DeferMove, Local, rows
<1>5. ASSUME NEW w \in Worker, FinallyStep(w) \/ WorkerFault(w) PROVE Keeps
  BY <1>5 DEF FinallyStep, Confirm, ReleaseStopped, FinallyReleases, Acknowledge,
              WorkerFault, Throw, CatchUnreadable, DeferError, FinallyError, WorkerCrash, Local, rows
<1> QED BY <1>1, <1>2, <1>3, <1>4, <1>5 DEF Next, WorkerStep

LEMMA RunsLast ==
    ASSUME TypeOK, Next
    PROVE  \A s \in Scan : runs[s] # 0 => runs'[s] # 0
<1>1. ASSUME NEW w \in Worker, Launch(w) PROVE \A s \in Scan : runs[s] # 0 => runs'[s] # 0
  BY <1>1, Functions DEF Launch, At
<1>2. ASSUME NEW w \in Worker, EngineReturns(w) \/ \E s \in Scan : SandboxExits(w, s)
      PROVE  runs' = runs
  BY <1>2 DEF EngineReturns, SandboxExits
<1> QED BY <1>1, <1>2, ContainerSteps

\* A claimed reservation goes back to unclaimed (a reset before a retry) only while
\* no attempt of the review passed the billable boundary or started a container.
THEOREM ResetBeforeProvider == ASSUME Exclusive PROVE Spec => ResetNeverAfterProvider
<1>1. ASSUME SafeInv, SafeInv', Next, NEW s \in Scan, cap'[s].state \in Unclaimed
      PROVE  ~row[s].boundary /\ runs[s] = 0
  <2>1. Unspent(row'[s], runs'[s])
    BY <1>1 DEF SafeInv, ExecutionInv, ScansSafe, FactsOf, ScanFacts
  <2> QED BY <1>1, <2>1, BoundaryLasts, RunsLast DEF SafeInv, Unspent
<1>2. SafeInv /\ SafeInv' /\ [Next]_vars =>
          [\A s \in Scan : cap[s].state = "RUNNING" /\ cap'[s].state \in Unclaimed
                               => ~row[s].boundary /\ runs[s] = 0]_vars
  BY <1>1
<1> QED BY <1>2, SafeAlways, PTL DEF Spec, ResetNeverAfterProvider
-----------------------------------------------------------------------------
(***************************************************************************)
(* Every step is one of the user's slot, or leaves it alone                *)
(***************************************************************************)
\* A step that only moves containers.
LEMMA ContainerRefines ==
    ASSUME Exclusive, SafeInv, SafeInv', Next, UNCHANGED <<row, cap, slot>>,
           NEW w \in Worker, \/ Launch(w) \/ EngineReturns(w)
                             \/ \E s \in Scan : SandboxExits(w, s)
    PROVE  [Promise!Next]_(Promise!vars)
<1> DEFINE admitted  == {s \in Scan : Created(s)}
           started   == {s \in Scan : runs[s] > 0}
           executing == {s \in Scan : sandbox[s] # {}}
<1> USE Functions
<1>0. TypeOK /\ admitted' = admitted /\ slot' = slot
  BY DEF SafeInv, Created
<1>1. ASSUME NEW t \in Scan, t = cur[w], Launch(w)
      PROVE  [Promise!Next]_(Promise!vars)
  <2>1. /\ t = cur[w] /\ pc[w] = "launch"
        /\ sandbox' = [sandbox EXCEPT ![t] = @ \cup {w}]
        /\ runs' = [runs EXCEPT ![t] = @ + 1]
    BY <1>1 DEF Launch, At
  <2>2. runs[t] = 0 /\ runs[t] \in Nat
    <3>1. runs'[t] = runs[t] + 1 /\ runs[t] \in Nat
      BY <1>0, <2>1
    <3>2. runs'[t] <= 1
      BY <2>1 DEF SafeInv, ExecutionInv, ScansSafe, FactsOf, ScanFacts
    <3> QED BY <3>1, <3>2
  <2>3. cap[t].state = "RUNNING" /\ ScanFacts(row[t], cap[t], sandbox[t], runs[t])
    BY <2>1 DEF SafeInv, ExecutionInv, ScansSafe, FactsOf, AttemptsSafe, AttemptOf, AttemptFacts
  <2>4. slot[Owner[t]] = t
    <3>1. ~cap[t].settled
      BY <2>3 DEF ScanFacts
    <3>2. Created(t)
      BY <2>1 DEF SafeInv, AbsentIsUntouched
    <3> QED BY <2>1, <3>1, <3>2 DEF SafeInv, SlotIsUnsettledScan
  <2>5. started' = started \cup {t} /\ t \notin started
    BY <1>0, <2>1, <2>2
  <2>6. executing' = executing \cup {t}
    BY <1>0, <2>1
  <2>7. Promise!Start(t)
    BY <1>0, <2>4, <2>5, <2>6 DEF Promise!Start
  <2> QED BY <2>7 DEF Promise!Next
<1>2. ASSUME NEW t \in Scan, sandbox' = [sandbox EXCEPT ![t] = sandbox[t] \ {w}], runs' = runs
      PROVE  [Promise!Next]_(Promise!vars)
  <2> DEFINE X == sandbox[t] \ {w}
  <2>1. started' = started
    BY <1>2
  <2>2. CASE X = {} /\ sandbox[t] # {}
    <3>1. executing' = executing \ {t} /\ t \in executing
      BY <1>0, <1>2, <2>2
    <3>2. Promise!Stop(t)
      BY <1>0, <2>1, <3>1 DEF Promise!Stop
    <3> QED BY <3>2 DEF Promise!Next
  <2>3. CASE X # {} \/ sandbox[t] = {}
    <3>1. executing' = executing
      BY <1>0, <1>2, <2>3
    <3> QED BY <1>0, <2>1, <3>1 DEF Promise!vars
  <2> QED BY <2>2, <2>3
<1>3. CASE EngineReturns(w)
  <2>1. cur[w] \in Scan /\ runs' = runs
        /\ \/ sandbox' = sandbox
           \/ sandbox' = [sandbox EXCEPT ![cur[w]] = sandbox[cur[w]] \ {w}]
    BY <1>3 DEF EngineReturns, At
  <2>2. CASE sandbox' = sandbox
    BY <1>0, <2>1, <2>2 DEF Promise!vars
  <2>3. CASE sandbox' = [sandbox EXCEPT ![cur[w]] = sandbox[cur[w]] \ {w}]
    BY <1>2, <2>1, <2>3
  <2> QED BY <2>1, <2>2, <2>3
<1>4. ASSUME NEW t \in Scan, SandboxExits(w, t) PROVE [Promise!Next]_(Promise!vars)
  <2>1. runs' = runs /\ sandbox' = [sandbox EXCEPT ![t] = sandbox[t] \ {w}]
    BY <1>4 DEF SandboxExits
  <2> QED BY <1>2, <2>1
<1>5. Launch(w) => cur[w] \in Scan
  BY DEF Launch, At
<1> QED BY <1>1, <1>3, <1>4, <1>5

\* A scan that may give its slot back executes nothing.
LEMMA ReleaseRefines ==
    ASSUME SafeInv, UNCHANGED <<row, sandbox, runs>>, NEW t \in Scan, sandbox[t] = {},
           slot' = slot \/ slot' = [slot EXCEPT ![Owner[t]] = IF @ = t THEN NoScan ELSE @]
    PROVE  [Promise!Next]_(Promise!vars)
<1>1. {s \in Scan : Created(s)}' = {s \in Scan : Created(s)}
  BY DEF Created
<1>2. Owner[t] \in User /\ slot \in [User -> Scan \cup {NoScan}]
  BY OwnerAssumption DEF OwnerAssumption, SafeInv, TypeOK
<1>3. CASE slot' = slot
  BY <1>1, <1>3 DEF Promise!vars
<1>4. CASE slot' = [slot EXCEPT ![Owner[t]] = IF @ = t THEN NoScan ELSE @] /\ slot[Owner[t]] = t
  <2>1. slot' = [slot EXCEPT ![Owner[t]] = NoScan]
    BY <1>2, <1>4
  <2>2. Promise!Release(t)
    BY <1>1, <1>4, <2>1 DEF Promise!Release
  <2> QED BY <2>2 DEF Promise!Next
<1>5. CASE slot' = [slot EXCEPT ![Owner[t]] = IF @ = t THEN NoScan ELSE @] /\ slot[Owner[t]] # t
  <2>1. slot' = slot
    BY <1>2, <1>5
  <2> QED BY <1>1, <2>1 DEF Promise!vars
<1> QED BY <1>3, <1>4, <1>5

LEMMA SlotStepRefines ==
    ASSUME Exclusive, SafeInv, SafeInv', Next
    PROVE  [Promise!Next]_(Promise!vars)
<1> USE Functions
<1>0. TypeOK
  BY DEF SafeInv
<1>1. CASE ~UNCHANGED <<sandbox, runs>>
  BY <1>0, <1>1, ContainerSteps, ContainerRefines
<1>2. ASSUME UNCHANGED <<sandbox, runs>>, NEW t \in Scan, CreateScan(t)
      PROVE  [Promise!Next]_(Promise!vars)
  <2>1. ~Created(t) /\ \A s \in Scan : Created(s)' <=> (s = t \/ Created(s))
    BY <1>0, <1>2 DEF CreateScan, Created, Row
  <2>2. {s \in Scan : Created(s)}' = {s \in Scan : Created(s)} \cup {t}
    BY <2>1
  <2>3. Promise!Admit(t)
    BY <1>2, <2>1, <2>2 DEF CreateScan, SlotFree, Promise!Admit
  <2> QED BY <2>3 DEF Promise!Next
<1>3. ASSUME UNCHANGED <<sandbox, runs>>, NEW t \in Scan, ReleaseUnstarted(t), row' = row
      PROVE  [Promise!Next]_(Promise!vars)
  <2>1. CASE UnstartedReleasable(t)
    <3>1. sandbox[t] = {}
      BY <2>1, SafeFacts DEF UnstartedReleasable, ScanFacts, Unspent
    <3>2. slot' = [slot EXCEPT ![Owner[t]] = IF @ = t THEN NoScan ELSE @]
      BY <1>3, <2>1 DEF ReleaseUnstarted
    <3> QED BY <1>3, <3>1, <3>2, ReleaseRefines
  <2>2. CASE ~UnstartedReleasable(t)
    BY <1>3, <2>2 DEF ReleaseUnstarted, Promise!vars, Created
  <2> QED BY <2>1, <2>2
<1>4. ASSUME UNCHANGED <<sandbox, runs>>, NEW w \in Worker, ReleaseStopped(w)
      PROVE  [Promise!Next]_(Promise!vars)
  <2> DEFINE t == cur[w]
  <2>1. t \in Scan /\ row' = row
    BY <1>4 DEF ReleaseStopped, At
  <2>2. CASE StoppedReleasable(t)
    <3>1. sandbox[t] = {}
      BY <2>1, <2>2, SafeFacts DEF StoppedReleasable, ScanFacts
    <3>2. slot' = [slot EXCEPT ![Owner[t]] = IF @ = t THEN NoScan ELSE @]
      BY <1>4, <2>2 DEF ReleaseStopped
    <3> QED BY <1>4, <2>1, <3>1, <3>2, ReleaseRefines
  <2>3. CASE ~StoppedReleasable(t)
    BY <1>4, <2>1, <2>3 DEF ReleaseStopped, Promise!vars, Created
  <2> QED BY <2>2, <2>3
<1>5. ASSUME UNCHANGED <<sandbox, runs>>, KeepsSlots, StatusMoves
      PROVE  [Promise!Next]_(Promise!vars)
  <2>1. \A s \in Scan : Created(s)' <=> Created(s)
    BY <1>5 DEF StatusMoves, StatusMove, Created, Next1, Active
  <2>2. {s \in Scan : Created(s)}' = {s \in Scan : Created(s)}
    BY <2>1
  <2> QED BY <1>5, <2>2 DEF KeepsSlots, Promise!vars
<1> QED BY <1>0, <1>1, <1>2, <1>3, <1>4, <1>5, SlotSteps, StatusSteps

\* The scan, its reservation, its queue job and its workers together are the user's
\* slot of ReviewSlot: admitted into a free slot, one paid execution while it is
\* held, and given back once, when no container of the review executes.
THEOREM LifecycleRefines == ASSUME Exclusive PROVE Spec => ImplementsReviewSlot
<1>1. Init => Promise!Init
  BY DEF Init, Promise!Init, Created
<1>2. SafeInv /\ SafeInv' /\ [Next]_vars => [Promise!Next]_(Promise!vars)
  <2>1. ASSUME SafeInv, SafeInv', Next PROVE [Promise!Next]_(Promise!vars)
    BY <2>1, SlotStepRefines
  <2>2. ASSUME UNCHANGED vars PROVE UNCHANGED Promise!vars
    BY <2>2 DEF vars, Promise!vars, Created
  <2> QED BY <2>1, <2>2
<1> QED BY <1>1, <1>2, SafeAlways, PTL DEF Spec, ImplementsReviewSlot, Promise!Spec
=============================================================================
