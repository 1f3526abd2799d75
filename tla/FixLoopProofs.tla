---------------------------- MODULE FixLoopProofs ----------------------------
(***************************************************************************)
(* The safety of fix pull requests and of their loop closure, for every    *)
(* number of approvals, requests, deliveries and sweeps, and any mishaps.  *)
(***************************************************************************)
EXTENDS FixLoopSafety, TLAPS

Places == Executing \cup {"idle", "ask", "inspect", "persist"}
Notes  == {"none", "recovery", "failed", "stale"} \cup Opened

-----------------------------------------------------------------------------
(* What a step does to the request that takes it, to an approval, to a task. *)
Puts(p, w)  == work' \in [Request -> Works] /\ \A q \in Request : work'[q] = IF q = p THEN w ELSE work[q]
Gives(a, r) == approval' \in [Approval -> Approvals]
               /\ \A b \in Approval : approval'[b] = IF b = a THEN r ELSE approval[b]
Turns(h, t) == task' \in [Handler -> Tasks] /\ \A i \in Handler : task'[i] = IF i = h THEN t ELSE task[i]

LEMMA GoesPuts ==
    ASSUME TypeOK, NEW p \in Request
    PROVE  \A c \in Places : Goes(p, c) =>
               Puts(p, [pc |-> c, own |-> work[p].own, note |-> work[p].note])
<1> SUFFICES ASSUME NEW c \in Places, Goes(p, c)
             PROVE  Puts(p, [pc |-> c, own |-> work[p].own, note |-> work[p].note])
  OBVIOUS
<1> DEFINE w == [pc |-> c, own |-> work[p].own, note |-> work[p].note]
<1>1. w \in Works /\ [work[p] EXCEPT !.pc = c] = w
  BY DEF TypeOK, Works, Places
<1>2. work' = [work EXCEPT ![p] = w]
  BY <1>1 DEF Goes
<1> HIDE DEF w
<1> QED BY <1>1, <1>2 DEF TypeOK, Puts, w

LEMMA NotingPuts ==
    ASSUME TypeOK, NEW p \in Request
    PROVE  \A c \in Places : \A n \in Notes :
               Noting(p, c, n) => Puts(p, [pc |-> c, own |-> work[p].own, note |-> n])
BY DEF TypeOK, Noting, Puts, Works, Places, Notes

LEMMA TakesPuts ==
    ASSUME TypeOK, NEW p \in Request
    PROVE  \A c \in Places : \A a \in Approval :
               Takes(p, c, a) => Puts(p, [pc |-> c, own |-> a, note |-> "none"])
BY DEF TypeOK, Takes, Puts, Works, Places

LEMMA RestsPuts ==
    ASSUME TypeOK, NEW p \in Request, Rests(p)
    PROVE  Puts(p, Idle)
BY DEF TypeOK, Rests, Puts, Idle, Works

LEMMA BecomesGives ==
    ASSUME TypeOK
    PROVE  \A a \in Approval : \A s \in {"PENDING", "APPROVED", "DENIED", "EXPIRED"} \cup Claimed :
               Becomes(a, s) => Gives(a, [status |-> s, live |-> approval[a].live])
<1> SUFFICES ASSUME NEW a \in Approval,
                    NEW s \in {"PENDING", "APPROVED", "DENIED", "EXPIRED"} \cup Claimed, Becomes(a, s)
             PROVE  Gives(a, [status |-> s, live |-> approval[a].live])
  OBVIOUS
<1> DEFINE r == [status |-> s, live |-> approval[a].live]
<1>1. r \in Approvals /\ [approval[a] EXCEPT !.status = s] = r
  BY DEF TypeOK, Approvals
<1>2. approval' = [approval EXCEPT ![a] = r]
  BY <1>1 DEF Becomes
<1> HIDE DEF r
<1> QED BY <1>1, <1>2 DEF TypeOK, Gives, r

LEMMA DoesTurns ==
    ASSUME TypeOK, NEW h \in Handler
    PROVE  \A c \in {"idle", "received", "merged", "worker", "retest", "enqueue", "close",
                     "defer", "unmark", "claim", "retry"} :
               Does(h, c) => Turns(h, [pc |-> c, tries |-> task[h].tries])
<1> SUFFICES ASSUME NEW c \in {"idle", "received", "merged", "worker", "retest", "enqueue",
                               "close", "defer", "unmark", "claim", "retry"}, Does(h, c)
             PROVE  Turns(h, [pc |-> c, tries |-> task[h].tries])
  OBVIOUS
<1> DEFINE t == [pc |-> c, tries |-> task[h].tries]
<1>1. t \in Tasks /\ [task[h] EXCEPT !.pc = c] = t
  BY DEF TypeOK, Tasks
<1>2. task' = [task EXCEPT ![h] = t]
  BY <1>1 DEF Does
<1> HIDE DEF t
<1> QED BY <1>1, <1>2 DEF TypeOK, Turns, t

LEMMA EndsTurns ==
    ASSUME TypeOK, NEW h \in Handler, Ends(h)
    PROVE  Turns(h, Rest)
BY DEF TypeOK, Ends, Turns, Rest, Tasks

-----------------------------------------------------------------------------
(* Types.  The two halves of the state change apart from each other. *)
FixTypesOK ==
    /\ approval \in [Approval -> Approvals] /\ record \in Records /\ remote \in Remotes
    /\ starts \in Nat /\ work \in [Request -> Works] /\ mishaps \in Nat
    /\ \A p \in Request : work[p].pc \in Executing => work[p].own # NoApproval
LoopTypesOK ==
    /\ hook \in Hooks /\ closure \in Closures /\ retest \in Retests /\ rival \in Rivals
    /\ gone \in BOOLEAN
    /\ task \in [Handler -> Tasks]

LEMMA TypeParts == TypeOK <=> FixTypesOK /\ LoopTypesOK
BY DEF TypeOK, FixTypesOK, LoopTypesOK

LEMMA MishapTypes ==
    ASSUME TypeOK
    PROVE  (Calm => mishaps' \in Nat) /\ \A k : Mishap(k) => mishaps' \in Nat
BY DEF TypeOK, Calm, Mishap

(* A request whose place and approval are well chosen keeps the types. *)
LEMMA PutsTypes ==
    ASSUME TypeOK, NEW p \in Request, NEW w \in Works, Puts(p, w),
           w.pc \in Executing => w.own # NoApproval
    PROVE  /\ work' \in [Request -> Works]
           /\ \A q \in Request : work'[q].pc \in Executing => work'[q].own # NoApproval
BY DEF TypeOK, Puts

LEMMA RequestTypes ==
    ASSUME TypeOK, NEW p \in Request, Starts(p) \/ Handles(p) \/ Crash(p)
    PROVE  FixTypesOK'
<1> USE FixAssumption
<1>0. /\ work[p] \in Works /\ Idle \in Works
      /\ \A c \in Places : \A o \in Approval \cup {NoApproval} : \A n \in Notes :
             [pc |-> c, own |-> o, note |-> n] \in Works
  BY DEF TypeOK, Works, Places, Notes, Idle
<1> DEFINE Fine(w) == w \in Works /\ Puts(p, w) /\ (w.pc \in Executing => w.own # NoApproval)
<1>1. /\ \A c \in Places : Goes(p, c) /\ (c \in Executing => work[p].own # NoApproval) => \E w : Fine(w)
      /\ \A c \in Places : \A n \in Notes :
             Noting(p, c, n) /\ (c \in Executing => work[p].own # NoApproval) => \E w : Fine(w)
      /\ \A c \in Places : \A a \in Approval : Takes(p, c, a) => \E w : Fine(w)
      /\ Rests(p) => \E w : Fine(w)
  <2>1. ASSUME NEW c \in Places, Goes(p, c), c \in Executing => work[p].own # NoApproval
        PROVE  Fine([pc |-> c, own |-> work[p].own, note |-> work[p].note])
    BY <2>1, <1>0, GoesPuts DEF Works, Notes
  <2>2. ASSUME NEW c \in Places, NEW n \in Notes, Noting(p, c, n),
               c \in Executing => work[p].own # NoApproval
        PROVE  Fine([pc |-> c, own |-> work[p].own, note |-> n])
    BY <2>2, <1>0, NotingPuts DEF Works
  <2>3. ASSUME NEW c \in Places, NEW a \in Approval, Takes(p, c, a)
        PROVE  Fine([pc |-> c, own |-> a, note |-> "none"])
    BY <2>3, <1>0, TakesPuts DEF Notes
  <2>4. ASSUME Rests(p) PROVE Fine(Idle)
    BY <2>4, <1>0, RestsPuts DEF Idle, Executing
  <2> QED BY <2>1, <2>2, <2>3, <2>4
<1>2. (\E w : Fine(w)) => /\ work' \in [Request -> Works]
                          /\ \A q \in Request : work'[q].pc \in Executing => work'[q].own # NoApproval
  BY PutsTypes
<1> HIDE DEF Fine
<1>3. CASE Starts(p)
  BY <1>3, <1>0, <1>1, <1>2, MishapTypes, BecomesGives
     DEF Starts, Ask, Approve, TypeOK, FixTypesOK, Reusable, Gives, Places, Executing
<1>4. CASE CreateApproval(p)
  <2>1. ASSUME NEW a \in Approval,
               approval' = [approval EXCEPT ![a] = [status |-> "PENDING", live |-> TRUE]]
        PROVE  approval' \in [Approval -> Approvals]
    BY <2>1 DEF TypeOK, Approvals
  <2> QED BY <1>4, <1>0, <1>1, <1>2, <2>1, MishapTypes
          DEF CreateApproval, TypeOK, FixTypesOK, Fresh, Places, Executing
<1>5. CASE Authorize(p) \/ Claim(p)
  <2>1. work[p].own \in Approval
    BY <1>5 DEF TypeOK, Works, Authorize, Claim, At, Executing
  <2> QED BY <1>5, <1>0, <1>1, <1>2, <2>1, MishapTypes, BecomesGives
          DEF Authorize, Claim, TypeOK, FixTypesOK, Gives, At, Places, Executing, Claimed
<1>6. CASE Begin(p)
  <2>1. work[p].own \in Approval /\ Intent(p) \in Records
    BY <1>6 DEF TypeOK, Works, Begin, At, Executing, Intent, Records
  <2> QED BY <1>6, <1>0, <1>1, <1>2, <2>1, MishapTypes
          DEF Begin, TypeOK, FixTypesOK, At, Places, Notes, Executing
<1>7. CASE Check(p)
  BY <1>7, <1>0, <1>1, <1>2, MishapTypes
     DEF Check, TypeOK, FixTypesOK, At, Places, Notes, Executing
<1>8. CASE CreateBranch(p) \/ OpenPullRequest(p)
  <2>1. /\ [remote EXCEPT !.branch = TRUE] \in Remotes
        /\ [remote EXCEPT !.pr = "open"] \in Remotes
    BY DEF TypeOK, Remotes, Opened
  <2> QED BY <1>8, <1>0, <1>1, <1>2, <2>1, MishapTypes
          DEF CreateBranch, OpenPullRequest, TypeOK, FixTypesOK, At, Places, Executing
<1>9. CASE RecordOpened(p) \/ Persist(p) \/ Catch(p)
  <2>1. \A s \in Notes : [record EXCEPT !.status = s] \in Records
    BY DEF TypeOK, Records, Notes, Opened
  <2>2. CASE RecordOpened(p)
    BY <2>2, <1>0, <1>1, <1>2, <2>1, MishapTypes
       DEF RecordOpened, Recorded, TypeOK, FixTypesOK, At, Places, Executing, Notes, Opened
  <2>2a. work[p].note \in Notes /\ record \in Records
    BY <1>0 DEF Works, Notes, TypeOK
  <2>3. CASE Persist(p)
    <3>1. record' \in Records /\ mishaps' \in Nat
      BY <2>3, <2>1, <2>2a, MishapTypes DEF Persist, Recorded
    <3>2. \E w : Fine(w)
      BY <2>3, <1>1 DEF Persist, Told, Places, Executing, Notes
    <3> QED BY <2>3, <3>1, <3>2, <1>2 DEF Persist, TypeOK, FixTypesOK
  <2>4. CASE Catch(p)
    <3>1. record' \in Records /\ mishaps' \in Nat
      BY <2>4, <2>1, <2>2a, MishapTypes DEF Catch
    <3>2. \E w : Fine(w)
      BY <2>4, <1>1 DEF Catch, At, Places, Executing, TypeOK
    <3> QED BY <2>4, <3>1, <3>2, <1>2 DEF Catch, TypeOK, FixTypesOK
  <2> QED BY <1>9, <2>2, <2>3, <2>4
<1>10. CASE Settle(p) \/ Fail(p)
  <2>1. work[p].own \in Approval
    BY <1>10 DEF TypeOK, Works, Settle, Fail, At, Executing
  <2> QED BY <1>10, <1>0, <1>1, <1>2, <2>1, MishapTypes, BecomesGives
          DEF Settle, Settled, Fail, TypeOK, FixTypesOK, Gives, At, Places, Executing, Claimed
<1>11. CASE Inspect(p)
  BY <1>11, <1>0, <1>1, <1>2, MishapTypes
     DEF Inspect, Told, TypeOK, FixTypesOK, At, Places, Executing, Remotes, Notes
<1>12. CASE Crash(p)
  BY <1>12, <1>0, <1>1, <1>2, MishapTypes DEF Crash, TypeOK, FixTypesOK
<1> QED
  BY <1>3, <1>4, <1>5, <1>6, <1>7, <1>8, <1>9, <1>10, <1>11, <1>12 DEF Handles

LEMMA FixTypesStep ==
    ASSUME TypeOK, FixNext
    PROVE  FixTypesOK'
<1>1. ASSUME NEW p \in Request, (Spare /\ Starts(p)) \/ Handles(p) \/ Crash(p)
      PROVE  FixTypesOK'
  BY <1>1, RequestTypes
<1>2. ASSUME NEW a \in Approval, Decides(a)
      PROVE  FixTypesOK'
  <2>1. CASE Lapse(a)
    <3>1. [approval[a] EXCEPT !.live = FALSE] \in Approvals
      BY DEF TypeOK, Approvals
    <3>2. approval' = [approval EXCEPT ![a] = [approval[a] EXCEPT !.live = FALSE]]
      BY <2>1 DEF Lapse
    <3> QED BY <2>1, <3>1, <3>2, MishapTypes DEF Lapse, TypeOK, FixTypesOK
  <2>2. CASE Deny(a) \/ Expire(a)
    BY <2>2, MishapTypes, BecomesGives DEF Deny, Expire, TypeOK, FixTypesOK, Gives
  <2> QED BY <1>2, <2>1, <2>2 DEF Decides
<1>3. ASSUME BaseMoves \/ CloseOrReopen
      PROVE  FixTypesOK'
  <2>1. /\ [remote EXCEPT !.moved = TRUE] \in Remotes
        /\ [remote EXCEPT !.pr = "open"] \in Remotes /\ [remote EXCEPT !.pr = "closed"] \in Remotes
    BY DEF TypeOK, Remotes, Opened
  <2> QED BY <1>3, <2>1, MishapTypes DEF BaseMoves, CloseOrReopen, TypeOK, FixTypesOK
<1> QED BY <1>1, <1>2, <1>3 DEF FixNext

LEMMA TaskTypes ==
    ASSUME TypeOK, NEW h \in Handler
    PROVE  /\ \A c \in {"idle", "received", "merged", "worker", "retest", "enqueue", "close",
                         "defer", "unmark", "claim", "retry"} :
                  Does(h, c) => task' \in [Handler -> Tasks]
           /\ Ends(h) => task' \in [Handler -> Tasks]
BY DoesTurns, EndsTurns DEF Turns

LEMMA LoopTypesStep ==
    ASSUME TypeOK, LoopNext
    PROVE  TypeOK'
<1>1. ASSUME Merge \/ Redeliver
      PROVE  TypeOK'
  <2>1. [remote EXCEPT !.pr = "merged"] \in Remotes /\ [hook EXCEPT !.inbox = @ + 1] \in Hooks
    BY DEF TypeOK, Remotes, Opened, Hooks
  <2> QED BY <1>1, <2>1, MishapTypes DEF Merge, Redeliver, TypeOK, fixVars
<1>2. ASSUME ComesDue \/ RunRetest \/ Reconcile \/ RivalComes \/ RivalEnds
      PROVE  TypeOK'
  <2>1. /\ [closure EXCEPT !.due = TRUE] \in Closures
        /\ [retest EXCEPT !.scan = "ENDED", !.job = FALSE] \in Retests
        /\ [retest EXCEPT !.scan = "FAILED"] \in Retests
    BY DEF TypeOK, Closures, Retests
  <2> QED BY <1>2, <2>1, MishapTypes
          DEF ComesDue, RunRetest, Reconcile, RivalComes, RivalEnds, TypeOK, fixVars, Rivals
<1>3. ASSUME NEW h \in Handler, Receive(h) \/ SweepRead(h) \/ Proceeds(h) \/ LoopCrash(h)
      PROVE  TypeOK'
  <2>1. /\ hook.inbox > 0 => [hook EXCEPT !.inbox = @ - 1] \in Hooks
        /\ \A b \in BOOLEAN : [hook EXCEPT !.marker = b] \in Hooks
    BY DEF TypeOK, Hooks
  <2>2. /\ \A s \in {"pending", "completed", "failed"} : [closure EXCEPT !.status = s] \in Closures
        /\ [closure EXCEPT !.attempts = @ + 1, !.due = FALSE] \in Closures
        /\ Deferred \in Closures
    <3>1. closure \in Closures /\ closure.attempts + 1 \in Nat
      BY DEF TypeOK, Closures
    <3>2. \A s \in {"pending", "completed", "failed"} : [closure EXCEPT !.status = s] \in Closures
      BY <3>1 DEF Closures
    <3>3. [closure EXCEPT !.attempts = @ + 1, !.due = FALSE] \in Closures
      BY <3>1 DEF Closures
    <3>4. /\ [status |-> "pending", attempts |-> 1, due |-> FALSE] \in Closures
          /\ [closure EXCEPT !.due = FALSE] \in Closures
      BY <3>1 DEF Closures
    <3> QED BY <3>1, <3>2, <3>3, <3>4 DEF Deferred
  <2>3. /\ Published \in Retests
        /\ [scan |-> "QUEUED", job |-> FALSE, count |-> retest.count + 1] \in Retests
    <3>1. retest \in Retests /\ retest.count + 1 \in Nat
      BY DEF TypeOK, Retests
    <3>2. [retest EXCEPT !.job = TRUE] \in Retests
      BY <3>1 DEF Retests
    <3> QED BY <3>1, <3>2 DEF Published, Retests
  <2>4. AsMerged \in Records
    BY DEF TypeOK, Records, AsMerged, Opened
  <2>5. CASE SweepRead(h)
    <3>1. [pc |-> "claim", tries |-> closure.attempts + 1] \in Tasks
      BY DEF TypeOK, Tasks, Closures
    <3> QED BY <2>5, <3>1, MishapTypes DEF SweepRead, TypeOK, fixVars
  <2>6. CASE Receive(h) \/ Mark(h) \/ Unmark(h)
    BY <2>6, <2>1, TaskTypes, MishapTypes DEF Receive, Mark, Unmark, TypeOK, fixVars
  <2>7. CASE RecordMerge(h) \/ AssertWorker(h)
    BY <2>7, <2>4, TaskTypes, MishapTypes
       DEF RecordMerge, AssertWorker, FoundGone, Nothing, Unexpected, Deferrable, TypeOK, fixVars
  <2>8. CASE CreateRetest(h)
    BY <2>8, <2>3, TaskTypes, MishapTypes
       DEF CreateRetest, FoundGone, Nothing, Unexpected, Deferrable, TypeOK, fixVars
  <2>9. CASE Enqueue(h)
    BY <2>9, <2>3, TaskTypes, MishapTypes DEF Enqueue, Deferrable, TypeOK, fixVars
  <2>10. CASE CloseLoop(h) \/ Defer(h) \/ Retry(h) \/ SweepClaim(h)
    BY <2>10, <2>2, TaskTypes, MishapTypes
       DEF CloseLoop, Defer, Retry, SweepClaim, TypeOK, fixVars
  <2>11. CASE LoopCrash(h)
    BY <2>11, TaskTypes, MishapTypes DEF LoopCrash, TypeOK, fixVars
  <2> QED BY <1>3, <2>5, <2>6, <2>7, <2>8, <2>9, <2>10, <2>11 DEF Proceeds
<1> QED BY <1>1, <1>2, <1>3 DEF LoopNext

(* Every variable keeps its type, and nothing executes without an approval. *)
THEOREM FixTypes == Spec => []TypeOK
<1>1. Init => TypeOK
  <2> SUFFICES ASSUME Init PROVE TypeOK
    OBVIOUS
  <2>1. gone \in BOOLEAN
    BY DEF Init
  <2>2. hook \in Hooks /\ closure \in Closures /\ retest \in Retests /\ rival \in Rivals
        /\ task \in [Handler -> Tasks]
    BY DEF Init, Hooks, Closures, Retests, Rivals, Tasks, Rest
  <2>3. FixTypesOK
    BY FixAssumption DEF Init, FixInit, FixTypesOK, Approvals, Records, Remotes, Works, Idle,
       Executing, Opened
  <2> QED BY <2>1, <2>2, <2>3, TypeParts DEF LoopTypesOK
<1>2. TypeOK /\ [Next]_vars => TypeOK'
  <2> SUFFICES ASSUME TypeOK, [Next]_vars PROVE TypeOK'
    OBVIOUS
  <2>1. CASE FixNext /\ UNCHANGED loopVars
    <3>1. LoopTypesOK'
      BY <2>1, TypeParts DEF LoopTypesOK, loopVars
    <3> QED BY <2>1, <3>1, FixTypesStep DEF TypeOK, FixTypesOK, LoopTypesOK
  <2>2. CASE LoopNext
    BY <2>2, LoopTypesStep
  <2>3. CASE UNCHANGED vars
    BY <2>3 DEF vars, fixVars, loopVars, TypeOK
  <2> QED BY <2>1, <2>2, <2>3 DEF Next
<1> QED BY <1>1, <1>2, PTL DEF Spec

-----------------------------------------------------------------------------
(* The invariant.  First, what a request is about to write to its record       *)
(* follows from the place it has reached.                                      *)
Past        == {"begin", "check", "branch", "pr", "record", "settle", "catch", "fail",
                "inspect", "persist"}
Uncertain   == {"recovery", "failed", "stale"}
Executes(p) == work[p].pc \in Past /\ work[p].own # NoApproval
Owns(p)     == work[p].note \in Uncertain

Placed(w) ==
    /\ w.pc \in {"idle", "ask", "authorize", "execute", "begin", "inspect"} => w.note = "none"
    /\ w.pc = "check" => w.note = "failed"
    /\ w.pc \in {"branch", "pr", "record"} => w.note = "recovery"
    /\ w.pc = "persist" => w.note \in Opened
    /\ w.pc \in {"settle", "catch", "fail"} => w.note \notin Opened
    /\ w.pc \in {"idle", "ask"} => w.own = NoApproval
AllPlaced == \A p \in Request : Placed(work[p])

(* Of the requests past the claim, each has claimed an approval of its own,    *)
(* and the one that owns the record is the one whose approval is in it.        *)
OneOwner ==
    /\ \A p \in Request : Executes(p) => approval[work[p].own].status \in Claimed
    /\ \A p, q \in Request : Executes(p) /\ Executes(q) /\ p # q => work[p].own # work[q].own
    /\ \A p \in Request : Owns(p) => record.by = work[p].own
    /\ record.status = "none" <=> record.by = NoApproval
    /\ record.by # NoApproval => approval[record.by].status \in Claimed

(* Nothing exists at GitHub before the one execution has started, and what a   *)
(* request or the record says of the pull request has been seen there.         *)
Written ==
    /\ starts \in {0, 1}
    /\ record.status \in {"none", "failed", "stale"} => starts = 0
    /\ \A p \in Request :
          /\ work[p].pc = "check" => record.status = "opening"
          /\ work[p].note \in {"failed", "stale"} => starts = 0
          /\ work[p].note = "recovery" => starts = 1
          /\ work[p].pc = "record" => remote.pr # "none"
          /\ work[p].pc = "persist" => remote.pr # "none"
          /\ work[p].pc = "persist" /\ work[p].note = "merged" => remote.pr = "merged"
    /\ remote.branch \/ remote.pr # "none" => starts = 1
    /\ record.status \in Opened => remote.pr # "none"
    /\ record.status = "merged" => remote.pr = "merged"

(* Handlers only work on a merge, and retest only what is recorded as merged.  *)
Followed ==
    /\ hook.inbox > 0 \/ closure.status = "pending" => remote.pr = "merged"
    /\ \A h \in Handler : task[h].pc # "idle" => remote.pr = "merged"
    /\ \A h \in Handler : task[h].pc \in {"worker", "retest"} => record.status = "merged"
    /\ retest.scan = "none" <=> retest.count = 0
    /\ retest.job => retest.scan = "QUEUED"
    /\ retest.count <= 1
    /\ retest.count = 1 => record.status = "merged"

FixInv == AllPlaced /\ OneOwner /\ Written /\ Followed

(* The loop's part does not see what requests do short of a recorded merge.    *)
LEMMA FollowedKept ==
    ASSUME Followed, UNCHANGED loopVars,
           remote.pr = "merged" => remote'.pr = "merged",
           record.status = "merged" => record'.status = "merged"
    PROVE  Followed'
BY DEF Followed, loopVars

(* How a request moves on by itself: neither its record nor GitHub changes,    *)
(* and what is claimed stays claimed.                                          *)
LEMMA MovesOn ==
    ASSUME TypeOK, FixInv, NEW p \in Request, NEW w \in Works, Puts(p, w), Placed(w),
           UNCHANGED <<record, remote, starts, loopVars>>,
           \A a \in Approval : approval[a].status \in Claimed => approval'[a].status \in Claimed,
           w.pc \in Past /\ w.own # NoApproval => Executes(p) /\ w.own = work[p].own,
           w.note \in Uncertain => Owns(p) /\ w.own = work[p].own,
           w.pc = "check" => record.status = "opening",
           w.note \in {"failed", "stale"} => starts = 0,
           w.note = "recovery" => starts = 1,
           w.pc = "record" => remote.pr # "none",
           w.pc = "persist" => remote.pr # "none" /\ (w.note = "merged" => remote.pr = "merged")
    PROVE  FixInv'
<1>1. AllPlaced'
  BY DEF FixInv, AllPlaced, Puts
<1>2. OneOwner'
  BY DEF FixInv, OneOwner, Puts, Executes, Owns, TypeOK, Works, Records
<1>3. Written'
  BY DEF FixInv, Written, Puts
<1>4. Followed'
  BY FollowedKept DEF FixInv
<1> QED BY <1>1, <1>2, <1>3, <1>4 DEF FixInv

LEMMA ClaimedKept ==
    ASSUME TypeOK
    PROVE  /\ UNCHANGED approval => \A a \in Approval :
                  approval[a].status \in Claimed => approval'[a].status \in Claimed
           /\ \A b \in Approval : \A s \in {"PENDING", "APPROVED", "DENIED", "EXPIRED"} \cup Claimed :
                  Becomes(b, s) /\ (approval[b].status \in Claimed => s \in Claimed) =>
                  \A a \in Approval : approval[a].status \in Claimed => approval'[a].status \in Claimed
<1>1. ASSUME NEW b \in Approval, NEW s \in {"PENDING", "APPROVED", "DENIED", "EXPIRED"} \cup Claimed,
             Becomes(b, s), approval[b].status \in Claimed => s \in Claimed,
             NEW a \in Approval, approval[a].status \in Claimed
      PROVE  approval'[a].status \in Claimed
  <2>1. approval'[a] = IF a = b THEN [status |-> s, live |-> approval[b].live] ELSE approval[a]
    BY <1>1, BecomesGives DEF Gives
  <2> QED BY <1>1, <2>1
<1> QED BY <1>1

(* The places a request can move on to, with what it takes along. *)
LEMMA Onward ==
    ASSUME TypeOK, FixInv, NEW p \in Request,
           UNCHANGED <<record, remote, starts, loopVars>>,
           \A a \in Approval : approval[a].status \in Claimed => approval'[a].status \in Claimed
    PROVE  /\ Rests(p) => FixInv'
           /\ \A c \in Places : \A a \in Approval :
                  Takes(p, c, a) /\ c \in {"authorize", "execute"} => FixInv'
           /\ \A c \in Places :
                  /\ Goes(p, c) /\ work[p].pc \in {"idle", "ask", "authorize", "execute"}
                  /\ c \in {"ask", "authorize", "execute", "inspect"}
                  /\ c \in {"ask", "inspect"} => work[p].own = NoApproval
                  => FixInv'
           /\ \A c \in Places :
                  /\ Goes(p, c) /\ work[p].pc \in Past
                  /\ work[p].pc \notin {"persist", "inspect"}
                  /\ c \in {"settle", "catch", "fail"} \/ (c = "inspect" /\ work[p].pc = "begin")
                  => FixInv'
           /\ Noting(p, "settle", "none") /\ work[p].pc \in Past => FixInv'
           /\ \A n \in {"failed", "stale"} :
                  Noting(p, "catch", n) /\ work[p].pc = "check" => FixInv'
           /\ Noting(p, "persist", remote.pr) /\ work[p].pc = "inspect" /\ remote.pr # "none" => FixInv'
<1>0. /\ work[p] \in Works /\ Idle \in Works /\ Placed(work[p])
      /\ \A c \in Places : \A o \in Approval \cup {NoApproval} : \A n \in Notes :
             [pc |-> c, own |-> o, note |-> n] \in Works
  BY DEF TypeOK, Works, Places, Notes, Idle, FixInv, AllPlaced
<1>0a. /\ work[p].pc = "check" => record.status = "opening"
       /\ work[p].note \in {"failed", "stale"} => starts = 0
       /\ work[p].note = "recovery" => starts = 1
  BY DEF FixInv, Written
<1>1. ASSUME Rests(p) PROVE FixInv'
  BY <1>1, <1>0, RestsPuts, MovesOn DEF Idle, Placed, Past, Uncertain
<1>2. ASSUME NEW c \in {"authorize", "execute"}, NEW a \in Approval, Takes(p, c, a) PROVE FixInv'
  <2> DEFINE w == [pc |-> c, own |-> a, note |-> "none"]
  <2>1. w \in Works /\ Puts(p, w)
    BY <1>2, <1>0, TakesPuts DEF Places, Notes, Executing
  <2>2. Placed(w) /\ w.pc \notin Past /\ w.note = "none" /\ w.pc \notin {"check", "record", "persist"}
    BY DEF Placed, Past
  <2> HIDE DEF w
  <2> QED BY <2>1, <2>2, MovesOn DEF Uncertain
<1>3. ASSUME NEW c \in {"ask", "authorize", "execute", "inspect"}, Goes(p, c),
             work[p].pc \in {"idle", "ask", "authorize", "execute"},
             c \in {"ask", "inspect"} => work[p].own = NoApproval
      PROVE  FixInv'
  <2> DEFINE w == [pc |-> c, own |-> work[p].own, note |-> work[p].note]
  <2>1. w \in Works /\ Puts(p, w)
    BY <1>3, <1>0, GoesPuts DEF Places, Notes, Works, Executing
  <2>2. /\ Placed(w) /\ w.note = "none" /\ w.pc \notin {"check", "record", "persist"}
        /\ ~ (w.pc \in Past /\ w.own # NoApproval)
    BY <1>3, <1>0 DEF Placed, Past
  <2> HIDE DEF w
  <2> QED BY <2>1, <2>2, MovesOn DEF Uncertain
<1>4. ASSUME NEW c \in {"settle", "catch", "fail", "inspect"}, Goes(p, c), work[p].pc \in Past,
             work[p].pc \notin {"persist", "inspect"}, c = "inspect" => work[p].pc = "begin"
      PROVE  FixInv'
  <2> DEFINE w == [pc |-> c, own |-> work[p].own, note |-> work[p].note]
  <2>1. w \in Works /\ Puts(p, w)
    BY <1>4, <1>0, GoesPuts DEF Places, Notes, Works, Executing
  <2>2. /\ Placed(w) /\ w.pc \notin {"check", "record", "persist"}
        /\ w.own = work[p].own /\ w.note = work[p].note
    BY <1>4, <1>0 DEF Placed, Past, Opened
  <2> HIDE DEF w
  <2> QED BY <1>4, <1>0a, <2>1, <2>2, MovesOn DEF Uncertain, Executes, Owns
<1>5. ASSUME Noting(p, "settle", "none"), work[p].pc \in Past PROVE FixInv'
  <2> DEFINE w == [pc |-> "settle", own |-> work[p].own, note |-> "none"]
  <2>1. w \in Works /\ Puts(p, w)
    BY <1>5, <1>0, NotingPuts DEF Places, Notes, Works, Executing
  <2>2. Placed(w) /\ w.pc = "settle" /\ w.note = "none" /\ w.own = work[p].own
    BY DEF Placed, Opened
  <2> HIDE DEF w
  <2> QED BY <1>5, <2>1, <2>2, MovesOn DEF Uncertain, Executes
<1>6. ASSUME NEW n \in {"failed", "stale"}, Noting(p, "catch", n), work[p].pc = "check" PROVE FixInv'
  <2> DEFINE w == [pc |-> "catch", own |-> work[p].own, note |-> n]
  <2>1. w \in Works /\ Puts(p, w)
    BY <1>6, <1>0, NotingPuts DEF Places, Notes, Works, Executing
  <2>2. Placed(w) /\ w.pc = "catch" /\ w.note = n /\ w.own = work[p].own
    BY DEF Placed, Opened
  <2>3. work[p].pc \in Past /\ Owns(p) /\ starts = 0
    BY <1>6, <1>0, <1>0a DEF Past, Owns, Placed, Uncertain
  <2> HIDE DEF w
  <2> QED BY <2>1, <2>2, <2>3, MovesOn DEF Uncertain, Executes
<1>7. ASSUME Noting(p, "persist", remote.pr), work[p].pc = "inspect", remote.pr # "none" PROVE FixInv'
  <2> DEFINE w == [pc |-> "persist", own |-> work[p].own, note |-> remote.pr]
  <2>0. remote.pr \in Opened
    BY <1>7 DEF TypeOK, Remotes
  <2>1. w \in Works /\ Puts(p, w)
    BY <2>0, <1>7, <1>0, NotingPuts DEF Places, Notes, Works, Executing
  <2>2. Placed(w) /\ w.pc = "persist" /\ w.note = remote.pr /\ w.own = work[p].own
    BY <2>0 DEF Placed, Opened
  <2>3. work[p].pc \in Past
    BY <1>7 DEF Past
  <2> HIDE DEF w
  <2> QED BY <1>7, <2>0, <2>1, <2>2, <2>3, MovesOn DEF Uncertain, Executes, Opened
<1> QED BY <1>1, <1>2, <1>3, <1>4, <1>5, <1>6, <1>7

(* What a request does before it owns the execution, and what it gives up.     *)
LEMMA QuietBefore ==
    ASSUME TypeOK, FixInv, NEW p \in Request, UNCHANGED loopVars,
           Starts(p) \/ CreateApproval(p) \/ Authorize(p) \/ Crash(p) \/ Inspect(p)
    PROVE  FixInv'
<1>0. work[p] \in Works /\ Placed(work[p])
  BY DEF TypeOK, FixInv, AllPlaced
<1>1. CASE Ask(p)
  BY <1>1, <1>0, ClaimedKept, Onward DEF Ask, At, Placed, Places, Executing
<1>2. ASSUME NEW a \in Approval, Approve(p, a) PROVE FixInv'
  <2>1. \A b \in Approval : approval[b].status \in Claimed => approval'[b].status \in Claimed
    BY <1>2, ClaimedKept DEF Approve, Reusable, Claimed
  <2> QED BY <1>2, <2>1, Onward DEF Approve, Places, Executing
<1>3. CASE CreateApproval(p)
  <2>1. ASSUME NEW a \in Fresh, approval' = [approval EXCEPT ![a] = [status |-> "PENDING", live |-> TRUE]]
        PROVE  \A b \in Approval : approval[b].status \in Claimed => approval'[b].status \in Claimed
    BY <2>1 DEF Fresh, Claimed, TypeOK
  <2>2. CASE UNCHANGED approval
    BY <1>3, <2>2, ClaimedKept, Onward DEF CreateApproval, Places, Executing, Fresh, Claimed
  <2>3. ASSUME NEW a \in Fresh, approval' = [approval EXCEPT ![a] = [status |-> "PENDING", live |-> TRUE]],
               Rests(p) \/ Takes(p, "authorize", a)
        PROVE  FixInv'
    BY <1>3, <2>1, <2>3, Onward DEF CreateApproval, Places, Executing, Fresh
  <2> QED BY <1>3, <2>2, <2>3 DEF CreateApproval
<1>4. CASE Authorize(p)
  <2>1. work[p].own \in Approval
    BY <1>4 DEF TypeOK, Works, Authorize, At, Executing
  <2>2. \A b \in Approval : approval[b].status \in Claimed => approval'[b].status \in Claimed
    BY <1>4, <2>1, ClaimedKept DEF Authorize, Claimed
  <2> QED BY <1>4, <2>2, Onward DEF Authorize, At, Places, Executing
<1>5. CASE Crash(p)
  BY <1>5, ClaimedKept, Onward DEF Crash
<1>6. CASE Inspect(p)
  <2>1. \A b \in Approval : approval[b].status \in Claimed => approval'[b].status \in Claimed
    BY <1>6, ClaimedKept DEF Inspect
  <2> QED BY <1>6, <2>1, Onward DEF Inspect, Told, At, Past
<1> QED BY <1>1, <1>2, <1>3, <1>4, <1>5, <1>6 DEF Starts

(* The steps of a claimed approval that leave its record and GitHub alone.     *)
LEMMA QuietAfter ==
    ASSUME TypeOK, FixInv, NEW p \in Request, UNCHANGED loopVars,
           Claim(p) \/ Begin(p) \/ Check(p) \/ Catch(p) \/ RecordOpened(p)
           \/ CreateBranch(p) \/ OpenPullRequest(p) \/ Settle(p) \/ Fail(p),
           UNCHANGED <<record, remote, starts>>,
           Claim(p) => UNCHANGED approval
    PROVE  FixInv'
<1>0. work[p] \in Works /\ Placed(work[p])
  BY DEF TypeOK, FixInv, AllPlaced
<1>1. CASE UNCHANGED approval
  <2>1. \A b \in Approval : approval[b].status \in Claimed => approval'[b].status \in Claimed
    BY <1>1, ClaimedKept
  <2>2. CASE Claim(p)
    <3>1. work[p].own \in Approval
      BY <2>2 DEF TypeOK, Works, Claim, At, Executing
    <3>2. Claimable(work[p].own) => ~ Becomes(work[p].own, "EXECUTING")
      <4>1. ASSUME Becomes(work[p].own, "EXECUTING") PROVE approval'[work[p].own].status = "EXECUTING"
        <5>1. Gives(work[p].own, [status |-> "EXECUTING", live |-> approval[work[p].own].live])
          BY <3>1, <4>1, BecomesGives DEF Claimed
        <5> QED BY <3>1, <5>1 DEF Gives
      <4> QED BY <1>1, <4>1 DEF Claimable
    <3> QED BY <2>2, <2>1, <3>2, Onward DEF Claim
  <2>3. CASE Begin(p)
    BY <2>3, <2>1, Onward DEF Begin, At, Past, Places, Executing, Ownable, Intent
  <2>4. CASE Check(p)
    BY <2>4, <2>1, Onward DEF Check, At, TypeOK
  <2>5. CASE Catch(p)
    BY <2>5, <2>1, Onward DEF Catch, At, Past, Places, Executing
  <2>6. CASE RecordOpened(p)
    BY <2>6, <2>1, Onward DEF RecordOpened, At, Past, Places, Executing
  <2>7. CASE CreateBranch(p) \/ OpenPullRequest(p)
    BY <2>7, <2>1, Onward DEF CreateBranch, OpenPullRequest, At, Past, Places, Executing, TypeOK, Remotes
  <2>8. CASE Settle(p) \/ Fail(p)
    BY <2>8, <2>1, Onward DEF Settle, Fail, At, Past, Places, Executing
  <2> QED BY <2>2, <2>3, <2>4, <2>5, <2>6, <2>7, <2>8
<1>2. CASE Settle(p) \/ Fail(p)
  <2>1. work[p].own \in Approval
    BY <1>2 DEF TypeOK, Works, Settle, Fail, At, Executing
  <2>2. \A b \in Approval : approval[b].status \in Claimed => approval'[b].status \in Claimed
    BY <1>2, <2>1, ClaimedKept DEF Settle, Settled, Fail, Claimed
  <2> QED BY <1>2, <2>2, Onward DEF Settle, Fail, At, Past, Places, Executing
<1> QED BY <1>1, <1>2 DEF Begin, Check, Catch, RecordOpened, CreateBranch, OpenPullRequest

(* The claim: a live approval becomes one request's own.                       *)
LEMMA Claims ==
    ASSUME TypeOK, FixInv, NEW p \in Request, UNCHANGED loopVars,
           At(p, "execute"), Claimable(work[p].own), Becomes(work[p].own, "EXECUTING"),
           Goes(p, "begin"), UNCHANGED <<record, remote, starts>>
    PROVE  FixInv'
<1> DEFINE o == work[p].own
           w == [pc |-> "begin", own |-> o, note |-> "none"]
<1>0. work[p] \in Works /\ work[p].note = "none" /\ o \in Approval
  BY DEF TypeOK, Works, FixInv, AllPlaced, Placed, At, Executing
<1>1. w \in Works /\ Puts(p, w) /\ Placed(w)
  BY <1>0, GoesPuts DEF Places, Executing, Works, Placed
<1>2. Gives(o, [status |-> "EXECUTING", live |-> approval[o].live])
  BY <1>0, BecomesGives DEF Claimed
<1>3. \A a \in Approval : approval[a].status \in Claimed => approval'[a].status \in Claimed /\ a # o
  BY <1>0, <1>2 DEF Gives, Claimable, Claimed
<1>4. approval'[o].status \in Claimed
  BY <1>0, <1>2 DEF Gives, Claimed
<1>5. /\ w.pc = "begin" /\ w.own = o /\ w.note = "none"
  OBVIOUS
<1> HIDE DEF w, o
<1>6. AllPlaced'
  BY <1>1 DEF FixInv, AllPlaced, Puts
<1>7. OneOwner'
  <2>1. \A q \in Request : Executes(q)' /\ q # p => Executes(q) /\ work'[q] = work[q]
    BY <1>1 DEF Executes, Puts
  <2>2. work'[p].own = o /\ ~ Owns(p)'
    BY <1>1, <1>5 DEF Puts, Owns, Uncertain
  <2>3. \A q \in Request : Executes(q) => work[q].own \in Approval
    BY DEF TypeOK, Works, Executes
  <2>4. \A q \in Request : Executes(q) => approval[work[q].own].status \in Claimed
    BY DEF FixInv, OneOwner
  <2>5. \A q \in Request : Executes(q)' => approval'[work'[q].own].status \in Claimed
    BY <2>1, <2>2, <2>3, <2>4, <1>3, <1>4
  <2>6. \A q, r \in Request : Executes(q)' /\ Executes(r)' /\ q # r => work'[q].own # work'[r].own
    BY <2>1, <2>2, <2>3, <2>4, <1>3 DEF FixInv, OneOwner
  <2>7. \A q \in Request : Owns(q)' => record'.by = work'[q].own
    BY <1>1, <2>2 DEF FixInv, OneOwner, Owns, Puts
  <2>8. record'.by # NoApproval => approval'[record'.by].status \in Claimed
    BY <1>3 DEF FixInv, OneOwner, TypeOK, Records
  <2> QED BY <2>5, <2>6, <2>7, <2>8 DEF FixInv, OneOwner
<1>8. Written'
  BY <1>1, <1>5 DEF FixInv, Written, Puts
<1> QED BY <1>6, <1>7, <1>8, FollowedKept DEF FixInv

(* A step of an executing request that keeps its approval and changes the      *)
(* record or GitHub: the rest of OneOwner does not move.                       *)
LEMMA OwnerStays ==
    ASSUME TypeOK, FixInv, NEW p \in Request, NEW w \in Works, Puts(p, w), Placed(w),
           UNCHANGED <<approval, loopVars>>,
           w.pc \in Past /\ w.own # NoApproval => Executes(p) /\ w.own = work[p].own,
           \/ record'.by = record.by /\ (w.note \in Uncertain => Owns(p) /\ w.own = work[p].own)
           \/ record.by = NoApproval /\ record'.by = work[p].own /\ w.own = work[p].own
              /\ Executes(p),
           record'.status = "none" <=> record'.by = NoApproval
    PROVE  AllPlaced' /\ OneOwner'
<1>1. AllPlaced'
  BY DEF FixInv, AllPlaced, Puts
<1>2. \A q \in Request : Executes(q)' => Executes(q) /\ work'[q].own = work[q].own
  BY DEF Puts, Executes
<1>3. \A q \in Request : Owns(q)' => record'.by = work'[q].own
  <2>1. CASE record'.by = record.by /\ (w.note \in Uncertain => Owns(p) /\ w.own = work[p].own)
    BY <2>1 DEF FixInv, OneOwner, Owns, Puts
  <2>2. CASE /\ record.by = NoApproval /\ record'.by = work[p].own /\ w.own = work[p].own
             /\ Executes(p)
    <3>1. \A q \in Request : Owns(q)' /\ q # p => work[q].own = NoApproval /\ Owns(q)
      BY <2>2 DEF FixInv, OneOwner, Owns, Puts
    <3>2. \A q \in Request : Owns(q) => work[q].pc \in Executing \cup {"persist"}
      BY DEF FixInv, AllPlaced, Placed, Owns, Uncertain, TypeOK, Works, Opened
    <3>3. \A q \in Request : Owns(q) => work[q].own # NoApproval
      BY <3>2 DEF FixInv, AllPlaced, Placed, Owns, Uncertain, Opened, TypeOK
    <3> QED BY <2>2, <3>1, <3>3 DEF Puts
  <2> QED BY <2>1, <2>2
<1>4. record'.by # NoApproval => approval'[record'.by].status \in Claimed
  BY DEF FixInv, OneOwner
<1>5. OneOwner'
  BY <1>2, <1>3, <1>4 DEF FixInv, OneOwner
<1> QED BY <1>1, <1>5

(* The execution key: whoever finds no record becomes its owner, whether or    *)
(* not it is told so.                                                          *)
LEMMA Begins ==
    ASSUME TypeOK, FixInv, NEW p \in Request, UNCHANGED <<approval, remote, starts, loopVars>>,
           At(p, "begin"), Ownable, record' = Intent(p),
           Noting(p, "check", "failed") \/ Goes(p, "catch")
    PROVE  FixInv'
<1>0. /\ work[p] \in Works /\ work[p].note = "none" /\ work[p].own \in Approval
      /\ Executes(p) /\ record.status = "none" /\ record.by = NoApproval /\ starts = 0
      /\ remote.pr = "none" /\ ~ remote.branch /\ work[p].own # NoApproval
  BY FixAssumption DEF TypeOK, Works, FixInv, AllPlaced, Placed, At, Executing, Executes, Past,
     Ownable, OneOwner, Written, Remotes
<1>1. PICK w \in Works : /\ Puts(p, w) /\ Placed(w) /\ w.own = work[p].own
                         /\ \/ w.pc = "check" /\ w.note = "failed"
                            \/ w.pc = "catch" /\ w.note = "none"
  <2>0. \A c \in {"check", "catch"} : \A n \in {"failed", "none"} :
           /\ [pc |-> c, own |-> work[p].own, note |-> n] \in Works
           /\ c = "check" <=> n = "failed" => Placed([pc |-> c, own |-> work[p].own, note |-> n])
    BY <1>0 DEF Works, Executing, Placed, Opened
  <2>1. CASE Noting(p, "check", "failed")
    <3>1. Puts(p, [pc |-> "check", own |-> work[p].own, note |-> "failed"])
      BY <2>1, NotingPuts DEF Places, Notes, Executing
    <3> QED BY <2>0, <3>1
  <2>2. CASE Goes(p, "catch")
    <3>1. Puts(p, [pc |-> "catch", own |-> work[p].own, note |-> "none"])
      BY <2>2, <1>0, GoesPuts DEF Places, Executing
    <3> QED BY <2>0, <3>1
  <2> QED BY <2>1, <2>2
<1>2. record'.status = "opening" /\ record'.by = work[p].own
  BY DEF Intent
<1>3. AllPlaced' /\ OneOwner'
  BY <1>0, <1>1, <1>2, OwnerStays
<1>4. Written'
  BY <1>0, <1>1, <1>2 DEF FixInv, Written, Puts, Opened
<1>5. Followed'
  BY <1>0, FollowedKept DEF FixInv
<1> QED BY <1>3, <1>4, <1>5 DEF FixInv

(* The one start: nobody else can be about to write.                           *)
LEMMA ChecksOut ==
    ASSUME TypeOK, FixInv, NEW p \in Request, UNCHANGED <<approval, record, remote, loopVars>>,
           At(p, "check"), Noting(p, "branch", "recovery"), starts' = starts + 1
    PROVE  FixInv'
<1>0. /\ work[p] \in Works /\ work[p].note = "failed" /\ Executes(p) /\ Owns(p)
      /\ record.status = "opening" /\ starts = 0
  BY DEF TypeOK, Works, FixInv, AllPlaced, Placed, At, Executes, Past, Executing, Owns, Uncertain, Written
<1>1. PICK w \in Works : /\ Puts(p, w) /\ Placed(w) /\ w.own = work[p].own
                         /\ w.pc = "branch" /\ w.note = "recovery"
  <2>1. Puts(p, [pc |-> "branch", own |-> work[p].own, note |-> "recovery"])
    BY NotingPuts DEF Places, Notes, Executing
  <2>2. /\ [pc |-> "branch", own |-> work[p].own, note |-> "recovery"] \in Works
        /\ Placed([pc |-> "branch", own |-> work[p].own, note |-> "recovery"])
    BY <1>0 DEF Works, Executing, Placed
  <2> QED BY <2>1, <2>2
<1>2. AllPlaced' /\ OneOwner'
  <2>1. record'.status = "none" <=> record'.by = NoApproval
    BY DEF FixInv, OneOwner
  <2> QED BY <1>0, <1>1, <2>1, OwnerStays
<1>3. \A q \in Request : Owns(q) => q = p
  <2>1. \A q \in Request : Owns(q) => work[q].pc \in Past /\ work[q].own # NoApproval
    BY DEF FixInv, AllPlaced, Placed, Owns, Uncertain, Past, TypeOK, Works, Opened, Executing
  <2> QED BY <1>0, <2>1 DEF FixInv, OneOwner, Executes
<1>4. starts' = 1
  BY <1>0
<1>5. Written'
  BY <1>0, <1>1, <1>3, <1>4 DEF FixInv, Written, Puts, Opened, Owns, Uncertain
<1>6. Followed'
  BY FollowedKept DEF FixInv
<1> QED BY <1>2, <1>5, <1>6 DEF FixInv

(* Only the execution that has started writes to GitHub.                       *)
LEMMA Writes ==
    ASSUME TypeOK, FixInv, NEW p \in Request, UNCHANGED <<approval, record, starts, loopVars>>,
           \/ /\ At(p, "branch") /\ remote' = [remote EXCEPT !.branch = TRUE]
              /\ Goes(p, "pr") \/ Goes(p, "catch")
           \/ /\ At(p, "pr") /\ remote.pr = "none" /\ remote' = [remote EXCEPT !.pr = "open"]
              /\ Goes(p, "record") \/ Goes(p, "catch")
    PROVE  FixInv'
<1>0. work[p] \in Works /\ work[p].note = "recovery" /\ Executes(p) /\ Owns(p) /\ starts = 1
  BY DEF TypeOK, Works, FixInv, AllPlaced, Placed, At, Executes, Past, Executing, Owns, Uncertain, Written
<1>1. /\ remote.pr # "none" => remote'.pr = remote.pr
      /\ At(p, "pr") => remote'.pr = "open"
  BY DEF TypeOK, Remotes, At
<1>2. PICK w \in Works : /\ Puts(p, w) /\ Placed(w) /\ w.own = work[p].own /\ w.note = "recovery"
                         /\ w.pc \in {"pr", "record", "catch"} /\ (w.pc = "record" => At(p, "pr"))
  <2>1. ASSUME NEW c \in {"pr", "record", "catch"}, Goes(p, c)
        PROVE  \E w \in Works : /\ Puts(p, w) /\ Placed(w) /\ w.own = work[p].own
                                /\ w.note = "recovery" /\ w.pc = c
    <3>1. Puts(p, [pc |-> c, own |-> work[p].own, note |-> "recovery"])
      BY <2>1, <1>0, GoesPuts DEF Places, Executing
    <3>2. /\ [pc |-> c, own |-> work[p].own, note |-> "recovery"] \in Works
          /\ Placed([pc |-> c, own |-> work[p].own, note |-> "recovery"])
      BY <1>0 DEF Works, Executing, Placed, Opened
    <3> QED BY <3>1, <3>2
  <2> QED BY <2>1 DEF At
<1>3. AllPlaced' /\ OneOwner'
  <2>1. record'.status = "none" <=> record'.by = NoApproval
    BY DEF FixInv, OneOwner
  <2> QED BY <1>0, <1>2, <2>1, OwnerStays
<1>4. Written'
  BY <1>0, <1>1, <1>2 DEF FixInv, Written, Puts
<1>5. Followed'
  BY <1>1, FollowedKept DEF FixInv
<1> QED BY <1>3, <1>4, <1>5 DEF FixInv

(* What is recorded of an opened pull request has been seen at GitHub.         *)
LEMMA RecordsSeen ==
    ASSUME TypeOK, FixInv, NEW p \in Request, UNCHANGED <<approval, remote, starts, loopVars>>,
           \/ RecordOpened(p) /\ record' = Recorded("open")
           \/ Persist(p) /\ record' = Recorded(work[p].note)
    PROVE  FixInv'
<1>0. /\ work[p] \in Works /\ Placed(work[p]) /\ starts = 1 /\ remote.pr # "none"
      /\ record.status # "none" /\ record.by # NoApproval
  BY DEF TypeOK, Works, FixInv, AllPlaced, Placed, At, OneOwner, Written, RecordOpened, Persist
<1>1. /\ record'.by = record.by
      /\ \/ record' = record
         \/ record.status # "merged" /\ record'.status \in Opened
            /\ (record'.status = "merged" => remote.pr = "merged")
  <2>1. CASE RecordOpened(p) /\ record' = Recorded("open")
    BY <2>1 DEF Recorded, TypeOK, Records, Opened
  <2>2. CASE Persist(p) /\ record' = Recorded(work[p].note)
    <3>1. work[p].note \in Opened /\ (work[p].note = "merged" => remote.pr = "merged")
      BY <1>0, <2>2 DEF Persist, At, Placed, FixInv, Written
    <3> QED BY <2>2, <3>1 DEF Recorded, TypeOK, Records
  <2> QED BY <2>1, <2>2
<1>2. PICK w \in Works : /\ Puts(p, w) /\ Placed(w) /\ w.pc \notin {"check", "record", "persist"}
                         /\ w.pc \in Past => Executes(p) /\ w.own = work[p].own
                         /\ w.note = "none" \/ (w.note = work[p].note /\ w.own = work[p].own)
  <2>1. ASSUME NEW c \in {"settle", "catch"}, Goes(p, c), work[p].pc = "record" PROVE
          LET w == [pc |-> c, own |-> work[p].own, note |-> work[p].note]
          IN  /\ w \in Works /\ Puts(p, w) /\ Placed(w) /\ Executes(p)
    BY <2>1, <1>0, GoesPuts DEF Places, Executing, Works, Placed, Opened, Executes, Past, TypeOK
  <2>2. ASSUME Noting(p, "settle", "none"), work[p].own # NoApproval, work[p].pc = "persist" PROVE
          LET w == [pc |-> "settle", own |-> work[p].own, note |-> "none"]
          IN  /\ w \in Works /\ Puts(p, w) /\ Placed(w) /\ Executes(p)
    BY <2>2, <1>0, NotingPuts DEF Places, Notes, Executing, Works, Placed, Opened, Executes, Past
  <2>3. ASSUME Rests(p) PROVE Puts(p, Idle) /\ Idle \in Works /\ Placed(Idle)
    BY <2>3, RestsPuts DEF Idle, Works, Placed
  <2>4. CASE RecordOpened(p)
    BY <2>1, <2>4 DEF RecordOpened, At
  <2>5. CASE Persist(p)
    BY <2>2, <2>3, <2>5 DEF Persist, Told, At, Idle, Past
  <2> QED BY <2>4, <2>5
<1>3. AllPlaced' /\ OneOwner'
  <2>1. record'.status = "none" <=> record'.by = NoApproval
    BY <1>0, <1>1 DEF Opened
  <2>2. w.note \in Uncertain => Owns(p) /\ w.own = work[p].own
    BY <1>2 DEF Owns, Uncertain
  <2> QED BY <1>1, <1>2, <2>1, <2>2, OwnerStays
<1>4. Written'
  <2>1. \A q \in Request : work[q].pc # "check"
    BY <1>0 DEF FixInv, AllPlaced, Placed, Written
  <2>2. /\ record'.status \notin {"none", "failed", "stale"}
        /\ record'.status \in Opened => remote.pr # "none"
        /\ record'.status = "merged" => remote.pr = "merged"
    BY <1>0, <1>1 DEF FixInv, Written, Opened
  <2> QED BY <1>0, <1>2, <2>1, <2>2 DEF FixInv, Written, Puts, Uncertain
<1>5. Followed'
  BY <1>1, FollowedKept DEF FixInv
<1> QED BY <1>3, <1>4, <1>5 DEF FixInv

(* The catch block writes what its owner knows to its own record.              *)
LEMMA Catches ==
    ASSUME TypeOK, FixInv, NEW p \in Request, UNCHANGED <<approval, remote, starts, loopVars>>,
           At(p, "catch"), Goes(p, "fail"), Marks(p),
           record' = [record EXCEPT !.status = work[p].note]
    PROVE  FixInv'
<1>0. /\ work[p] \in Works /\ Placed(work[p]) /\ work[p].note \in Uncertain /\ Executes(p) /\ Owns(p)
      /\ record.status = "opening" /\ record.by = work[p].own
  BY DEF TypeOK, Works, FixInv, AllPlaced, Placed, At, Marks, Uncertain, Executes, Past, Executing, Owns
<1>1. record'.by = record.by /\ record'.status = work[p].note
  BY DEF TypeOK, Records
<1> DEFINE w == [pc |-> "fail", own |-> work[p].own, note |-> work[p].note]
<1>2. w \in Works /\ Puts(p, w) /\ Placed(w)
  BY <1>0, GoesPuts DEF Places, Executing, Works, Placed, At
<1>2a. w.pc = "fail" /\ w.own = work[p].own /\ w.note = work[p].note
  OBVIOUS
<1> HIDE DEF w
<1>3. AllPlaced' /\ OneOwner'
  <2>1. record'.status = "none" <=> record'.by = NoApproval
    BY <1>0, <1>1 DEF Executes, Uncertain
  <2> QED BY <1>0, <1>1, <1>2, <1>2a, <2>1, OwnerStays
<1>4. Written'
  <2>1. \A q \in Request : work[q].pc # "check"
    <3>1. \A q \in Request : work[q].pc = "check" => Owns(q) /\ Executes(q)
      BY DEF FixInv, AllPlaced, Placed, Owns, Executes, Uncertain, Past, TypeOK, Executing
    <3> QED BY <1>0, <3>1 DEF FixInv, OneOwner, At
  <2> QED BY <1>0, <1>1, <1>2, <1>2a, <2>1 DEF FixInv, Written, Puts, Uncertain, Opened
<1>5. Followed'
  BY <1>0, FollowedKept DEF FixInv
<1> QED BY <1>3, <1>4, <1>5 DEF FixInv

LEMMA RequestKeeps ==
    ASSUME TypeOK, FixInv, NEW p \in Request, UNCHANGED loopVars,
           Starts(p) \/ Handles(p) \/ Crash(p)
    PROVE  FixInv'
<1>1. CASE Starts(p) \/ CreateApproval(p) \/ Authorize(p) \/ Crash(p) \/ Inspect(p)
  BY <1>1, QuietBefore
<1>2. CASE Claim(p)
  BY <1>2, QuietAfter, Claims DEF Claim
<1>3. CASE Begin(p)
  BY <1>3, QuietAfter, Begins DEF Begin
<1>4. CASE Check(p)
  BY <1>4, QuietAfter, ChecksOut DEF Check
<1>5. CASE CreateBranch(p) \/ OpenPullRequest(p)
  BY <1>5, QuietAfter, Writes DEF CreateBranch, OpenPullRequest
<1>6. CASE RecordOpened(p)
  BY <1>6, QuietAfter, RecordsSeen DEF RecordOpened
<1>7. CASE Settle(p) \/ Fail(p)
  BY <1>7, QuietAfter DEF Settle, Fail, Claim, At
<1>8. CASE Catch(p)
  BY <1>8, QuietAfter, Catches DEF Catch
<1>9. CASE Persist(p)
  <2>1. CASE record' = Recorded(work[p].note)
    BY <1>9, <2>1, RecordsSeen DEF Persist
  <2>2. CASE UNCHANGED record
    <3>1. work[p].pc \in Past /\ \A a \in Approval :
             approval[a].status \in Claimed => approval'[a].status \in Claimed
      BY <1>9 DEF Persist, At, Past
    <3> QED BY <1>9, <2>2, <3>1, Onward DEF Persist, Told
  <2> QED BY <1>9, <2>1, <2>2 DEF Persist
<1> QED BY <1>1, <1>2, <1>3, <1>4, <1>5, <1>6, <1>7, <1>8, <1>9 DEF Handles

(* Deciders, the sweep of expired approvals and the customer at GitHub.        *)
LEMMA OthersKeep ==
    ASSUME TypeOK, FixInv, UNCHANGED loopVars,
           (\E a \in Approval : Decides(a)) \/ BaseMoves \/ CloseOrReopen
    PROVE  FixInv'
<1>1. ASSUME NEW a \in Approval, Decides(a) PROVE FixInv'
  <2>1. \A b \in Approval : approval[b].status \in Claimed => approval'[b].status \in Claimed
    <3>1. CASE Deny(a) \/ Expire(a)
      BY <3>1, ClaimedKept DEF Deny, Expire, Claimed
    <3>2. CASE Lapse(a)
      BY <3>2 DEF Lapse, Claimed, TypeOK, Approvals
    <3> QED BY <1>1, <3>1, <3>2 DEF Decides
  <2>2. UNCHANGED <<record, remote, starts, work>>
    BY <1>1 DEF Decides, Deny, Expire, Lapse
  <2>3. OneOwner'
    BY <2>1, <2>2 DEF FixInv, OneOwner, Executes, Owns, TypeOK, Works, Records
  <2> QED BY <2>2, <2>3, FollowedKept DEF FixInv, AllPlaced, Written
<1>2. CASE BaseMoves
  <2>1. remote'.pr = remote.pr /\ remote'.branch = remote.branch
    BY <1>2 DEF BaseMoves, TypeOK, Remotes
  <2>2. UNCHANGED <<approval, record, starts, work>>
    BY <1>2 DEF BaseMoves
  <2>3. AllPlaced' /\ OneOwner' /\ Written'
    BY <2>1, <2>2 DEF FixInv, AllPlaced, OneOwner, Written, Executes, Owns
  <2> QED BY <2>1, <2>2, <2>3, FollowedKept DEF FixInv
<1>3. CASE CloseOrReopen
  <2>1. /\ remote'.pr \in {"open", "closed"} /\ remote.pr \in {"open", "closed"}
        /\ remote'.branch = remote.branch
    BY <1>3 DEF CloseOrReopen, TypeOK, Remotes
  <2>2. UNCHANGED <<approval, record, starts, work>>
    BY <1>3 DEF CloseOrReopen
  <2>3. AllPlaced' /\ OneOwner' /\ Written'
    BY <2>1, <2>2 DEF FixInv, AllPlaced, OneOwner, Written, Executes, Owns
  <2> QED BY <2>1, <2>2, <2>3, FollowedKept DEF FixInv
<1> QED BY <1>1, <1>2, <1>3

(* A handler's step: only RecordMerge and Merge touch what requests see.       *)
LEMMA HandlerKeeps ==
    ASSUME TypeOK, FixInv, NEW h \in Handler,
           Receive(h) \/ SweepRead(h) \/ Proceeds(h) \/ LoopCrash(h)
    PROVE  FixInv'
<1>0. /\ task[h] \in Tasks /\ rival \in Rivals
      /\ task[h].pc # "idle" => remote.pr = "merged"
      /\ task[h].pc \in {"worker", "retest"} => record.status = "merged"
  BY DEF TypeOK, FixInv, Followed
<1> DEFINE Stays == UNCHANGED <<approval, record, remote, starts, work>>
           Goal  == AllPlaced' /\ OneOwner' /\ Written'
<1>1. Stays => Goal
  BY DEF FixInv, AllPlaced, OneOwner, Written, Executes, Owns
<1> DEFINE T(c) == Turns(h, [pc |-> c, tries |-> task[h].tries])
<1>2. /\ \A c \in {"idle", "received", "merged", "worker", "retest", "enqueue", "close",
                   "defer", "unmark", "claim", "retry"} : Does(h, c) => T(c)
      /\ Ends(h) => Turns(h, Rest)
  BY DoesTurns, EndsTurns
<1> HIDE DEF T
<1>3. \A c : T(c) => \A i \in Handler : task'[i].pc = IF i = h THEN c ELSE task[i].pc
  BY DEF T, Turns
<1>4. Turns(h, Rest) => \A i \in Handler : task'[i].pc = IF i = h THEN "idle" ELSE task[i].pc
  BY DEF Turns, Rest
<1> DEFINE Goes_(c) == \A i \in Handler : task'[i].pc = IF i = h THEN c ELSE task[i].pc
<1>5. /\ \A c \in {"idle", "received", "merged", "worker", "retest", "enqueue", "close",
                   "defer", "unmark", "claim", "retry"} : Does(h, c) => Goes_(c)
      /\ Ends(h) => Goes_("idle")
  BY <1>2, <1>3, <1>4
<1>6. CASE Receive(h) \/ Mark(h) \/ Unmark(h)
  <2>1. Stays /\ UNCHANGED <<closure, retest>>
    BY <1>6 DEF Receive, Mark, Unmark, fixVars
  <2>2. (hook'.inbox > 0 => hook.inbox > 0) /\ hook'.inbox \in Nat
    BY <1>6 DEF Receive, Mark, Unmark, TypeOK, Hooks
  <2>3. \/ UNCHANGED task
        \/ Goes_("received") /\ remote.pr = "merged"
        \/ Goes_("merged") /\ remote.pr = "merged"
        \/ Goes_("idle")
    BY <1>0, <1>5, <1>6 DEF Receive, Mark, Unmark, Is, FixInv, Followed
  <2>4. Followed'
    BY <2>1, <2>2, <2>3 DEF FixInv, Followed
  <2> QED BY <1>1, <2>1, <2>4 DEF FixInv
<1>7. CASE SweepRead(h)
  <2>1. Stays /\ UNCHANGED <<hook, closure, retest>>
    BY <1>7 DEF SweepRead, fixVars
  <2>2. Goes_("claim") /\ remote.pr = "merged"
    BY <1>7 DEF SweepRead, Due, TypeOK, Tasks, FixInv, Followed
  <2>3. Followed'
    BY <2>1, <2>2 DEF FixInv, Followed
  <2> QED BY <1>1, <2>1, <2>3 DEF FixInv
<1>8. CASE AssertWorker(h) \/ CloseLoop(h) \/ Defer(h) \/ SweepClaim(h) \/ Retry(h) \/ LoopCrash(h)
  <2>1. Stays /\ UNCHANGED <<hook, retest>>
    BY <1>8 DEF AssertWorker, CloseLoop, Defer, SweepClaim, Retry, LoopCrash, fixVars
  <2>2. remote.pr = "merged"
    BY <1>0, <1>8 DEF AssertWorker, CloseLoop, Defer, SweepClaim, Retry, LoopCrash, Is
  <2>3. \/ \E c \in {"idle", "merged", "defer", "unmark", "retry"} : Goes_(c)
        \/ Goes_("retest") /\ record.status = "merged"
    BY <1>0, <1>5, <1>8 DEF AssertWorker, CloseLoop, Defer, SweepClaim, Retry, LoopCrash, Is, Deferrable
  <2>4. Followed'
    BY <2>1, <2>2, <2>3 DEF FixInv, Followed
  <2> QED BY <1>1, <2>1, <2>4 DEF FixInv
<1>9. CASE CreateRetest(h) \/ Enqueue(h)
  <2>1. Stays /\ UNCHANGED <<hook, closure>>
    BY <1>9 DEF CreateRetest, Enqueue, fixVars
  <2>2. remote.pr = "merged"
    BY <1>0, <1>9 DEF CreateRetest, Enqueue, Is
  <2>3. \E c \in {"idle", "enqueue", "close", "defer", "unmark", "retry"} : Goes_(c)
    BY <1>5, <1>9 DEF CreateRetest, Enqueue, Deferrable, Unexpected, FoundGone, Nothing
  <2>4. /\ retest'.scan = "none" <=> retest'.count = 0
        /\ retest'.job => retest'.scan = "QUEUED"
        /\ retest'.count <= 1
        /\ retest'.count = 1 => record.status = "merged"
    <3>1. CASE UNCHANGED retest
      BY <3>1 DEF FixInv, Followed
    <3>2. CASE retest' = Published
      BY <3>2 DEF Published, FixInv, Followed, TypeOK, Retests
    <3>3. CASE /\ CreateRetest(h) /\ Admissible
               /\ retest' = [scan |-> "QUEUED", job |-> FALSE, count |-> retest.count + 1]
      BY <1>0, <3>3 DEF CreateRetest, Is, Admissible, HasPrior, FixInv, Followed
    <3> QED BY <1>9, <3>1, <3>2, <3>3 DEF CreateRetest, Enqueue
  <2>5. Followed'
    BY <2>1, <2>2, <2>3, <2>4 DEF FixInv, Followed
  <2> QED BY <1>1, <2>1, <2>5 DEF FixInv
<1>10. CASE RecordMerge(h)
  <2>1. UNCHANGED <<approval, remote, starts, work, hook, closure, retest>> /\ remote.pr = "merged"
    BY <1>0, <1>10 DEF RecordMerge, Is
  <2>2. CASE UNCHANGED record
    <3>1. \E c \in {"idle", "close", "unmark", "retry"} : Goes_(c) \/ (Goes_("worker") /\ record.status = "merged")
      BY <1>5, <1>10, <2>2 DEF RecordMerge, FoundGone, Nothing, Unexpected, AsMerged, TypeOK, Records
    <3>2. Followed'
      BY <2>1, <2>2, <3>1 DEF FixInv, Followed
    <3> QED BY <1>1, <2>1, <2>2, <3>2 DEF FixInv
  <2>3. CASE Recognised(h) /\ record' = AsMerged
    <3>1. /\ record'.status = "merged" /\ record'.by = record.by
          /\ record.status # "none" /\ record.by # NoApproval
      BY <2>3 DEF AsMerged, TypeOK, Records, Recognised, FixInv, OneOwner
    <3>2. starts = 1 /\ \A q \in Request : work[q].pc # "check"
      <4>1. starts = 1
        BY <2>1 DEF FixInv, Written
      <4> QED BY <4>1 DEF FixInv, Written, AllPlaced, Placed
    <3>3. AllPlaced' /\ OneOwner'
      BY <2>1, <3>1 DEF FixInv, AllPlaced, OneOwner, Executes, Owns
    <3>4. Written'
      BY <2>1, <3>1, <3>2 DEF FixInv, Written
    <3>5. \E c \in {"idle", "close", "unmark", "retry", "worker"} : Goes_(c)
      BY <1>5, <1>10 DEF RecordMerge, FoundGone, Nothing, Unexpected
    <3>6. Followed'
      BY <2>1, <3>1, <3>5 DEF FixInv, Followed
    <3> QED BY <3>3, <3>4, <3>6 DEF FixInv
  <2> QED BY <1>10, <2>2, <2>3 DEF RecordMerge
<1> QED BY <1>6, <1>7, <1>8, <1>9, <1>10 DEF Proceeds

LEMMA LoopKeeps ==
    ASSUME TypeOK, FixInv, LoopNext
    PROVE  FixInv'
<1>1. CASE Merge
  <2>1. remote'.pr = "merged" /\ remote'.branch = remote.branch /\ remote.pr = "open"
    BY <1>1 DEF Merge, TypeOK, Remotes
  <2>2. UNCHANGED <<approval, record, starts, work, closure, retest, task>>
    BY <1>1 DEF Merge
  <2>3. AllPlaced' /\ OneOwner' /\ Written'
    BY <2>1, <2>2 DEF FixInv, AllPlaced, OneOwner, Written, Executes, Owns
  <2>4. Followed'
    BY <2>1, <2>2 DEF FixInv, Followed
  <2> QED BY <2>3, <2>4 DEF FixInv
<1>2. CASE Redeliver \/ ComesDue \/ RunRetest \/ Reconcile \/ RivalComes \/ RivalEnds
  <2>1. UNCHANGED <<approval, record, remote, starts, work, task>>
    BY <1>2 DEF Redeliver, ComesDue, RunRetest, Reconcile, RivalComes, RivalEnds, fixVars
  <2>2. AllPlaced' /\ OneOwner' /\ Written'
    BY <2>1 DEF FixInv, AllPlaced, OneOwner, Written, Executes, Owns
  <2>3. /\ hook'.inbox > 0 \/ closure'.status = "pending" => remote.pr = "merged"
        /\ retest'.scan = "none" <=> retest'.count = 0
        /\ retest'.job => retest'.scan = "QUEUED"
        /\ retest'.count = retest.count
    BY <1>2 DEF Redeliver, ComesDue, RunRetest, Reconcile, RivalComes, RivalEnds, FixInv, Followed,
       TypeOK, Closures, Retests
  <2>4. Followed'
    BY <2>1, <2>3 DEF FixInv, Followed
  <2> QED BY <2>2, <2>4 DEF FixInv
<1> QED BY <1>1, <1>2, HandlerKeeps DEF LoopNext

LEMMA FixInvariant == Spec => [](TypeOK /\ FixInv)
<1>1. Init => FixInv
  BY DEF Init, FixInit, FixInv, AllPlaced, Placed, OneOwner, Written, Followed, Executes, Owns, Idle,
     Rest, Past, Uncertain, Opened
<1>2. TypeOK /\ FixInv /\ [Next]_vars => FixInv'
  <2> SUFFICES ASSUME TypeOK, FixInv, [Next]_vars PROVE FixInv'
    OBVIOUS
  <2>1. CASE FixNext /\ UNCHANGED loopVars
    BY <2>1, RequestKeeps, OthersKeep DEF FixNext
  <2>2. CASE LoopNext
    BY <2>2, LoopKeeps
  <2>3. CASE UNCHANGED vars
    BY <2>3 DEF vars, fixVars, loopVars, FixInv, AllPlaced, OneOwner, Written, Followed, Executes, Owns
  <2> QED BY <2>1, <2>2, <2>3 DEF Next
<1> QED BY <1>1, <1>2, FixTypes, PTL DEF Spec

(* At most one execution of the patch ever starts to write to GitHub, under an *)
(* approval that was claimed.                                                  *)
THEOREM FixOnce == Spec => []OneExecution
<1>1. TypeOK /\ FixInv => OneExecution
  BY DEF FixInv, Written, OneOwner, OneExecution, Opened
<1> QED BY <1>1, FixInvariant, PTL

(* The record never denies what exists at GitHub, nor tells of what does not.  *)
THEOREM FixRecord == Spec => []RecordMatchesRemote
<1>1. TypeOK /\ FixInv => RecordMatchesRemote
  BY DEF FixInv, Written, RecordMatchesRemote
<1> QED BY <1>1, FixInvariant, PTL

(* One automatic retest of a pull request, after its merge is on record.       *)
THEOREM FixRetest == Spec => []OneRetest
<1>1. TypeOK /\ FixInv => OneRetest
  BY DEF FixInv, Followed, OneRetest
<1> QED BY <1>1, FixInvariant, PTL

=============================================================================
